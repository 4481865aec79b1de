------------------------------- MODULE OneWire -------------------------------
(***************************************************************************)
(* The 1-Wire thread: it reads every temperature sensor in turn, filters   *)
(* what it reads, leaves a sensor that keeps failing alone for a while,    *)
(* and publishes what it has to the controller (with a time stamp) and to  *)
(* Home Assistant (when it has changed enough).                            *)
(*                                                                         *)
(* The unit of time is one conversion, which every attempt to read a       *)
(* sensor triggers and waits for.  A time stamp is kept as its age.        *)
(***************************************************************************)
EXTENDS Integers, FiniteSets

CONSTANTS
  Sensors,           \* the sensors that may ever be on the bus
  Good,              \* those that always answer
  Values,            \* what a sensor may answer, in degrees
  ChangeThreshold,   \* change that is shown and used
  PollInterval,      \* pause between two cycles
  CrcRetries,        \* attempts at one reading
  BackoffThreshold,  \* errors in a row before a sensor is left alone
  BackoffCycles,     \* how rarely it is then tried
  Missing            \* no answer; nothing stored yet

\* What the code relies on.
ASSUME OneWireAssumption ==
  /\ IsFiniteSet(Sensors) /\ Good \subseteq Sensors
  /\ Values \subseteq Int /\ Missing \notin Int /\ ChangeThreshold \in Nat \ {0}
  /\ PollInterval \in Nat /\ CrcRetries \in Nat \ {0}
  /\ BackoffThreshold \in Nat \ {0} /\ BackoffCycles \in Nat \ {0}

\* What is taken for a temperature: in range, and not what a sensor says that
\* was just powered on.
PowerOnDefault == 85
Temps == {t \in Values : -55 <= t /\ t <= 125 /\ t # PowerOnDefault}

\* The longest a cycle takes, and how old what it publishes can get by the end
\* of the next one.
MaxCycle == CrcRetries * Cardinality(Sensors)
FreshBound == PollInterval + 2 * MaxCycle
Ages == 0 .. FreshBound + 1

VARIABLES
  bus,        \* the sensors the kernel lists
  steady,     \* from now on every listed sensor answers
  stage,      \* where the thread is
  known,      \* the sensors registered
  errors,     \* consecutive errors of each
  cycle,      \* cycle_count, modulo BackoffCycles
  results,    \* what this cycle has read
  elapsed,    \* how long it took
  used,       \* the temperature the controller is given, Missing while missing
  age,        \* and since when it is there
  shown,      \* the temperature pushed to Home Assistant
  measured    \* history: the last reading that was accepted

oneWireVars ==
  <<bus, steady, stage, known, errors, cycle, results, elapsed, used, age, shown, measured>>
stored == <<used, shown, measured>>

-----------------------------------------------------------------------------
Older(time) ==
  age' = [a \in Sensors |->
            IF age[a] + time \in Ages THEN age[a] + time ELSE FreshBound + 1]

\* Mutant: a sensor is given up for good.
GivenUp(a) == errors[a] >= BackoffThreshold
BackedOff(a) == errors[a] >= BackoffThreshold /\ cycle # 0

\* What reading the sensors of S may give: an answer, or none in any attempt.
Readings(S) ==
  {reading \in [S -> Values \cup {Missing}] :
     \A a \in S :
       /\ a \notin bus => reading[a] = Missing
       /\ a \in bus /\ (steady \/ a \in Good) => reading[a] \in Temps}
Answered(reading) == {a \in DOMAIN reading : reading[a] # Missing}
Accepted(reading) == {a \in DOMAIN reading : reading[a] \in Temps}
Durations(reading) ==
  Cardinality(Answered(reading)) .. CrcRetries * Cardinality(DOMAIN reading)

Saturated(n) == IF n < BackoffThreshold THEN n ELSE BackoffThreshold
\* The default neither counts as an error nor clears the ones before.
Counted(reading, a) ==
  IF a \notin DOMAIN reading \/ reading[a] = PowerOnDefault THEN errors[a]
  ELSE IF reading[a] \in Temps THEN 0 ELSE Saturated(errors[a] + 1)

Distance(x, y) == IF x < y THEN y - x ELSE x - y
Changed(a, temp) == used[a] = Missing \/ Distance(temp, used[a]) >= ChangeThreshold

-----------------------------------------------------------------------------
(* run_onewire_thread and poll_cycle.                                      *)

\* An empty scan is a failure and repeated after a pause.
ScanSensors ==
  /\ stage = "connect" /\ known' = known \cup bus
  /\ stage' = IF bus = {} THEN "connect" ELSE "poll"
  /\ UNCHANGED <<bus, steady, errors, cycle, results, elapsed, age, stored>>

ReadAll ==
  /\ stage = "poll" /\ stage' = "publish" /\ known' = known \cup bus
  /\ \E reading \in Readings({a \in known' : ~BackedOff(a)}) :
       /\ errors' = [a \in Sensors |-> Counted(reading, a)]
       /\ results' = [a \in Accepted(reading) |-> reading[a]]
       /\ cycle' = (cycle + 1) % BackoffCycles
       /\ \E time \in Durations(reading) : elapsed' = time /\ Older(time)
  /\ UNCHANGED <<bus, steady, stored>>

\* Mutant: a time stamp is refreshed only by a change (as it was before 04.09.2026).
StampOnChange(a) == a \in DOMAIN results /\ Changed(a, results[a])
Stamped(a) == a \in DOMAIN results

\* Mutant: every reading is stored, so a change is judged by the last reading.
StoreAlways(a) == IF a \in DOMAIN results THEN results[a] ELSE used[a]
Stored(a) == IF a \in DOMAIN results /\ Changed(a, results[a]) THEN results[a] ELSE used[a]

Publish ==
  /\ stage = "publish" /\ stage' = "sleep"
  /\ used' = [a \in Sensors |-> Stored(a)]
  /\ shown' = [a \in Sensors |->
                 IF a \in DOMAIN results /\ Changed(a, results[a]) THEN results[a] ELSE shown[a]]
  /\ measured' = [a \in Sensors |-> IF a \in DOMAIN results THEN results[a] ELSE measured[a]]
  \* The time stamp is the start of the cycle.
  /\ age' = [a \in Sensors |-> IF Stamped(a) THEN elapsed ELSE age[a]]
  /\ results' = << >> /\ elapsed' = 0
  /\ UNCHANGED <<bus, steady, known, errors, cycle>>

Sleep ==
  /\ stage = "sleep" /\ stage' = "poll" /\ Older(PollInterval)
  /\ UNCHANGED <<bus, steady, known, errors, cycle, results, elapsed, stored>>

OneWireThread == ScanSensors \/ ReadAll \/ Publish \/ Sleep

\* The kernel finds and loses sensors.
Rewire ==
  /\ ~steady /\ \E a \in Sensors \ Good : bus' = IF a \in bus THEN bus \ {a} ELSE bus \cup {a}
  /\ UNCHANGED <<steady, stage, known, errors, cycle, results, elapsed, age, stored>>
Settle ==
  /\ ~steady /\ steady' = TRUE
  /\ UNCHANGED <<bus, stage, known, errors, cycle, results, elapsed, age, stored>>

OneWireInit ==
  /\ bus \in {S \in SUBSET Sensors : Good \subseteq S} /\ steady = FALSE
  /\ stage = "connect" /\ known = {} /\ errors = [a \in Sensors |-> 0] /\ cycle = 0
  /\ results = << >> /\ elapsed = 0 /\ age = [a \in Sensors |-> 0]
  /\ used = [a \in Sensors |-> Missing] /\ shown = used /\ measured = used

OneWireNext == OneWireThread \/ Rewire \/ Settle
OneWireSpec == OneWireInit /\ [][OneWireNext]_oneWireVars
\* The thread goes on until the process ends.
OneWireFairSpec == OneWireSpec /\ WF_oneWireVars(OneWireThread)
-----------------------------------------------------------------------------
\* Every variable keeps its type.
OneWireTypeOK ==
  /\ bus \subseteq Sensors /\ known \subseteq Sensors /\ steady \in BOOLEAN
  /\ stage \in {"connect", "poll", "publish", "sleep"}
  /\ errors \in [Sensors -> 0 .. BackoffThreshold] /\ cycle \in 0 .. BackoffCycles - 1
  /\ DOMAIN results \subseteq Sensors /\ \A a \in DOMAIN results : results[a] \in Temps
  /\ elapsed \in 0 .. MaxCycle /\ age \in [Sensors -> Ages]
  /\ used \in [Sensors -> Temps \cup {Missing}] /\ shown \in [Sensors -> Temps \cup {Missing}]
  /\ measured \in [Sensors -> Temps \cup {Missing}]

\* The controller uses what Home Assistant shows, and both are within the
\* threshold of what was last measured, however slowly the temperature drifts:
\* a change is judged by the stored value, not by the reading before.
UsedIsShownIsMeasured ==
  \A a \in Sensors :
    /\ used[a] = shown[a] /\ (used[a] = Missing <=> measured[a] = Missing)
    /\ used[a] # Missing => Distance(used[a], measured[a]) < ChangeThreshold

\* The temperature of a sensor that answers is never older than the pause and two
\* cycles, however the others fail and however long it stands still ("a stable tank
\* temperature must not age into n/a").  Whether that is below
\* sensor_max_age_seconds depends on how many sensors can fail: with twelve it is
\* 64 s and the limit 60 s.
GoodSensorReadInTime == \A a \in Good : used[a] # Missing => age[a] <= FreshBound

\* A sensor that failed for however long is used again once it answers: backing
\* off never becomes giving up.
SickSensorComesBack ==
  \A a \in Sensors :
    <>[](steady /\ a \in bus) => <>[](used[a] # Missing /\ age[a] <= FreshBound)
=============================================================================
