---------------------------- MODULE BusesProofs ----------------------------
(***************************************************************************)
(* The threads of the buses: first each of them for itself, the DS100      *)
(* search, the 1-Wire poller and the reader of the serial line (the CAN    *)
(* limiter has CanbusProofs), then the module that puts them together.     *)
(*                                                                         *)
(* The DS100 thread never polls at a rate the meter does not listen at,    *)
(* for every list of rates: whoever is about to switch the meter has just  *)
(* heard it, and whoever comes back from a switch has heard the meter      *)
(* confirm it.                                                             *)
(*                                                                         *)
(* What the 1-Wire thread hands to the controller and to Home Assistant is *)
(* one value, near to what was measured, and a sensor that works is never  *)
(* older than a pause and two cycles, for every number of sensors,         *)
(* whatever the others do.  The bound follows the thread through its       *)
(* cycle: each stage adds its own time to what the stage before left.      *)
(*                                                                         *)
(* The reader of the serial line finds its way back: the bytes that are    *)
(* not read yet are rests of whole lines, only the first of which may be   *)
(* cut at its beginning, and a line that is not spoiled is cut nowhere.    *)
(***************************************************************************)
EXTENDS MCBuses, CanbusProofs, FiniteSetTheorems, SequenceTheorems, TLAPS

-----------------------------------------------------------------------------
(* DS100: the search for the meter's rate.                                 *)

\* While a rate is tried, and while the meter is moved from or back to it, the
\* port is open at that rate.
SwitchOK == pc \in {"probe", "switch", "restore"} => port = Bauds[try]
\* An open port of a session is at the meter's rate.
SearchInv == TypeOK /\ SwitchOK /\ PollsAtTheMetersRate

\* Bauds is a list with a first element.
LEMMA TargetIsRate ==
  Len(Bauds) \in Nat /\ Len(Bauds) >= 1 /\ Target \in Rates /\ \A i \in 1 .. Len(Bauds) : Bauds[i] \in Rates
  BY BaudsAssumption DEF Target, Rates

\* The search starts with no port open.
LEMMA SearchInit == Init => SearchInv
<1> SUFFICES ASSUME Init PROVE SearchInv
  OBVIOUS
<1>1. try \in 1 .. Len(Bauds)
  BY TargetIsRate DEF Init
<1>2. TypeOK
  BY <1>1, Zenon DEF Init, TypeOK
<1>3. SwitchOK /\ PollsAtTheMetersRate
  BY DEF Init, SwitchOK, PollsAtTheMetersRate
<1> QED
  BY <1>2, <1>3 DEF SearchInv

\* An answer comes only through a port at the meter's rate.
LEMMA AnswerMeansSameRate == "answer" \in Outcomes => port = meter /\ port # None
  BY DEF Outcomes

\* Every step of the thread keeps the invariant, and the world cannot break it.
LEMMA SearchStep == SearchInv /\ [Next]_vars => SearchInv'
<1> SUFFICES ASSUME SearchInv, [Next]_vars PROVE SearchInv'
  OBVIOUS
<1> USE BaudsAssumption, TargetIsRate DEF SearchInv, TypeOK, SwitchOK, PollsAtTheMetersRate
<1>1. CASE Look
  BY <1>1 DEF Look, world
<1>2. CASE OpenPort
  BY <1>2 DEF OpenPort, Open, NextBaud, world
<1>3. CASE Probe
  <2> PICK outcome \in Outcomes :
        IF outcome # "answer" THEN port' = None /\ NextBaud
        ELSE /\ Read(outcome) /\ UNCHANGED try
             /\ pc' = IF Bauds[try] = Target \/ Target \notin Supported THEN "poll" ELSE "switch"
    BY <1>3 DEF Probe
  <2>1. CASE outcome = "answer"
    BY <1>3, <2>1, AnswerMeansSameRate DEF Probe, Read, world
  <2>2. CASE outcome # "answer"
    BY <1>3, <2>2 DEF Probe, NextBaud, world
  <2> QED
    BY <2>1, <2>2
<1>4. CASE SwitchBaud
  BY <1>4, AnswerMeansSameRate DEF SwitchBaud, Obeys, Switched, Write, world
<1>5. CASE Reopen
  BY <1>5 DEF Reopen, Open, world
<1>6. CASE GoBack
  BY <1>6 DEF GoBack, Open, world
<1>7. CASE Restore
  BY <1>7, AnswerMeansSameRate DEF Restore, Obeys, Write, world
<1>8. CASE Verify
  BY <1>8, AnswerMeansSameRate DEF Verify, Read, NextBaud, world
<1>9. CASE Poll
  BY <1>9 DEF Poll, Read, world
<1>10. CASE Reconnect
  BY <1>10 DEF Reconnect, world
<1>11. CASE Plug
  BY <1>11 DEF Plug
<1>12. CASE CalmComes
  BY <1>12 DEF CalmComes
<1>13. CASE UNCHANGED vars
  BY <1>13 DEF vars
<1> QED
  BY <1>1, <1>2, <1>3, <1>4, <1>5, <1>6, <1>7, <1>8, <1>9, <1>10, <1>11, <1>12, <1>13
     DEF Next, Thread

\* The invariant holds throughout.
THEOREM SearchInvariant == Spec => []SearchInv
  BY SearchInit, SearchStep, PTL DEF Spec

\* A session never waits for a meter at another rate, for every list of rates
\* and however its exchanges end.
THEOREM PollsRight == Spec => []PollsAtTheMetersRate
<1>1. SearchInv => PollsAtTheMetersRate
  BY DEF SearchInv
<1> QED
  BY <1>1, SearchInvariant, PTL

-----------------------------------------------------------------------------
(* 1-Wire: the invariant of the poller.                                    *)

\* A good sensor is on the bus, has no errors, and so is read in every cycle.
GoodIsRead ==
  /\ Good \subseteq bus /\ \A a \in Good : errors[a] = 0
  /\ stage = "publish" => Good \subseteq DOMAIN results

\* How old the value of a good sensor may be where the thread is.
AgeLimit ==
  CASE stage = "sleep" -> MaxCycle
    [] stage = "poll" -> MaxCycle + PollInterval
    [] OTHER -> FreshBound
GoodInTime ==
  \A a \in Good : used[a] # Missing => stage # "connect" /\ age[a] <= AgeLimit

PollerInv == OneWireTypeOK /\ UsedIsShownIsMeasured /\ GoodIsRead /\ GoodInTime

-----------------------------------------------------------------------------
(* The times.                                                              *)

\* A cycle is at most as long as all retries of all sensors.
LEMMA CycleTimes ==
  /\ MaxCycle \in Nat /\ FreshBound \in Nat /\ PollInterval \in Nat
  /\ MaxCycle + PollInterval <= FreshBound
  /\ FreshBound = MaxCycle + PollInterval + MaxCycle
<1>1. Cardinality(Sensors) \in Nat
  BY FS_CardinalityType, OneWireAssumption
<1>2. MaxCycle \in Nat
  BY <1>1, OneWireAssumption DEF MaxCycle
<1> QED
  BY <1>2, OneWireAssumption DEF FreshBound

\* More sensors take no less time.
LEMMA Monotone ==
  ASSUME NEW k \in Nat, NEW m \in Nat, NEW n \in Nat, m <= n
  PROVE  k * m <= k * n
<1>1. PICK d \in Nat : n = m + d
  <2>1. n - m \in Nat /\ n = m + (n - m)
    OBVIOUS
  <2> QED
    BY <2>1
<1>2. k * n = k * m + k * d
  BY <1>1
<1>3. k * d \in Nat /\ k * m \in Nat
  BY <1>1
<1> QED
  BY <1>2, <1>3

\* Reading some of the sensors takes no longer than a cycle.
LEMMA DurationBound ==
  ASSUME NEW S \in SUBSET Sensors, NEW reading, DOMAIN reading = S,
         NEW time \in Durations(reading)
  PROVE  time \in 0 .. MaxCycle
<1>1. /\ IsFiniteSet(S) /\ Cardinality(S) <= Cardinality(Sensors)
      /\ Cardinality(S) \in Nat /\ Cardinality(Sensors) \in Nat
  BY FS_Subset, FS_CardinalityType, OneWireAssumption
<1>2. IsFiniteSet(Answered(reading)) /\ Cardinality(Answered(reading)) \in Nat
  BY <1>1, FS_Subset, FS_CardinalityType DEF Answered
<1>3. CrcRetries * Cardinality(S) <= CrcRetries * Cardinality(Sensors)
  BY <1>1, Monotone, OneWireAssumption
<1>4. CrcRetries * Cardinality(S) \in Nat /\ CrcRetries * Cardinality(Sensors) \in Nat
  BY <1>1, OneWireAssumption
<1>5. time \in Cardinality(Answered(reading)) .. CrcRetries * Cardinality(S)
  BY DEF Durations
<1> QED
  BY <1>2, <1>3, <1>4, <1>5 DEF MaxCycle

\* Ages stay in their range, and an age within the bound grows by the time.
LEMMA OlderType ==
  ASSUME OneWireTypeOK, NEW time \in Nat, Older(time)
  PROVE  /\ age' \in [Sensors -> Ages]
         /\ \A a \in Sensors : age[a] + time <= FreshBound => age'[a] = age[a] + time
<1>1. /\ FreshBound \in Nat /\ Ages = 0 .. FreshBound + 1
      /\ age \in [Sensors -> 0 .. FreshBound + 1]
  BY CycleTimes DEF OneWireTypeOK, Ages
<1> QED
  BY <1>1 DEF Older

-----------------------------------------------------------------------------
(* The invariant.                                                          *)

LEMMA PollerInit == ASSUME OneWireInit PROVE PollerInv
<1>1. OneWireTypeOK
  <2>1. DOMAIN results = {}
    BY DEF OneWireInit
  <2>2. errors \in [Sensors -> 0 .. BackoffThreshold] /\ cycle \in 0 .. BackoffCycles - 1
    BY OneWireAssumption DEF OneWireInit
  <2>3. elapsed \in 0 .. MaxCycle /\ age \in [Sensors -> Ages]
    BY CycleTimes DEF OneWireInit, Ages
  <2>4. used \in [Sensors -> Temps \cup {Missing}] /\ used = shown /\ used = measured
    BY DEF OneWireInit
  <2>5. bus \subseteq Sensors /\ known \subseteq Sensors /\ steady \in BOOLEAN
    BY DEF OneWireInit
  <2> QED
    BY <2>1, <2>2, <2>3, <2>4, <2>5 DEF OneWireInit, OneWireTypeOK
<1>2. UsedIsShownIsMeasured
  BY DEF OneWireInit, UsedIsShownIsMeasured
<1>3. GoodIsRead /\ GoodInTime
  BY OneWireAssumption DEF OneWireInit, GoodIsRead, GoodInTime
<1> QED
  BY <1>1, <1>2, <1>3 DEF PollerInv

\* Reading all sensors.
LEMMA ReadAllInv == ASSUME PollerInv, ReadAll PROVE PollerInv'
<1> DEFINE tried == {a \in known' : ~BackedOff(a)}
<1>1. PICK reading \in Readings(tried) :
        /\ errors' = [a \in Sensors |-> Counted(reading, a)]
        /\ results' = [a \in Accepted(reading) |-> reading[a]]
        /\ cycle' = (cycle + 1) % BackoffCycles
        /\ \E time \in Durations(reading) : elapsed' = time /\ Older(time)
  BY DEF ReadAll
<1>2. PICK time \in Durations(reading) : elapsed' = time /\ Older(time)
  BY <1>1
<1>3. /\ stage = "poll" /\ stage' = "publish" /\ known' = known \cup bus
      /\ UNCHANGED <<bus, steady, used, shown, measured>>
  BY DEF ReadAll, stored
<1>4. known' \subseteq Sensors /\ tried \in SUBSET Sensors
  BY <1>3 DEF PollerInv, OneWireTypeOK
<1>5. /\ DOMAIN reading = tried
      /\ \A a \in tried : a \in bus /\ a \in Good => reading[a] \in Temps
  BY DEF Readings
<1>6. time \in 0 .. MaxCycle
  BY <1>4, <1>5, DurationBound
<1>7. Good \subseteq tried
  BY <1>3, OneWireAssumption DEF PollerInv, GoodIsRead, BackedOff
<1>8. Good \subseteq Accepted(reading)
  BY <1>5, <1>7 DEF PollerInv, GoodIsRead, Accepted
<1>9. PowerOnDefault \notin Temps
  BY DEF Temps
<1>10. OneWireTypeOK'
  <2>1. errors' \in [Sensors -> 0 .. BackoffThreshold]
    <3> SUFFICES ASSUME NEW a \in Sensors PROVE Counted(reading, a) \in 0 .. BackoffThreshold
      BY <1>1
    <3>1. errors[a] \in 0 .. BackoffThreshold
      BY DEF PollerInv, OneWireTypeOK
    <3> QED
      BY <3>1, OneWireAssumption DEF Counted, Saturated
  <2>2. DOMAIN results' \subseteq Sensors /\ \A a \in DOMAIN results' : results'[a] \in Temps
    BY <1>1, <1>4, <1>5 DEF Accepted
  <2>3. cycle' \in 0 .. BackoffCycles - 1
    BY <1>1, OneWireAssumption DEF PollerInv, OneWireTypeOK
  <2>4. age' \in [Sensors -> Ages] /\ elapsed' \in 0 .. MaxCycle
    BY <1>2, <1>6, CycleTimes, OlderType DEF PollerInv
  <2> QED
    BY <1>3, <1>4, <2>1, <2>2, <2>3, <2>4 DEF PollerInv, OneWireTypeOK
<1>11. UsedIsShownIsMeasured'
  BY <1>3 DEF PollerInv, UsedIsShownIsMeasured
<1>12. GoodIsRead'
  <2>1. \A a \in Good : Counted(reading, a) = 0
    BY <1>5, <1>7, <1>8, <1>9 DEF Counted, Accepted
  <2> QED
    BY <1>1, <1>3, <1>8, <2>1, OneWireAssumption DEF PollerInv, GoodIsRead
<1>13. GoodInTime'
  <2> SUFFICES ASSUME NEW a \in Good, used[a] # Missing
               PROVE  age'[a] <= FreshBound
    BY <1>3 DEF GoodInTime, AgeLimit
  <2>1. age[a] <= MaxCycle + PollInterval /\ a \in Sensors
    BY <1>3, OneWireAssumption DEF PollerInv, GoodInTime, AgeLimit
  <2>2. age[a] \in Nat
    BY <2>1, CycleTimes DEF PollerInv, OneWireTypeOK, Ages
  <2>3. age[a] + time <= FreshBound
    BY <1>6, <2>1, <2>2, CycleTimes
  <2>4. age'[a] = age[a] + time
    BY <1>2, <1>6, <2>1, <2>3, CycleTimes, OlderType DEF PollerInv
  <2> QED
    BY <2>3, <2>4
<1> QED
  BY <1>10, <1>11, <1>12, <1>13 DEF PollerInv

\* Publishing what was read.
LEMMA PublishInv == ASSUME PollerInv, Publish PROVE PollerInv'
<1>1. /\ stage = "publish" /\ stage' = "sleep" /\ results' = << >> /\ elapsed' = 0
      /\ UNCHANGED <<bus, steady, known, errors, cycle>>
  BY DEF Publish
<1>2. /\ OneWireTypeOK /\ UsedIsShownIsMeasured
      /\ Temps \subseteq Int /\ Missing \notin Int
  BY OneWireAssumption DEF PollerInv, Temps
<1>3. OneWireTypeOK'
  <2>1. used' \in [Sensors -> Temps \cup {Missing}]
    BY <1>2 DEF Publish, Stored, OneWireTypeOK
  <2>2. shown' \in [Sensors -> Temps \cup {Missing}] /\ measured' \in [Sensors -> Temps \cup {Missing}]
    BY <1>2 DEF Publish, OneWireTypeOK
  <2>3. age' \in [Sensors -> Ages] /\ elapsed' \in 0 .. MaxCycle
    BY <1>1, <1>2, CycleTimes DEF Publish, OneWireTypeOK, Ages
  <2>4. DOMAIN results' = {}
    BY <1>1
  <2> QED
    BY <1>1, <1>2, <2>1, <2>2, <2>3, <2>4 DEF OneWireTypeOK
<1>4. UsedIsShownIsMeasured'
  <2> SUFFICES ASSUME NEW a \in Sensors
               PROVE  /\ used'[a] = shown'[a] /\ (used'[a] = Missing <=> measured'[a] = Missing)
                      /\ used'[a] # Missing => Distance(used'[a], measured'[a]) < ChangeThreshold
    BY DEF UsedIsShownIsMeasured
  <2>1. CASE a \notin DOMAIN results
    BY <1>2, <2>1 DEF Publish, Stored, UsedIsShownIsMeasured
  <2>2. CASE a \in DOMAIN results
    <3>1. results[a] \in Int /\ results[a] # Missing /\ measured'[a] = results[a]
      BY <1>2, <2>2 DEF Publish, OneWireTypeOK
    <3>2. CASE Changed(a, results[a])
      BY <2>2, <3>1, <3>2, OneWireAssumption DEF Publish, Stored, Distance
    <3>3. CASE ~Changed(a, results[a])
      <4>1. used'[a] = used[a] /\ shown'[a] = shown[a] /\ used[a] = shown[a]
        BY <1>2, <2>2, <3>3 DEF Publish, Stored, UsedIsShownIsMeasured
      <4>2. used[a] # Missing /\ Distance(results[a], used[a]) < ChangeThreshold /\ used[a] \in Int
        <5>1. used[a] # Missing /\ ~(Distance(results[a], used[a]) >= ChangeThreshold)
          BY <3>3 DEF Changed
        <5>2. used[a] \in Int
          BY <1>2, <5>1 DEF OneWireTypeOK
        <5> QED
          BY <3>1, <5>1, <5>2, OneWireAssumption DEF Distance
      <4> QED
        BY <3>1, <4>1, <4>2, OneWireAssumption DEF Distance
    <3> QED
      BY <3>2, <3>3
  <2> QED
    BY <2>1, <2>2
<1>5. GoodIsRead'
  BY <1>1 DEF PollerInv, GoodIsRead
<1>6. GoodInTime'
  <2> SUFFICES ASSUME NEW a \in Good PROVE age'[a] <= MaxCycle
    BY <1>1 DEF GoodInTime, AgeLimit
  <2>1. age'[a] = elapsed
    BY <1>1, OneWireAssumption DEF PollerInv, GoodIsRead, Publish, Stamped
  <2> QED
    BY <1>2, <2>1, CycleTimes DEF OneWireTypeOK
<1> QED
  BY <1>3, <1>4, <1>5, <1>6 DEF PollerInv

\* The pause.
LEMMA SleepInv == ASSUME PollerInv, Sleep PROVE PollerInv'
<1>1. /\ stage = "sleep" /\ stage' = "poll" /\ Older(PollInterval)
      /\ UNCHANGED <<bus, steady, known, errors, cycle, results, elapsed, used, shown, measured>>
  BY DEF Sleep, stored
<1>2. OneWireTypeOK'
  BY <1>1, CycleTimes, OlderType DEF PollerInv, OneWireTypeOK
<1>3. UsedIsShownIsMeasured' /\ GoodIsRead'
  BY <1>1 DEF PollerInv, UsedIsShownIsMeasured, GoodIsRead
<1>4. GoodInTime'
  <2> SUFFICES ASSUME NEW a \in Good, used[a] # Missing
               PROVE  age'[a] <= MaxCycle + PollInterval
    BY <1>1 DEF GoodInTime, AgeLimit
  <2>1. age[a] <= MaxCycle /\ a \in Sensors
    BY <1>1, OneWireAssumption DEF PollerInv, GoodInTime, AgeLimit
  <2>2. age[a] \in Nat
    BY <2>1, CycleTimes DEF PollerInv, OneWireTypeOK, Ages
  <2>3. age[a] + PollInterval <= FreshBound
    BY <2>1, <2>2, CycleTimes
  <2>4. age'[a] = age[a] + PollInterval
    BY <1>1, <2>1, <2>3, CycleTimes, OlderType DEF PollerInv
  <2> QED
    BY <2>1, <2>2, <2>4, CycleTimes
<1> QED
  BY <1>2, <1>3, <1>4 DEF PollerInv

LEMMA PollerStep == ASSUME PollerInv, [OneWireNext]_oneWireVars PROVE PollerInv'
<1>1. CASE ScanSensors
  <2>1. \A a \in Good : used[a] = Missing
    BY <1>1 DEF ScanSensors, PollerInv, GoodInTime
  <2> QED
    BY <1>1, <2>1 DEF ScanSensors, stored, PollerInv, OneWireTypeOK, UsedIsShownIsMeasured, GoodIsRead, GoodInTime
<1>2. CASE ReadAll
  BY <1>2, ReadAllInv
<1>3. CASE Publish
  BY <1>3, PublishInv
<1>4. CASE Sleep
  BY <1>4, SleepInv
<1>5. CASE Rewire
  BY <1>5 DEF Rewire, stored, PollerInv, OneWireTypeOK, UsedIsShownIsMeasured, GoodIsRead, GoodInTime, AgeLimit
<1>6. CASE Settle
  BY <1>6 DEF Settle, stored, PollerInv, OneWireTypeOK, UsedIsShownIsMeasured, GoodIsRead, GoodInTime, AgeLimit
<1>7. CASE UNCHANGED oneWireVars
  BY <1>7 DEF oneWireVars, PollerInv, OneWireTypeOK, UsedIsShownIsMeasured, GoodIsRead, GoodInTime, AgeLimit
<1> QED
  BY <1>1, <1>2, <1>3, <1>4, <1>5, <1>6, <1>7 DEF OneWireNext, OneWireThread

LEMMA PollerInvariant == OneWireSpec => []PollerInv
<1>1. OneWireInit => PollerInv
  BY PollerInit
<1>2. PollerInv /\ [OneWireNext]_oneWireVars => PollerInv'
  BY PollerStep
<1> QED
  BY <1>1, <1>2, PTL DEF OneWireSpec

-----------------------------------------------------------------------------
(* The theorems.                                                           *)

\* What the controller is given is what Home Assistant shows, and is within the
\* threshold of what was measured last.
THEOREM OneTemperature == OneWireSpec => []UsedIsShownIsMeasured
<1>1. PollerInv => UsedIsShownIsMeasured
  BY DEF PollerInv
<1> QED
  BY <1>1, PollerInvariant, PTL

\* A sensor that always answers is never older than a pause and two cycles,
\* however many others fail.
THEOREM GoodSensorIsRead == OneWireSpec => []GoodSensorReadInTime
<1>1. PollerInv => GoodSensorReadInTime
  <2> SUFFICES ASSUME PollerInv, NEW a \in Good, used[a] # Missing PROVE age[a] <= FreshBound
    BY DEF GoodSensorReadInTime
  <2>1. age[a] <= AgeLimit /\ age[a] \in Nat
    BY CycleTimes, OneWireAssumption DEF PollerInv, GoodInTime, OneWireTypeOK, Ages
  <2> QED
    BY <2>1, CycleTimes DEF AgeLimit
<1> QED
  BY <1>1, PollerInvariant, PTL

-----------------------------------------------------------------------------
(* The serial line: what is left of the lines.                             *)

\* The bytes that were not dealt with yet.
Stream == line \o wire

\* A byte that may be the first of a line.
Begins(b) == b.kind # "hex" /\ (b.frame \in Frames => b.kind = "t")

\* Only the first line may lack its beginning: the letter of a frame is followed
\* by the rest of the frame, a digit by a digit or the end, and before a digit or
\* the end of a frame there is what belongs there.
FrameFollows(s, i) ==
  s[i].kind = "t" =>
    /\ i + 3 <= Len(s) /\ s[i].frame \in Frames
    /\ s[i + 1] = L!Byte(s[i].frame, "hex") /\ s[i + 2] = L!Byte(s[i].frame, "hex")
    /\ s[i + 3] = L!Byte(s[i].frame, "cr")
DigitFollows(s, i) ==
  s[i].kind = "hex" => i + 1 <= Len(s) /\ s[i + 1].kind \in {"hex", "cr"}
FrameBefore(s, i) ==
  i > 1 /\ ~Begins(s[i]) => s[i - 1].kind \in {"t", "hex"} /\ s[i - 1].frame = s[i].frame
Whole(s) == \A i \in 1 .. Len(s) : FrameFollows(s, i) /\ DigitFollows(s, i) /\ FrameBefore(s, i)

\* A line that is not spoiled is read from its beginning.
FromTheStart ==
  ~spoiled =>
    \/ line = << >> /\ (wire # << >> => Begins(wire[1]))
    \/ \E n \in Frames : \E k \in 1 .. 3 : line = SubSeq(L!FrameLine(n), 1, k)
\* The line being read has not ended.
NotEnded ==
  /\ mode \in {"command", "answer", "handle"} => line = << >>
  /\ \A i \in 1 .. Len(line) : line[i].kind # "cr"

ReaderInv == L!TypeOK /\ Whole(Stream) /\ FromTheStart /\ NotEnded

\* What arrives, one line after the other.
Arrivals == {L!FrameLine(n) : n \in Frames} \cup {<<L!Noise>>, <<L!Ack>>, <<L!Nak>>, L!Written}

LEMMA ArrivalsAreWhole ==
  ASSUME NEW t \in Arrivals
  PROVE  t \in Seq(L!Bytes) /\ t # << >> /\ Len(t) \in Nat /\ Len(t) >= 1 /\ Whole(t) /\ Begins(t[1])
<1> USE SerialAssumption DEF L!SlcanAssumption, L!Bytes, L!Byte
<1>1. ASSUME NEW n \in Frames, t = L!FrameLine(n)
      PROVE  t \in Seq(L!Bytes) /\ t # << >> /\ Len(t) \in Nat /\ Len(t) >= 1 /\ Whole(t) /\ Begins(t[1])
  <2>1. t \in Seq(L!Bytes) /\ Len(t) = 4 /\ t # << >>
    BY <1>1 DEF L!FrameLine
  <2>2. /\ t[1] = L!Byte(n, "t") /\ t[2] = L!Byte(n, "hex")
        /\ t[3] = L!Byte(n, "hex") /\ t[4] = L!Byte(n, "cr")
    BY <1>1 DEF L!FrameLine
  <2>3. \A i \in 1 .. Len(t) : FrameFollows(t, i) /\ DigitFollows(t, i) /\ FrameBefore(t, i)
    <3> SUFFICES ASSUME NEW i \in {1, 2, 3, 4}
                 PROVE  FrameFollows(t, i) /\ DigitFollows(t, i) /\ FrameBefore(t, i)
      BY <2>1
    <3> QED
      BY <2>1, <2>2 DEF FrameFollows, DigitFollows, FrameBefore, Begins
  <2> QED
    BY <2>1, <2>2, <2>3 DEF Whole, Begins
<1>2. ASSUME t \in {<<L!Noise>>, <<L!Ack>>, <<L!Nak>>}
      PROVE  t \in Seq(L!Bytes) /\ t # << >> /\ Len(t) \in Nat /\ Len(t) >= 1 /\ Whole(t) /\ Begins(t[1])
  <2>1. PICK b \in {L!Noise, L!Ack, L!Nak} : t = <<b>>
    BY <1>2
  <2>2. b.frame = L!NoFrame /\ b.kind \in {"noise", "cr", "bel"} /\ b \in L!Bytes
    BY DEF L!Noise, L!Ack, L!Nak
  <2>3. t \in Seq(L!Bytes) /\ Len(t) = 1 /\ t[1] = b /\ t # << >>
    BY <2>1, <2>2
  <2> QED
    BY <2>2, <2>3 DEF Whole, FrameFollows, DigitFollows, FrameBefore, Begins
<1>3. ASSUME t = L!Written
      PROVE  t \in Seq(L!Bytes) /\ t # << >> /\ Len(t) \in Nat /\ Len(t) >= 1 /\ Whole(t) /\ Begins(t[1])
  <2>1. t \in Seq(L!Bytes) /\ Len(t) = 2 /\ t # << >>
    BY <1>3 DEF L!Written
  <2>2. t[1] = L!Byte(L!NoFrame, "Z") /\ t[2] = L!Byte(L!NoFrame, "cr")
    BY <1>3 DEF L!Written
  <2>3. \A i \in 1 .. Len(t) : FrameFollows(t, i) /\ DigitFollows(t, i) /\ FrameBefore(t, i)
    <3> SUFFICES ASSUME NEW i \in {1, 2}
                 PROVE  FrameFollows(t, i) /\ DigitFollows(t, i) /\ FrameBefore(t, i)
      BY <2>1
    <3> QED
      BY <2>1, <2>2 DEF FrameFollows, DigitFollows, FrameBefore, Begins
  <2> QED
    BY <2>1, <2>2, <2>3 DEF Whole, Begins
<1> QED
  BY <1>1, <1>2, <1>3 DEF Arrivals

\* Another line at the end changes nothing.
LEMMA WholeConcat ==
  ASSUME NEW s \in Seq(L!Bytes), Whole(s), NEW t \in Arrivals
  PROVE  s \o t \in Seq(L!Bytes) /\ Whole(s \o t)
<1>1. /\ t \in Seq(L!Bytes) /\ Len(t) \in Nat /\ Len(t) >= 1 /\ Whole(t) /\ Begins(t[1])
      /\ Len(s) \in Nat
  BY ArrivalsAreWhole, LenProperties
<1>2. /\ s \o t \in Seq(L!Bytes) /\ Len(s \o t) = Len(s) + Len(t)
      /\ \A i \in 1 .. Len(s) + Len(t) :
           (s \o t)[i] = IF i <= Len(s) THEN s[i] ELSE t[i - Len(s)]
  BY <1>1, ConcatProperties
<1> DEFINE u == s \o t
<1>3. /\ Len(u) = Len(s) + Len(t)
      /\ \A i \in 1 .. Len(s) : u[i] = s[i]
      /\ \A i \in 1 .. Len(t) : u[Len(s) + i] = t[i]
  BY <1>1, <1>2
<1> HIDE DEF u
<1>4. ASSUME NEW i \in 1 .. Len(s)
      PROVE  FrameFollows(u, i) /\ DigitFollows(u, i) /\ FrameBefore(u, i)
  <2>1. FrameFollows(s, i) /\ DigitFollows(s, i) /\ FrameBefore(s, i)
    BY DEF Whole
  <2>2. u[i] = s[i] /\ (i > 1 => u[i - 1] = s[i - 1])
    BY <1>1, <1>3
  <2>3. \A k \in {1, 2, 3} : i + k <= Len(s) => u[i + k] = s[i + k] /\ i + k <= Len(u)
    BY <1>1, <1>3
  <2>4. FrameFollows(u, i)
    BY <1>1, <2>1, <2>2, <2>3 DEF FrameFollows
  <2>5. DigitFollows(u, i)
    BY <1>1, <2>1, <2>2, <2>3 DEF DigitFollows
  <2>6. FrameBefore(u, i)
    BY <2>1, <2>2 DEF FrameBefore
  <2> QED
    BY <2>4, <2>5, <2>6
<1>5. ASSUME NEW i \in 1 .. Len(t)
      PROVE  /\ FrameFollows(u, Len(s) + i) /\ DigitFollows(u, Len(s) + i)
             /\ FrameBefore(u, Len(s) + i)
  <2>1. FrameFollows(t, i) /\ DigitFollows(t, i) /\ FrameBefore(t, i)
    BY <1>1 DEF Whole
  <2>2. u[Len(s) + i] = t[i] /\ (i > 1 => u[Len(s) + i - 1] = t[i - 1])
    BY <1>1, <1>3
  <2>3. \A k \in {1, 2, 3} : i + k <= Len(t) => u[Len(s) + i + k] = t[i + k] /\ Len(s) + i + k <= Len(u)
    BY <1>1, <1>3
  <2>4. FrameFollows(u, Len(s) + i)
    BY <1>1, <2>1, <2>2, <2>3 DEF FrameFollows
  <2>5. DigitFollows(u, Len(s) + i)
    BY <1>1, <2>1, <2>2, <2>3 DEF DigitFollows
  <2>6. FrameBefore(u, Len(s) + i)
    BY <1>1, <2>1, <2>2 DEF FrameBefore
  <2> QED
    BY <2>4, <2>5, <2>6
<1>6. ASSUME NEW i \in 1 .. Len(u)
      PROVE  FrameFollows(u, i) /\ DigitFollows(u, i) /\ FrameBefore(u, i)
  <2>1. CASE i <= Len(s)
    BY <1>1, <1>4, <2>1
  <2>2. CASE i > Len(s)
    <3>1. i - Len(s) \in 1 .. Len(t) /\ Len(s) + (i - Len(s)) = i
      BY <1>1, <1>3, <2>2
    <3> QED
      BY <1>5, <3>1
  <2> QED
    BY <1>1, <2>1, <2>2
<1>7. Whole(u)
  BY <1>6 DEF Whole
<1> QED
  BY <1>2, <1>7 DEF u

\* Bytes may be taken away from the beginning.
LEMMA WholeDrop ==
  ASSUME NEW s \in Seq(L!Bytes), Whole(s), NEW t \in Seq(L!Bytes), NEW d \in Nat,
         Len(s) = d + Len(t), \A i \in 1 .. Len(t) : t[i] = s[d + i]
  PROVE  Whole(t)
<1>1. Len(t) \in Nat /\ Len(s) \in Nat
  BY LenProperties
<1>2. ASSUME NEW i \in 1 .. Len(t)
      PROVE  FrameFollows(t, i) /\ DigitFollows(t, i) /\ FrameBefore(t, i)
  <2>1. d + i \in 1 .. Len(s)
    BY <1>1
  <2>2. FrameFollows(s, d + i) /\ DigitFollows(s, d + i) /\ FrameBefore(s, d + i)
    BY <2>1 DEF Whole
  <2>3. t[i] = s[d + i] /\ (i > 1 => t[i - 1] = s[d + i - 1])
    BY <1>1
  <2>4. \A k \in {1, 2, 3} : i + k <= Len(t) => t[i + k] = s[d + i + k]
    BY <1>1
  <2>5. \A k \in {1, 2, 3} : d + i + k <= Len(s) => i + k <= Len(t)
    BY <1>1
  <2>6. FrameFollows(t, i)
    BY <1>1, <2>2, <2>3, <2>4, <2>5 DEF FrameFollows
  <2>7. DigitFollows(t, i)
    BY <1>1, <2>2, <2>3, <2>4, <2>5 DEF DigitFollows
  <2>8. FrameBefore(t, i)
    BY <1>1, <2>2, <2>3 DEF FrameBefore
  <2> QED
    BY <2>6, <2>7, <2>8
<1> QED
  BY <1>2 DEF Whole

\* The stream, byte by byte.
LEMMA StreamBytes ==
  ASSUME L!TypeOK
  PROVE  /\ Stream \in Seq(L!Bytes) /\ Len(Stream) = Len(line) + Len(wire)
         /\ Len(line) \in Nat /\ Len(wire) \in Nat
         /\ \A i \in 1 .. Len(line) : Stream[i] = line[i]
         /\ \A i \in 1 .. Len(wire) : Stream[Len(line) + i] = wire[i]
<1>1. line \in Seq(L!Bytes) /\ wire \in Seq(L!Bytes)
  BY DEF L!TypeOK
<1>2. Len(line) \in Nat /\ Len(wire) \in Nat
  BY <1>1, LenProperties
<1>3. /\ Stream \in Seq(L!Bytes) /\ Len(Stream) = Len(line) + Len(wire)
      /\ \A i \in 1 .. Len(line) + Len(wire) :
           Stream[i] = IF i <= Len(line) THEN line[i] ELSE wire[i - Len(line)]
  BY <1>1, ConcatProperties DEF Stream
<1> QED
  BY <1>2, <1>3

\* A line of the adapter arrives.
LEMMA Arrives ==
  ASSUME ReaderInv, NEW t \in Arrivals, wire' = wire \o t, UNCHANGED <<line, spoiled>>
  PROVE  wire' \in Seq(L!Bytes) /\ Whole(Stream') /\ FromTheStart'
<1>1. line \in Seq(L!Bytes) /\ wire \in Seq(L!Bytes) /\ Stream \in Seq(L!Bytes)
  BY StreamBytes DEF ReaderInv, L!TypeOK
<1>2. t \in Seq(L!Bytes) /\ t # << >> /\ Begins(t[1]) /\ Len(t) \in Nat /\ Len(t) >= 1
  BY ArrivalsAreWhole
<1>3. Stream' = Stream \o t
  <2>1. Stream' = line \o (wire \o t)
    BY DEF Stream
  <2>2. t \in Seq(L!Bytes)
    BY <1>2
  <2>3. (line \o wire) \o t = line \o (wire \o t)
    BY <1>1, <2>2, ConcatAssociative
  <2> QED
    BY <2>1, <2>3 DEF Stream
<1>4. wire' \in Seq(L!Bytes) /\ Whole(Stream')
  BY <1>1, <1>2, <1>3, WholeConcat, ConcatProperties DEF ReaderInv
<1>5. Begins(wire'[1]) \/ (wire # << >> /\ wire'[1] = wire[1])
  <2>1. CASE wire = << >>
    <3>1. << >> \o t = t
      BY <1>2, ConcatEmptySeq
    <3>2. wire' = t
      BY <2>1, <3>1
    <3>3. wire'[1] = t[1]
      BY <3>2
    <3>4. Begins(t[1])
      BY <1>2
    <3> QED
      BY <3>3, <3>4
  <2>2. CASE wire # << >>
    <3>1. Len(wire) \in Nat /\ Len(wire) >= 1
      BY <1>1, <2>2, EmptySeq
    <3>2. wire'[1] = wire[1]
      BY <1>1, <1>2, <3>1, ConcatProperties
    <3> QED
      BY <2>2, <3>2
  <2> QED
    BY <2>1, <2>2
<1>6. FromTheStart'
  BY <1>5 DEF ReaderInv, FromTheStart
<1> QED
  BY <1>4, <1>6

\* What was read of a line is forgotten.
LEMMA Forgotten ==
  ASSUME ReaderInv, line' = << >>, UNCHANGED wire
  PROVE  Whole(Stream')
<1>1. line \in Seq(L!Bytes) /\ wire \in Seq(L!Bytes) /\ Whole(Stream)
  BY DEF ReaderInv, L!TypeOK
<1>2. Stream' = wire
  BY <1>1, ConcatEmptySeq DEF Stream
<1> QED
  BY <1>1, <1>2, StreamBytes, WholeDrop DEF ReaderInv

\* The next byte is taken from the wire, and what was read before is forgotten.
LEMMA Taken ==
  ASSUME ReaderInv, wire # << >>, wire' = Tail(wire), line' = << >>
  PROVE  /\ wire' \in Seq(L!Bytes) /\ Whole(Stream')
         /\ Head(wire).kind = "cr" /\ wire' # << >> => Begins(wire'[1])
<1>1. /\ line \in Seq(L!Bytes) /\ wire \in Seq(L!Bytes) /\ Whole(Stream)
      /\ Stream \in Seq(L!Bytes) /\ Len(Stream) = Len(line) + Len(wire)
      /\ Len(line) \in Nat /\ Len(wire) \in Nat
      /\ \A i \in 1 .. Len(wire) : Stream[Len(line) + i] = wire[i]
  BY StreamBytes DEF ReaderInv, L!TypeOK
<1>2. /\ wire' \in Seq(L!Bytes) /\ Len(wire') = Len(wire) - 1 /\ Len(wire) >= 1
      /\ \A i \in 1 .. Len(wire') : wire'[i] = wire[i + 1]
  BY <1>1, HeadTailProperties, EmptySeq
<1>3. Head(wire) = wire[1] /\ Len(wire') \in Nat
  BY <1>1, <1>2
<1>4. Stream' = wire'
  BY <1>2, ConcatEmptySeq DEF Stream
<1>5. /\ Len(line) + 1 \in Nat /\ Len(Stream) = Len(line) + 1 + Len(wire')
      /\ \A i \in 1 .. Len(wire') : wire'[i] = Stream[Len(line) + 1 + i]
  BY <1>1, <1>2, <1>3
<1>6. Whole(wire')
  BY <1>1, <1>2, <1>5, WholeDrop
<1>7. ASSUME wire[1].kind = "cr", wire' # << >> PROVE Begins(wire'[1])
  <2>1. Len(wire') >= 1
    BY <1>2, <1>3, <1>7, EmptySeq
  <2>2. /\ Len(line) + 2 \in 1 .. Len(Stream) /\ Len(line) + 2 > 1
        /\ Stream[Len(line) + 2] = wire'[1] /\ Stream[Len(line) + 2 - 1] = wire[1]
    BY <1>1, <1>2, <2>1
  <2>3. FrameBefore(Stream, Len(line) + 2)
    BY <1>1, <2>2 DEF Whole
  <2> QED
    BY <1>7, <2>2, <2>3 DEF FrameBefore
<1> QED
  BY <1>2, <1>3, <1>4, <1>6, <1>7

\* A byte goes from the wire to the line.
LEMMA Moved ==
  ASSUME L!TypeOK, wire # << >>, wire' = Tail(wire), line' = Append(line, Head(wire))
  PROVE  Stream' = Stream /\ line' \in Seq(L!Bytes) /\ wire' \in Seq(L!Bytes)
<1>1. line \in Seq(L!Bytes) /\ wire \in Seq(L!Bytes)
  BY DEF L!TypeOK
<1>2. /\ Head(wire) \in L!Bytes /\ wire' \in Seq(L!Bytes) /\ Len(wire') = Len(wire) - 1
      /\ Head(wire) = wire[1] /\ Len(wire) \in Nat /\ Len(wire) >= 1 /\ Len(line) \in Nat
      /\ \A i \in 1 .. Len(wire') : wire'[i] = wire[i + 1]
  BY <1>1, HeadTailProperties, LenProperties, EmptySeq
<1>3. /\ line' \in Seq(L!Bytes) /\ Len(line') = Len(line) + 1
      /\ \A i \in 1 .. Len(line) : line'[i] = line[i]
      /\ line'[Len(line) + 1] = wire[1]
  BY <1>1, <1>2
<1>4. /\ Stream \in Seq(L!Bytes) /\ Len(Stream) = Len(line) + Len(wire)
      /\ \A i \in 1 .. Len(line) + Len(wire) :
           Stream[i] = IF i <= Len(line) THEN line[i] ELSE wire[i - Len(line)]
  BY <1>1, ConcatProperties DEF Stream
<1>5. /\ Stream' \in Seq(L!Bytes) /\ Len(Stream') = Len(line') + Len(wire')
      /\ \A i \in 1 .. Len(line') + Len(wire') :
           Stream'[i] = IF i <= Len(line') THEN line'[i] ELSE wire'[i - Len(line')]
  BY <1>2, <1>3, ConcatProperties DEF Stream
<1>6. Len(Stream') = Len(Stream) /\ \A i \in 1 .. Len(Stream') : Stream'[i] = Stream[i]
  <2>1. Len(Stream') = Len(Stream) /\ Len(Stream') = Len(line) + 1 + (Len(wire) - 1)
    BY <1>2, <1>3, <1>4, <1>5
  <2>2. ASSUME NEW i \in 1 .. Len(Stream') PROVE Stream'[i] = Stream[i]
    <3>1. CASE i <= Len(line)
      BY <1>2, <1>3, <1>4, <1>5, <3>1
    <3>2. CASE i = Len(line) + 1
      BY <1>2, <1>3, <1>4, <1>5, <3>2
    <3>3. CASE i > Len(line) + 1
      <4>1. Stream'[i] = wire'[i - (Len(line) + 1)] /\ Stream[i] = wire[i - Len(line)]
        BY <1>2, <1>3, <1>4, <1>5, <2>1, <3>3
      <4>2. i - (Len(line) + 1) \in 1 .. Len(wire') /\ i - (Len(line) + 1) + 1 = i - Len(line)
        BY <1>2, <2>1, <3>3
      <4> QED
        BY <1>2, <4>1, <4>2
    <3> QED
      BY <1>2, <3>1, <3>2, <3>3
  <2> QED
    BY <2>1, <2>2
<1> QED
  BY <1>2, <1>3, <1>4, <1>5, <1>6, SeqEqual

\* A line that began with the letter of a frame goes on with that frame.
LEMMA FrameOnTheLine ==
  ASSUME ReaderInv, wire # << >>, NEW n \in Frames, NEW k \in 1 .. 3,
         line = SubSeq(L!FrameLine(n), 1, k)
  PROVE  /\ Len(line) = k /\ \A i \in 1 .. k : line[i] = L!FrameLine(n)[i]
         /\ Head(wire) = L!FrameLine(n)[k + 1]
<1>1. L!FrameLine(n) \in Seq(L!Bytes) /\ Len(L!FrameLine(n)) = 4
  BY DEF L!FrameLine, L!Byte, L!Bytes
<1>2. Len(line) = k /\ \A i \in 1 .. k : line[i] = L!FrameLine(n)[i]
  <2>1. \A i \in 1 .. k : L!FrameLine(n)[i] \in L!Bytes
    BY <1>1, ElementOfSeq
  <2> QED
    BY <2>1, SubSeqProperties
<1>3. /\ Len(Stream) = k + Len(wire) /\ Len(wire) \in Nat /\ Len(wire) >= 1
      /\ Stream[1] = L!FrameLine(n)[1] /\ Stream[k + 1] = wire[1]
  <2>1. wire \in Seq(L!Bytes) /\ Len(wire) \in Nat /\ Len(wire) >= 1
    BY EmptySeq DEF ReaderInv, L!TypeOK
  <2> QED
    BY <1>2, <2>1, StreamBytes DEF ReaderInv
<1>4. FrameFollows(Stream, 1)
  BY <1>3 DEF ReaderInv, Whole
<1>5. Stream[1] = L!Byte(n, "t") /\ Stream[1].kind = "t" /\ Stream[1].frame = n
  BY <1>3 DEF L!FrameLine, L!Byte
<1>6. Stream[2] = L!Byte(n, "hex") /\ Stream[3] = L!Byte(n, "hex") /\ Stream[4] = L!Byte(n, "cr")
  BY <1>4, <1>5 DEF FrameFollows
<1>7. wire[1] = L!FrameLine(n)[k + 1]
  BY <1>3, <1>6 DEF L!FrameLine
<1> QED
  BY <1>2, <1>7

\* What the reader returns at the end of a frame is that frame.
LEMMA ParsedIsSent ==
  ASSUME ReaderInv, wire # << >>, NEW n \in Frames, Head(wire) = L!Byte(n, "cr"),
         L!ParseFrameLine(line) # << >>
  PROVE  L!ParseFrameLine(line) = SubSeq(L!FrameLine(n), 1, 3)
<1>1. /\ Len(line) >= 3 /\ line[1].kind = "t" /\ line[2].kind = "hex" /\ line[3].kind = "hex"
      /\ L!ParseFrameLine(line) = SubSeq(line, 1, 3)
  BY DEF L!ParseFrameLine
<1>2. /\ line \in Seq(L!Bytes) /\ Len(line) \in Nat /\ wire \in Seq(L!Bytes) /\ Len(wire) \in Nat
      /\ Len(Stream) = Len(line) + Len(wire)
      /\ \A i \in 1 .. Len(line) : Stream[i] = line[i]
      /\ \A i \in 1 .. Len(wire) : Stream[Len(line) + i] = wire[i]
  BY StreamBytes DEF ReaderInv, L!TypeOK
<1>3. Len(wire) >= 1 /\ wire[1] = L!Byte(n, "cr")
  BY <1>2, EmptySeq
<1>4. Stream[1] = line[1] /\ FrameFollows(Stream, 1)
  BY <1>1, <1>2, <1>3 DEF ReaderInv, Whole
<1> DEFINE m == line[1].frame
<1>5. /\ m \in Frames /\ Stream[2] = L!Byte(m, "hex") /\ Stream[3] = L!Byte(m, "hex")
      /\ Stream[4] = L!Byte(m, "cr")
  BY <1>1, <1>4 DEF FrameFollows
<1>6. Len(line) = 3
  <2>1. CASE Len(line) >= 4
    <3>1. line[4] = L!Byte(m, "cr")
      BY <1>2, <1>5, <2>1
    <3> QED
      BY <1>2, <2>1, <3>1 DEF ReaderInv, NotEnded, L!Byte
  <2> QED
    BY <1>1, <1>2, <2>1
<1>7. m = n
  <2>1. Stream[4] = wire[1]
    BY <1>2, <1>3, <1>6
  <2> QED
    BY <1>3, <1>5, <2>1 DEF L!Byte
<1>8. line[1] = L!Byte(n, "t") /\ line[2] = L!Byte(n, "hex") /\ line[3] = L!Byte(n, "hex")
  <2>1. line[1] \in L!Bytes
    BY <1>1, <1>2
  <2> QED
    BY <1>1, <1>2, <1>5, <1>6, <1>7, <2>1 DEF L!Bytes, L!Byte
<1>9. /\ SubSeq(line, 1, 3) \in Seq(L!Bytes) /\ Len(SubSeq(line, 1, 3)) = 3
      /\ \A i \in 1 .. 3 : SubSeq(line, 1, 3)[i] = line[i]
  <2>1. \A i \in 1 .. 3 : line[i] \in L!Bytes
    BY <1>2, <1>6, ElementOfSeq
  <2> QED
    BY <2>1, SubSeqProperties
<1>10. /\ SubSeq(L!FrameLine(n), 1, 3) \in Seq(L!Bytes) /\ Len(SubSeq(L!FrameLine(n), 1, 3)) = 3
       /\ \A i \in 1 .. 3 : SubSeq(L!FrameLine(n), 1, 3)[i] = L!FrameLine(n)[i]
  <2>1. \A i \in 1 .. 3 : L!FrameLine(n)[i] \in L!Bytes
    BY DEF L!FrameLine, L!Byte, L!Bytes
  <2> QED
    BY <2>1, SubSeqProperties
<1>11. \A i \in 1 .. 3 : line[i] = L!FrameLine(n)[i]
  BY <1>8 DEF L!FrameLine
<1>12. SubSeq(line, 1, 3) = SubSeq(L!FrameLine(n), 1, 3)
  BY <1>9, <1>10, <1>11, SeqEqual
<1> QED
  BY <1>1, <1>12

\* A line that is not spoiled is returned.
LEMMA CleanIsReturned ==
  ASSUME ReaderInv, wire # << >>, NEW n \in Frames, Head(wire) = L!Byte(n, "cr"), ~spoiled
  PROVE  /\ line # << >> /\ L!ParseFrameLine(line) # << >>
         /\ ~L!Panics(line)
<1>1. line # << >>
  BY DEF ReaderInv, FromTheStart, Begins, L!Byte
<1>2. PICK m \in Frames, k \in 1 .. 3 : line = SubSeq(L!FrameLine(m), 1, k)
  BY <1>1 DEF ReaderInv, FromTheStart
<1>3. /\ Len(line) = k /\ \A i \in 1 .. k : line[i] = L!FrameLine(m)[i]
      /\ Head(wire) = L!FrameLine(m)[k + 1]
  BY <1>2, FrameOnTheLine
<1>4. k = 3
  BY <1>3 DEF L!FrameLine, L!Byte
<1>5. /\ Len(line) = 3 /\ line[1] = L!Byte(m, "t")
      /\ line[2] = L!Byte(m, "hex") /\ line[3] = L!Byte(m, "hex")
  BY <1>3, <1>4 DEF L!FrameLine
<1>6. L!ParseFrameLine(line) = SubSeq(line, 1, 3)
  BY <1>5 DEF L!ParseFrameLine, L!Byte
<1>7. Len(SubSeq(line, 1, 3)) = 3
  BY <1>5
<1>8. \A i \in 1 .. Len(line) : line[i] # L!Noise
  BY <1>5 DEF L!Byte, L!Noise
<1> QED
  BY <1>1, <1>6, <1>7, <1>8 DEF L!Panics

-----------------------------------------------------------------------------
(* The serial line: every step.                                            *)

\* The property, of one step.
FindsBack ==
  \A n \in Frames :
    mode = "read" /\ wire # << >> /\ wire' = Tail(wire) /\ Head(wire) = L!Byte(n, "cr") =>
      /\ mode' = "handle" => frame' = SubSeq(L!FrameLine(n), 1, 3)
      /\ ~spoiled => mode' = "handle"

\* The opening sends three commands.
LEMMA CommandsOfTheOpening == Len(L!Commands) = 3
  BY DEF L!Commands

LEMMA ReaderInit == ASSUME L!Init PROVE ReaderInv
<1> USE DEF L!Init
<1>1. << >> \in Seq(L!Bytes) /\ Len(<< >>) = 0
  BY EmptySeq
<1>2. L!TypeOK
  <2>1. wire \in Seq(L!Bytes) /\ line \in Seq(L!Bytes) /\ frame \in Seq(L!Bytes)
    BY <1>1
  <2>2. Len(line) <= MaxLine
    BY <1>1, SerialAssumption DEF L!SlcanAssumption
  <2>3. command \in 1 .. Len(L!Commands)
    BY CommandsOfTheOpening
  <2>4. live \in BOOLEAN /\ spoiled \in BOOLEAN
    BY Zenon
  <2> QED
    BY <2>1, <2>2, <2>3, <2>4 DEF L!TypeOK
<1>3. Stream = << >>
  BY <1>1, ConcatEmptySeq DEF Stream
<1>4. Whole(Stream)
  BY <1>1, <1>3 DEF Whole
<1> QED
  BY <1>1, <1>2, <1>4 DEF ReaderInv, FromTheStart, NotEnded

\* What is left of a line when the port is opened.
LEMMA OpenInv == ASSUME ReaderInv, L!Open PROVE ReaderInv'
<1>1. /\ mode' = "command" /\ command' = 1 /\ line' = << >> /\ UNCHANGED <<live, frame>>
      /\ spoiled' = (Len(wire') \in 1 .. 3) /\ L!TypeOK
  BY DEF L!Open, ReaderInv
<1>2. wire' = << >> \/ \E n \in Frames : \E first \in 1 .. 4 : wire' = SubSeq(L!FrameLine(n), first, 4)
  BY DEF L!Open
<1>3. wire' \in Seq(L!Bytes) /\ Whole(wire') /\ (~spoiled' /\ wire' # << >> => Begins(wire'[1]))
  <2>1. CASE wire' = << >>
    <3>1. wire' \in Seq(L!Bytes) /\ Len(wire') = 0
      BY <2>1, EmptySeq
    <3> QED
      BY <2>1, <3>1 DEF Whole
  <2>2. CASE wire' # << >>
    <3>1. PICK n \in Frames, first \in 1 .. 4 : wire' = SubSeq(L!FrameLine(n), first, 4)
      BY <1>2, <2>2
    <3>2. /\ L!FrameLine(n) \in Seq(L!Bytes) /\ Len(L!FrameLine(n)) = 4 /\ Whole(L!FrameLine(n))
          /\ Begins(L!FrameLine(n)[1])
      BY ArrivalsAreWhole DEF L!FrameLine, Arrivals
    <3>3. \A i \in first .. 4 : L!FrameLine(n)[i] \in L!Bytes
      <4>1. \A i \in 1 .. Len(L!FrameLine(n)) : L!FrameLine(n)[i] \in L!Bytes
        BY <3>2, ElementOfSeq
      <4>2. \A i \in first .. 4 : i \in 1 .. Len(L!FrameLine(n))
        BY <3>2
      <4> QED
        BY <4>1, <4>2
    <3>4. /\ wire' \in Seq(L!Bytes) /\ Len(wire') = 5 - first
          /\ \A i \in 1 .. 5 - first : wire'[i] = L!FrameLine(n)[first + i - 1]
      BY <3>1, <3>3, SubSeqProperties
    <3>5. /\ first - 1 \in Nat /\ Len(L!FrameLine(n)) = (first - 1) + Len(wire')
          /\ \A i \in 1 .. Len(wire') : wire'[i] = L!FrameLine(n)[(first - 1) + i]
      BY <3>2, <3>4
    <3>6. Whole(wire')
      BY <3>2, <3>4, <3>5, WholeDrop
    <3>7. ~spoiled' => Begins(wire'[1])
      <4>1. CASE first = 1
        <5>1. wire'[1] = L!FrameLine(n)[1]
          BY <3>4, <4>1
        <5> QED
          BY <3>2, <5>1
      <4>2. CASE first # 1
        <5>1. Len(wire') \in 1 .. 3
          BY <3>4, <4>2
        <5> QED
          BY <1>1, <5>1
      <4> QED
        BY <4>1, <4>2
    <3> QED
      BY <3>4, <3>6, <3>7
  <2> QED
    BY <2>1, <2>2
<1>4. Stream' = wire'
  BY <1>1, <1>3, ConcatEmptySeq DEF Stream
<1>5. line' \in Seq(L!Bytes) /\ Len(line') = 0
  BY <1>1, EmptySeq
<1>6. L!TypeOK'
  BY <1>1, <1>3, <1>5, SerialAssumption, CommandsOfTheOpening DEF L!TypeOK, L!SlcanAssumption
<1>7. Whole(Stream')
  BY <1>3, <1>4
<1> QED
  BY <1>1, <1>3, <1>5, <1>6, <1>7 DEF ReaderInv, FromTheStart, NotEnded

\* A byte of a line that is not at its end.
LEMMA InLineInv ==
  ASSUME ReaderInv, L!ReadByte, Head(wire).kind # "cr"
  PROVE  ReaderInv'
<1>1. /\ mode = "read" /\ wire # << >> /\ wire' = Tail(wire)
      /\ line' = IF Len(line) >= MaxLine THEN << >> ELSE Append(line, Head(wire))
      /\ spoiled' = (spoiled \/ Head(wire).frame = L!NoFrame)
      /\ UNCHANGED <<mode, command, live, frame>> /\ L!TypeOK /\ Whole(Stream)
      /\ FromTheStart /\ NotEnded
  BY DEF L!ReadByte, ReaderInv
<1>2. /\ line \in Seq(L!Bytes) /\ wire \in Seq(L!Bytes) /\ Len(line) \in Nat /\ Len(line) <= MaxLine
      /\ Head(wire) \in L!Bytes /\ Head(wire) = wire[1]
  BY <1>1, HeadTailProperties, LenProperties DEF L!TypeOK
<1>3. ASSUME ~spoiled, NEW n \in Frames, NEW k \in 1 .. 3, line = SubSeq(L!FrameLine(n), 1, k)
      PROVE  k < 3 /\ Len(line) = k /\ Head(wire) = L!Byte(n, "hex") /\ L!FrameLine(n)[k + 1] = L!Byte(n, "hex")
             /\ \A i \in 1 .. k : line[i] = L!FrameLine(n)[i]
  <2>1. /\ Len(line) = k /\ \A i \in 1 .. k : line[i] = L!FrameLine(n)[i]
        /\ Head(wire) = L!FrameLine(n)[k + 1]
    BY <1>1, <1>3, FrameOnTheLine
  <2>2. k # 3
    BY <2>1 DEF L!FrameLine, L!Byte
  <2> QED
    BY <2>1, <2>2 DEF L!FrameLine
<1>4. CASE Len(line) >= MaxLine
  <2>1. line' = << >> /\ Len(line) >= 3
    BY <1>1, <1>2, <1>4, SerialAssumption DEF L!SlcanAssumption
  <2>2. wire' \in Seq(L!Bytes) /\ Whole(Stream')
    BY <1>1, <2>1, Taken
  <2>3. line # << >>
    BY <2>1
  <2>4. spoiled
    <3> SUFFICES ASSUME ~spoiled PROVE FALSE
      OBVIOUS
    <3>1. PICK n \in Frames, k \in 1 .. 3 : line = SubSeq(L!FrameLine(n), 1, k)
      BY <1>1, <2>3 DEF FromTheStart
    <3>2. k < 3 /\ Len(line) = k
      BY <1>3, <3>1
    <3> QED
      BY <2>1, <3>2
  <2>5. line' \in Seq(L!Bytes) /\ Len(line') = 0 /\ spoiled' = TRUE
    BY <1>1, <2>1, <2>4, EmptySeq
  <2>6. L!TypeOK'
    BY <1>1, <2>2, <2>5, SerialAssumption DEF L!TypeOK, L!SlcanAssumption
  <2>7. FromTheStart' /\ NotEnded'
    BY <2>1, <2>5 DEF FromTheStart, NotEnded
  <2> QED
    BY <2>2, <2>6, <2>7 DEF ReaderInv
<1>5. CASE Len(line) < MaxLine
  <2>1. line' = Append(line, Head(wire))
    BY <1>1, <1>2, <1>5, SerialAssumption DEF L!SlcanAssumption
  <2>2. Stream' = Stream /\ line' \in Seq(L!Bytes) /\ wire' \in Seq(L!Bytes)
    BY <1>1, <2>1, Moved
  <2>3. /\ Len(line') = Len(line) + 1 /\ line'[Len(line) + 1] = Head(wire)
        /\ \A i \in 1 .. Len(line) : line'[i] = line[i]
    BY <1>2, <2>1
  <2>4. L!TypeOK'
    BY <1>1, <1>2, <1>5, <2>2, <2>3, SerialAssumption DEF L!TypeOK, L!SlcanAssumption
  <2>5. NotEnded'
    <3>1. \A i \in 1 .. Len(line) : line[i].kind # "cr"
      BY <1>1 DEF NotEnded
    <3>2. ASSUME NEW i \in 1 .. Len(line') PROVE line'[i].kind # "cr"
      <4>1. CASE i <= Len(line)
        BY <1>2, <2>3, <3>1, <4>1
      <4>2. CASE i = Len(line) + 1
        BY <2>3, <4>2
      <4> QED
        BY <1>2, <2>3, <4>1, <4>2
    <3> QED
      BY <1>1, <3>2 DEF NotEnded
  <2>6. FromTheStart'
    <3> SUFFICES ASSUME ~spoiled' PROVE \E n \in Frames : \E k \in 1 .. 3 : line' = SubSeq(L!FrameLine(n), 1, k)
      BY DEF FromTheStart
    <3>1. ~spoiled /\ Head(wire).frame # L!NoFrame
      BY <1>1
    <3>2. \E n \in Frames : \E k \in 1 .. 3 :
            Len(line') = k /\ \A i \in 1 .. k : line'[i] = L!FrameLine(n)[i]
      <4>1. CASE line = << >>
        <5>1. Begins(wire[1])
          BY <1>1, <3>1, <4>1 DEF FromTheStart, L!FrameLine
        <5>2. Head(wire).frame \in Frames /\ Head(wire).kind = "t"
          BY <1>2, <3>1, <5>1 DEF Begins, L!Bytes
        <5>3. Head(wire) = L!FrameLine(Head(wire).frame)[1]
          BY <1>2, <5>2 DEF L!FrameLine, L!Byte, L!Bytes
        <5>4. Len(line) = 0
          BY <4>1
        <5>5. Len(line') = 1 /\ line'[1] = Head(wire)
          BY <2>3, <5>4
        <5>6. \A i \in 1 .. 1 : line'[i] = L!FrameLine(Head(wire).frame)[i]
          BY <5>3, <5>5
        <5> QED
          BY <5>2, <5>5, <5>6
      <4>2. CASE line # << >>
        <5>1. PICK n \in Frames, k \in 1 .. 3 : line = SubSeq(L!FrameLine(n), 1, k)
          BY <1>1, <3>1, <4>2 DEF FromTheStart
        <5>2. /\ k < 3 /\ Len(line) = k /\ Head(wire) = L!FrameLine(n)[k + 1]
              /\ \A i \in 1 .. k : line[i] = L!FrameLine(n)[i]
          BY <1>3, <3>1, <5>1
        <5>3. k + 1 \in 1 .. 3 /\ Len(line') = k + 1
          BY <2>3, <5>2
        <5>4. \A i \in 1 .. k + 1 : line'[i] = L!FrameLine(n)[i]
          BY <2>3, <5>2
        <5> QED
          BY <5>3, <5>4
      <4> QED
        BY <4>1, <4>2
    <3>3. PICK n \in Frames, k \in 1 .. 3 :
            Len(line') = k /\ \A i \in 1 .. k : line'[i] = L!FrameLine(n)[i]
      BY <3>2
    <3>4. /\ SubSeq(L!FrameLine(n), 1, k) \in Seq(L!Bytes) /\ Len(SubSeq(L!FrameLine(n), 1, k)) = k
          /\ \A i \in 1 .. k : SubSeq(L!FrameLine(n), 1, k)[i] = L!FrameLine(n)[i]
      <4>1. \A i \in 1 .. k : L!FrameLine(n)[i] \in L!Bytes
        BY DEF L!FrameLine, L!Byte, L!Bytes
      <4> QED
        BY <4>1, SubSeqProperties
    <3>5. line' = SubSeq(L!FrameLine(n), 1, k)
      BY <2>2, <3>3, <3>4, SeqEqual
    <3> QED
      BY <3>5
  <2>7. Whole(Stream')
    BY <1>1, <2>2
  <2> QED
    BY <2>4, <2>5, <2>6, <2>7 DEF ReaderInv
<1> QED
  BY <1>2, <1>4, <1>5, SerialAssumption DEF L!SlcanAssumption

\* The end of a line.
LEMMA LineEndInv ==
  ASSUME ReaderInv, L!ReadByte, Head(wire).kind = "cr"
  PROVE  ReaderInv' /\ FindsBack
<1>1. /\ mode = "read" /\ wire # << >> /\ wire' = Tail(wire) /\ line' = << >> /\ spoiled' = FALSE
      /\ UNCHANGED <<command, live>> /\ L!TypeOK
      /\ \/ /\ line = << >> \/ L!ParseFrameLine(line) = << >>
            /\ UNCHANGED <<mode, frame>>
         \/ /\ line # << >> /\ L!ParseFrameLine(line) # << >>
            /\ mode' = "handle" /\ frame' = L!ParseFrameLine(line)
         \/ L!Panics(line) /\ mode' = "closed" /\ UNCHANGED frame
  BY DEF L!ReadByte, ReaderInv
<1>2. /\ wire' \in Seq(L!Bytes) /\ Whole(Stream') /\ (wire' # << >> => Begins(wire'[1]))
  BY <1>1, Taken
<1>3. line' \in Seq(L!Bytes) /\ Len(line') = 0
  BY <1>1, EmptySeq
<1>4. L!ParseFrameLine(line) \in Seq(L!Bytes)
  <2>1. line \in Seq(L!Bytes) /\ Len(line) \in Nat
    BY <1>1, LenProperties DEF L!TypeOK
  <2>2. CASE Len(line) >= 3
    <3>1. \A i \in 1 .. 3 : line[i] \in L!Bytes
      BY <2>1, <2>2, ElementOfSeq
    <3>2. SubSeq(line, 1, 3) \in Seq(L!Bytes)
      BY <3>1, SubSeqProperties
    <3> QED
      BY <1>3, <1>1, <3>2 DEF L!ParseFrameLine
  <2>3. CASE ~(Len(line) >= 3)
    BY <1>1, <1>3, <2>3 DEF L!ParseFrameLine
  <2> QED
    BY <2>2, <2>3
<1>5. frame' \in Seq(L!Bytes) /\ mode' \in {"read", "handle", "closed"}
  BY <1>1, <1>4 DEF L!TypeOK
<1>6. L!TypeOK'
  <2>1. spoiled' \in BOOLEAN /\ live' \in BOOLEAN /\ command' \in 1 .. Len(L!Commands)
    BY <1>1, Zenon DEF L!TypeOK
  <2>2. Len(line') <= MaxLine
    BY <1>3, SerialAssumption DEF L!SlcanAssumption
  <2> QED
    BY <1>2, <1>3, <1>5, <2>1, <2>2 DEF L!TypeOK
<1>7. FromTheStart' /\ NotEnded'
  BY <1>1, <1>2, <1>3, <1>5 DEF FromTheStart, NotEnded
<1>8. FindsBack
  <2> SUFFICES ASSUME NEW n \in Frames, Head(wire) = L!Byte(n, "cr")
               PROVE  /\ mode' = "handle" => frame' = SubSeq(L!FrameLine(n), 1, 3)
                      /\ ~spoiled => mode' = "handle"
    BY DEF FindsBack
  <2>1. mode' = "handle" => L!ParseFrameLine(line) # << >> /\ frame' = L!ParseFrameLine(line)
    BY <1>1
  <2>2. ~spoiled => mode' = "handle"
    BY <1>1, CleanIsReturned
  <2> QED
    BY <1>1, <2>1, <2>2, ParsedIsSent
<1> QED
  BY <1>2, <1>6, <1>7, <1>8 DEF ReaderInv

\* The variables Arrives says nothing of.
LEMMA ArrivesInv ==
  ASSUME ReaderInv, NEW t \in Arrivals, wire' = wire \o t, UNCHANGED <<line, spoiled, frame>>,
         mode' \in {"read", mode, "answer"}, mode' \in {"command", "answer", "handle"} => line = << >>,
         command' = command, live' \in BOOLEAN
  PROVE  ReaderInv'
<1>1. wire' \in Seq(L!Bytes) /\ Whole(Stream') /\ FromTheStart'
  BY Arrives
<1>2. L!TypeOK'
  BY <1>1 DEF ReaderInv, L!TypeOK
<1>3. NotEnded'
  BY DEF ReaderInv, NotEnded
<1> QED
  BY <1>1, <1>2, <1>3 DEF ReaderInv

\* Nothing arrives and nothing is read.
LEMMA QuietInv ==
  ASSUME ReaderInv, UNCHANGED <<wire, line, spoiled, frame>>,
         mode' \in {"closed", "command", "answer", "read"},
         mode' \in {"command", "answer"} => line = << >>,
         command' \in 1 .. Len(L!Commands), live' \in BOOLEAN
  PROVE  ReaderInv'
<1>1. L!TypeOK'
  BY DEF ReaderInv, L!TypeOK
<1>2. Stream' = Stream
  BY DEF Stream
<1>3. Whole(Stream') /\ FromTheStart'
  BY <1>2 DEF ReaderInv, FromTheStart
<1>4. NotEnded'
  BY DEF ReaderInv, NotEnded
<1> QED
  BY <1>1, <1>3, <1>4 DEF ReaderInv

\* An answer to the opening is read, or not.
LEMMA AnswerInv == ASSUME ReaderInv, L!ReadAnswer PROVE ReaderInv'
<1>1. /\ mode = "answer" /\ L!Answered /\ UNCHANGED <<live, line, frame>>
      /\ \/ UNCHANGED <<wire, spoiled>>
         \/ wire # << >> /\ wire' = Tail(wire) /\ spoiled' = (Head(wire).kind # "cr")
      /\ L!TypeOK /\ line = << >>
  BY DEF L!ReadAnswer, ReaderInv, NotEnded
<1>2. /\ mode' \in {"read", "command"} /\ command' \in 1 .. Len(L!Commands)
  BY <1>1, CommandsOfTheOpening DEF L!Answered, L!TypeOK
<1>3. CASE UNCHANGED <<wire, spoiled>>
  BY <1>1, <1>2, <1>3, QuietInv DEF L!TypeOK
<1>4. CASE wire # << >> /\ wire' = Tail(wire) /\ spoiled' = (Head(wire).kind # "cr")
  <2>1. /\ wire' \in Seq(L!Bytes) /\ Whole(Stream')
        /\ (Head(wire).kind = "cr" /\ wire' # << >> => Begins(wire'[1]))
    BY <1>1, <1>4, Taken
  <2>2. spoiled' \in BOOLEAN /\ (~spoiled' => Head(wire).kind = "cr")
    BY <1>4
  <2>3. L!TypeOK'
    BY <1>1, <1>2, <2>1, <2>2 DEF L!TypeOK
  <2>4. FromTheStart'
    BY <1>1, <2>1, <2>2 DEF FromTheStart
  <2>5. NotEnded'
    BY <1>1 DEF NotEnded, ReaderInv
  <2> QED
    BY <2>1, <2>3, <2>4, <2>5 DEF ReaderInv
<1> QED
  BY <1>1, <1>3, <1>4

\* Every step of the reader, of the adapter and of the world.
LEMMA ReaderStep ==
  ASSUME ReaderInv, [L!Next]_(L!slcanVars)
  PROVE  ReaderInv' /\ [FindsBack]_(L!slcanVars)
<1>1. /\ line \in Seq(L!Bytes) /\ wire \in Seq(L!Bytes) /\ L!TypeOK /\ NotEnded
      /\ {L!Noise, L!Ack, L!Nak} \subseteq L!Bytes /\ command \in 1 .. Len(L!Commands)
      /\ live \in BOOLEAN
  BY DEF ReaderInv, L!TypeOK, L!Noise, L!Ack, L!Nak, L!Byte, L!Bytes
<1>2. /\ Append(wire, L!Noise) = wire \o <<L!Noise>> /\ <<L!Noise>> \in Arrivals
      /\ Append(wire, L!Ack) = wire \o <<L!Ack>> /\ <<L!Ack>> \in Arrivals
      /\ Append(wire, L!Nak) = wire \o <<L!Nak>> /\ <<L!Nak>> \in Arrivals
      /\ L!Written \in Arrivals
  BY <1>1, AppendIsConcat DEF Arrivals
<1>3. ASSUME ~(mode = "read" /\ wire # << >> /\ wire' = Tail(wire)) PROVE FindsBack
  BY <1>3 DEF FindsBack
<1>4. Len(wire) \in Nat /\ (wire # << >> => Len(Tail(wire)) = Len(wire) - 1)
  BY <1>1, LenProperties, HeadTailProperties
<1>5. \A t \in Arrivals : Len(wire \o t) > Len(wire)
  BY <1>1, <1>4, ArrivalsAreWhole, ConcatProperties
<1>6. ASSUME NEW t \in Arrivals, wire' = wire \o t PROVE FindsBack
  BY <1>3, <1>4, <1>5, <1>6
<1>7. ASSUME UNCHANGED wire PROVE FindsBack
  BY <1>3, <1>4, <1>7
<1>8. CASE L!Forward
  <2>1. PICK n \in Frames : wire' = wire \o L!FrameLine(n)
    BY <1>8 DEF L!Forward
  <2>2. L!FrameLine(n) \in Arrivals
    BY DEF Arrivals
  <2>3. UNCHANGED <<mode, command, live, line, frame, spoiled>>
    BY <1>8 DEF L!Forward
  <2> QED
    BY <1>1, <1>6, <2>1, <2>2, <2>3, ArrivesInv DEF NotEnded
<1>9. CASE L!Babble
  BY <1>1, <1>2, <1>6, <1>9, ArrivesInv DEF L!Babble, NotEnded
<1>10. CASE L!Open
  <2>1. FindsBack
    BY <1>3, <1>10 DEF L!Open
  <2> QED
    BY <1>10, <2>1, OpenInv
<1>11. CASE L!SendCommand
  <2>1. /\ mode = "command" /\ mode' = "answer" /\ UNCHANGED <<command, line, frame, spoiled>>
        /\ wire' \in {wire, Append(wire, L!Ack), Append(wire, L!Nak)} /\ live' \in BOOLEAN
        /\ line = << >>
    <3>1. /\ mode = "command" /\ mode' = "answer" /\ UNCHANGED <<command, line, frame, spoiled>>
          /\ line = << >> /\ L!Answer(L!Commands[command])
      BY <1>1, <1>11 DEF L!SendCommand, NotEnded
    <3>2. L!Commands[command] \in {"C", "S", "O"}
      BY <1>1, CommandsOfTheOpening DEF L!Commands
    <3>3. \A name \in {"C", "S", "O"} : L!Effect(name) \in BOOLEAN
      <4>1. L!Effect("C") = FALSE /\ L!Effect("S") = live /\ L!Effect("O") = TRUE
        BY DEF L!Effect
      <4> QED
        BY <1>1, <4>1
    <3>4. live' \in BOOLEAN
      BY <1>1, <3>1, <3>2, <3>3 DEF L!Answer
    <3>5. wire' \in {wire, Append(wire, L!Ack), Append(wire, L!Nak)}
      BY <3>1 DEF L!Answer
    <3> QED
      BY <3>1, <3>4, <3>5
  <2>2. FindsBack
    BY <1>3, <2>1
  <2>3. CASE wire' = wire
    BY <1>1, <2>1, <2>2, <2>3, QuietInv
  <2>4. CASE wire' = Append(wire, L!Ack)
    BY <1>2, <2>1, <2>2, <2>4, ArrivesInv
  <2>5. CASE wire' = Append(wire, L!Nak)
    BY <1>2, <2>1, <2>2, <2>5, ArrivesInv
  <2> QED
    BY <2>1, <2>3, <2>4, <2>5
<1>12. CASE L!ReadAnswer
  <2>1. FindsBack
    BY <1>3, <1>12 DEF L!ReadAnswer
  <2> QED
    BY <1>12, <2>1, AnswerInv
<1>13. CASE L!ReadByte
  <2>1. CASE Head(wire).kind = "cr"
    BY <1>13, <2>1, LineEndInv
  <2>2. CASE Head(wire).kind # "cr"
    <3>1. FindsBack
      BY <2>2 DEF FindsBack, L!Byte
    <3> QED
      BY <1>13, <2>2, <3>1, InLineInv
  <2> QED
    BY <2>1, <2>2
<1>14. CASE L!Timeout
  <2>1. /\ mode = "read" /\ line' = << >> /\ spoiled' = (spoiled \/ line # << >>)
        /\ UNCHANGED <<mode, command, live, wire, frame>>
    BY <1>14 DEF L!Timeout
  <2>2. Whole(Stream')
    BY <2>1, Forgotten
  <2>3. line' \in Seq(L!Bytes) /\ Len(line') = 0
    BY <2>1, EmptySeq
  <2>4. L!TypeOK'
    BY <1>1, <2>1, <2>3, SerialAssumption DEF L!TypeOK, L!SlcanAssumption
  <2>5. FromTheStart'
    <3>1. ~spoiled' => ~spoiled /\ line = << >>
      BY <2>1
    <3>2. ~spoiled' => (wire # << >> => Begins(wire[1]))
      BY <3>1 DEF ReaderInv, FromTheStart
    <3> QED
      BY <2>1, <3>2 DEF FromTheStart
  <2>6. NotEnded'
    BY <2>1, <2>3 DEF NotEnded
  <2>7. FindsBack
    BY <1>7, <2>1
  <2> QED
    BY <2>2, <2>4, <2>5, <2>6, <2>7 DEF ReaderInv
<1>15. CASE L!Handle
  <2>1. /\ mode = "handle" /\ mode' = "read" /\ UNCHANGED <<command, live, line, frame, spoiled>>
        /\ wire' \in {wire, wire \o L!Written, Append(wire, L!Nak)}
    BY <1>15 DEF L!Handle
  <2>2. FindsBack
    BY <1>3, <2>1
  <2>3. CASE wire' = wire
    BY <1>1, <2>1, <2>2, <2>3, QuietInv
  <2>4. CASE wire' = wire \o L!Written
    BY <1>1, <1>2, <2>1, <2>2, <2>4, ArrivesInv
  <2>5. CASE wire' = Append(wire, L!Nak)
    BY <1>1, <1>2, <2>1, <2>2, <2>5, ArrivesInv
  <2> QED
    BY <2>1, <2>3, <2>4, <2>5
<1>16. CASE L!Break
  <2>1. FindsBack
    BY <1>7, <1>16 DEF L!Break
  <2> QED
    BY <1>1, <1>16, <2>1, QuietInv DEF L!Break
<1>17. CASE UNCHANGED L!slcanVars
  <2>1. UNCHANGED <<mode, command, live, wire, line, frame, spoiled>>
    BY <1>17 DEF L!slcanVars
  <2>2. Stream' = Stream
    BY <2>1 DEF Stream
  <2> QED
    BY <1>17, <2>1, <2>2 DEF ReaderInv, L!TypeOK, FromTheStart, NotEnded
<1> QED
  BY <1>8, <1>9, <1>10, <1>11, <1>12, <1>13, <1>14, <1>15, <1>16, <1>17 DEF L!Next

-----------------------------------------------------------------------------
(* The theorems of the serial line.                                        *)

\* The reader keeps its invariant.
LEMMA ReaderInvariant == L!Spec => []ReaderInv
<1>1. L!Init => ReaderInv
  BY ReaderInit
<1>2. ReaderInv /\ [L!Next]_(L!slcanVars) => ReaderInv'
  BY ReaderStep
<1> QED
  BY <1>1, <1>2, PTL DEF L!Spec

\* Wherever it began to read and whatever it gave up, ate or was sent: at the end
\* of a frame the reader returns that frame or nothing, and nothing only when the
\* line itself was hit.
THEOREM ReaderComesBack == L!Spec => L!ReaderFindsBack
<1>1. ReaderInv /\ [L!Next]_(L!slcanVars) => [FindsBack]_(L!slcanVars)
  BY ReaderStep
<1>2. L!Spec => [][FindsBack]_(L!slcanVars)
  BY <1>1, ReaderInvariant, PTL DEF L!Spec
<1> QED
  BY <1>2 DEF L!ReaderFindsBack, FindsBack

-----------------------------------------------------------------------------
(* The buses together.                                                     *)

\* A step of one is no step of the others.
LEMMA StepOfOne ==
  ASSUME [BusesNext]_busesVars
  PROVE  /\ [Next]_vars /\ [OneWireNext]_oneWireVars /\ [CanNext]_canVars
         /\ [L!Next]_(L!slcanVars)
<1>1. UNCHANGED serial => UNCHANGED L!slcanVars
  BY DEF serial, L!slcanVars
<1>2. CASE which = "ds100" /\ Next /\ UNCHANGED <<oneWireVars, canVars, serial, which>>
  BY <1>1, <1>2
<1>3. CASE which = "onewire" /\ OneWireNext /\ UNCHANGED <<vars, canVars, serial, which>>
  BY <1>1, <1>3
<1>4. CASE which = "can" /\ CanNext /\ UNCHANGED <<vars, oneWireVars, serial, which>>
  BY <1>1, <1>4
<1>5. CASE which = "slcan" /\ L!Next /\ UNCHANGED <<vars, oneWireVars, canVars, which>>
  BY <1>5
<1>6. CASE UNCHANGED busesVars
  BY <1>1, <1>6 DEF busesVars
<1> QED
  BY <1>2, <1>3, <1>4, <1>5, <1>6 DEF BusesNext

\* Put together, the buses do what each of them does alone: what holds of one of
\* the components holds of it in the whole.
THEOREM EachBusIsItself == BusesSpec => Spec /\ OneWireSpec /\ CanSpec /\ L!Spec
<1>1. BusesInit => Init /\ OneWireInit /\ CanInit /\ L!Init
  BY DEF BusesInit
<1>2. [BusesNext]_busesVars =>
        [Next]_vars /\ [OneWireNext]_oneWireVars /\ [CanNext]_canVars /\ [L!Next]_(L!slcanVars)
  BY StepOfOne
<1> QED
  BY <1>1, <1>2, PTL DEF BusesSpec, Spec, OneWireSpec, CanSpec, L!Spec

\* Every variable of every component keeps its type.
THEOREM BusesTypeCorrect == BusesSpec => []BusesTypeOK
<1>1. SearchInv /\ PollerInv /\ IInv /\ ReaderInv => BusesTypeOK
  BY DEF SearchInv, PollerInv, IInv, ReaderInv, BusesTypeOK
<1> QED
  BY <1>1, EachBusIsItself, SearchInvariant, PollerInvariant, Invariance, ReaderInvariant, PTL

\* The buses together, seen from the serial line.
THEOREM ReaderComesBackAmongBuses == BusesSpec => ReaderFindsBack
<1>1. BusesSpec => L!ReaderFindsBack
  BY EachBusIsItself, ReaderComesBack, PTL
<1> QED
  BY <1>1 DEF ReaderFindsBack
=============================================================================
