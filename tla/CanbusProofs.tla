---------------------------- MODULE CanbusProofs ----------------------------
(***************************************************************************)
(* The limiter of the SOREL's pump, for every allowance, window and frame  *)
(* interval: off frames belong to a window, a window to a full allowance,  *)
(* and a pump that obeys runs no longer than its allowance and a slack.    *)
(* The argument relates the limiter's three times (pump_on, off_left and   *)
(* tx_age) to those an observer would measure (run, watched, window_age).  *)
(***************************************************************************)
EXTENDS Canbus, TLAPS

\* A window is open: it began OffSecs - off_left ago and nobody disabled it.
WindowOpen ==
  off_left # Unset =>
    /\ enabled /\ ~aborted
    /\ IF off_left > 0 THEN window_age + off_left = OffSecs ELSE window_age >= OffSecs

\* No window is open: the last one went to its end, unless it was aborted, and
\* what the limiter has seen of the pump came after it, as after the last frame.
WindowShut ==
  off_left = Unset =>
    /\ ~aborted => window_age >= OffSecs
    /\ pump_on # Unset =>
         /\ ~aborted => window_age >= OffSecs + pump_on
         /\ tx_age >= pump_on \/ tx_age = TxInterval

\* Somebody watches a SOREL that obeys.
Watching == tame /\ link = "up"

\* The limiter counts the pump only while it is on; a pump that was switched off
\* since is about to be reported.
CountsThePump ==
  /\ run > 0 => pump
  /\ Watching /\ pump_on # Unset => IF pump THEN run >= pump_on ELSE ~told

\* The pump has been on, or the limiter there, for at most `time`.
Within(time) == run <= time \/ watched <= time
\* How far the pump can be ahead of the limiter: in a window, after a window
\* that has just ended, and while the limiter counts.
PumpInSight ==
  Watching =>
    /\ off_left # Unset => run <= tx_age /\ (told => off_left > 0 /\ tx_age < TxInterval)
    /\ off_left = Unset /\ enabled /\ pump_on = Unset =>
         IF told THEN Within(TxInterval) ELSE Within(Slack)
    /\ off_left = Unset /\ enabled /\ pump_on # Unset =>
         /\ Within(pump_on + Slack)
         /\ pump_on <= max_on /\ (told => pump_on < max_on)

IInv == CanTypeOK /\ WindowOpen /\ WindowShut /\ CountsThePump /\ PumpInSight

-----------------------------------------------------------------------------
(* The constants.                                                          *)

\* Longest is the largest of the allowances, and no allowance is shorter than
\* the time between two frames.
LEMMA Times ==
  /\ Longest \in Nat /\ OffSecs \in Nat \ {0} /\ TxInterval \in Nat \ {0}
  /\ \A max \in Allowances :
       max \in Nat /\ 0 < max /\ max <= Longest /\ TxInterval <= max
  /\ Forever = OffSecs + Longest /\ Forever \in Nat
  /\ Slack = TxInterval + 1 /\ Slack \in Nat
  /\ Unset \notin Int
<1>1. \E max \in Allowances : \A other \in Allowances : other <= max
  BY CanbusAssumption
<1>2. Longest \in Allowances /\ \A other \in Allowances : other <= Longest
  BY <1>1 DEF Longest
<1> QED
  BY <1>2, CanbusAssumption DEF Forever, Slack

\* Numbers, where CanTypeOK has ranges.
LEMMA Typed ==
  ASSUME CanTypeOK
  PROVE  /\ max_on \in Allowances /\ limit.max_on \in Allowances /\ limit.enabled \in BOOLEAN
         /\ pump_on # Unset => pump_on \in Nat /\ pump_on <= Longest
         /\ off_left # Unset => off_left \in Nat /\ off_left <= OffSecs
         /\ tx_age \in Nat /\ tx_age <= TxInterval
         /\ run \in Nat /\ watched \in Nat /\ window_age \in Nat /\ window_age <= Forever
         /\ tame \in BOOLEAN /\ pump \in BOOLEAN /\ told \in BOOLEAN
         /\ enabled \in BOOLEAN /\ aborted \in BOOLEAN
  BY Times DEF CanTypeOK

-----------------------------------------------------------------------------
(* The invariant.                                                          *)

LEMMA InitInv == ASSUME CanInit PROVE IInv
<1>1. CanTypeOK
  <2>1. limit \in [enabled : BOOLEAN, max_on : Allowances] /\ max_on \in Allowances
    BY DEF CanInit
  <2>2. run \in 0 .. Longest + Slack + 1 /\ watched \in 0 .. Longest + Slack + 1
    BY Times DEF CanInit
  <2>3. tx_age \in 0 .. TxInterval /\ window_age \in 0 .. Forever
    BY Times DEF CanInit
  <2> QED
    BY <2>1, <2>2, <2>3 DEF CanInit, CanTypeOK
<1> QED
  BY <1>1, Times DEF CanInit, IInv, WindowOpen, WindowShut, CountsThePump, PumpInSight, Watching

LEMMA ConnectInv == ASSUME IInv, ConnectCan PROVE IInv'
<1>1. CanTypeOK'
  <2>1. watched' \in 0 .. Longest + Slack + 1 /\ UNCHANGED run
    BY Times DEF ConnectCan
  <2>2. tx_age' \in 0 .. TxInterval /\ window_age' \in 0 .. Forever
    BY Times DEF ConnectCan, NewLimiter
  <2> QED
    BY <2>1, <2>2 DEF IInv, CanTypeOK, ConnectCan, NewLimiter
<1>2. /\ enabled' = FALSE /\ pump_on' = Unset /\ off_left' = Unset /\ watched' = 0
      /\ window_age' = Forever /\ aborted' = FALSE /\ UNCHANGED <<tame, pump, told, run>>
  BY DEF ConnectCan, NewLimiter
<1> QED
  BY <1>1, <1>2, Times DEF IInv, WindowOpen, WindowShut, CountsThePump, PumpInSight, Watching

\* Time passes.
LEMMA TickInv == ASSUME IInv, Tick PROVE IInv'
<1>1. CanTypeOK
  BY DEF IInv
<1>2. /\ pump_on = Unset => pump_on' = Unset
      /\ pump_on # Unset => pump_on' \in Nat /\ pump_on' <= pump_on + 1 /\ pump_on' <= Longest
      /\ pump_on # Unset /\ pump_on < Longest => pump_on' = pump_on + 1
  BY <1>1, Times, Typed DEF Tick, Ticked, Capped
<1>3. /\ tx_age' \in Nat /\ tx_age' <= TxInterval /\ tx_age <= tx_age'
      /\ tx_age < TxInterval => tx_age' = tx_age + 1
      /\ tx_age = TxInterval => tx_age' = TxInterval
  BY <1>1, Times, Typed DEF Tick, Capped
<1>4. /\ off_left = Unset => off_left' = Unset
      /\ off_left # Unset => off_left' \in Nat /\ off_left' = (IF off_left = 0 THEN 0 ELSE off_left - 1)
  BY <1>1, Times, Typed DEF Tick
<1>5. /\ run' \in Nat /\ run' <= run + 1 /\ (~pump => run' = 0) /\ run' <= Longest + Slack + 1
      /\ pump => run' = run + 1 \/ run' = Longest + Slack + 1
  BY <1>1, Times, Typed DEF Tick, Capped
<1>6. watched' \in Nat /\ watched' <= watched + 1 /\ watched' <= Longest + Slack + 1
  BY <1>1, Times, Typed DEF Tick, Capped
<1>7. /\ window_age' \in Nat /\ window_age' <= Forever
      /\ window_age' = window_age + 1 \/ window_age' = Forever
      /\ window_age < Forever => window_age' = window_age + 1
  BY <1>1, Times, Typed DEF Tick, Capped
<1>8. /\ ~told' /\ (told \/ ~tame \/ link = "down")
      /\ UNCHANGED <<link, limit, enabled, max_on, tame, pump, aborted>>
  BY DEF Tick
<1>9. CanTypeOK'
  <2>1. pump_on' \in 0 .. Longest \cup {Unset}
    BY <1>2, Times
  <2>2. off_left' \in 0 .. OffSecs \cup {Unset}
    BY <1>1, <1>4, Times, Typed
  <2>3. tx_age' \in 0 .. TxInterval /\ window_age' \in 0 .. Forever
    BY <1>3, <1>7, Times
  <2>4. run' \in 0 .. Longest + Slack + 1 /\ watched' \in 0 .. Longest + Slack + 1
    BY <1>5, <1>6, Times
  <2>5. /\ link' \in {"down", "up"} /\ limit' \in [enabled : BOOLEAN, max_on : Allowances]
        /\ enabled' \in BOOLEAN /\ max_on' \in Allowances
        /\ tame' \in BOOLEAN /\ pump' \in BOOLEAN /\ aborted' \in BOOLEAN
    BY <1>1, <1>8, Zenon DEF CanTypeOK
  <2>6. told' \in BOOLEAN
    BY DEF Tick
  <2> QED
    BY <2>1, <2>2, <2>3, <2>4, <2>5, <2>6, Zenon DEF CanTypeOK
<1>10. WindowOpen'
  BY <1>1, <1>4, <1>7, <1>8, Times, Typed DEF IInv, WindowOpen
<1>11. WindowShut'
  <2> SUFFICES ASSUME off_left' = Unset PROVE WindowShut'
    BY DEF WindowShut
  <2>1. off_left = Unset
    BY <1>1, <1>4, Times, Typed
  <2>2. ~aborted => window_age' >= OffSecs
    BY <1>1, <1>7, <2>1, Times, Typed DEF IInv, WindowShut
  <2>3. ASSUME pump_on' # Unset
        PROVE  /\ ~aborted => window_age' >= OffSecs + pump_on'
               /\ tx_age' >= pump_on' \/ tx_age' = TxInterval
    BY <1>1, <1>2, <1>3, <1>7, <2>1, <2>3, Times, Typed DEF IInv, WindowShut
  <2> QED
    BY <1>8, <2>2, <2>3 DEF WindowShut
<1>12. CountsThePump'
  BY <1>1, <1>2, <1>5, <1>8, Times, Typed DEF IInv, CountsThePump, Watching
<1>13. PumpInSight'
  <2> SUFFICES ASSUME Watching' PROVE PumpInSight'
    BY DEF PumpInSight
  <2>1. Watching /\ told /\ ~told'
    BY <1>1, <1>8, Typed DEF Watching
  <2>2. off_left' # Unset => run' <= tx_age'
    BY <1>1, <1>3, <1>4, <1>5, <2>1, Times, Typed DEF IInv, PumpInSight
  <2>3. off_left' = Unset /\ enabled' /\ pump_on' = Unset => Within(Slack)'
    BY <1>1, <1>2, <1>4, <1>5, <1>6, <1>8, <2>1, Times, Typed DEF IInv, PumpInSight, Within
  <2>4. ASSUME off_left' = Unset, enabled', pump_on' # Unset
        PROVE  Within(pump_on + Slack)' /\ pump_on' <= max_on'
    <3>1. off_left = Unset /\ enabled /\ pump_on # Unset
      BY <1>1, <1>2, <1>4, <1>8, <2>4, Times, Typed
    <3>2. pump_on < max_on /\ Within(pump_on + Slack)
      BY <2>1, <3>1 DEF IInv, PumpInSight
    <3>3. pump_on' = pump_on + 1
      BY <1>1, <1>2, <3>1, <3>2, Times, Typed
    <3> QED
      BY <1>1, <1>5, <1>6, <1>8, <3>1, <3>2, <3>3, Times, Typed DEF Within
  <2> QED
    BY <2>1, <2>2, <2>3, <2>4 DEF PumpInSight
<1> QED
  BY <1>9, <1>10, <1>11, <1>12, <1>13 DEF IInv

-----------------------------------------------------------------------------
(* A frame.                                                                *)

\* What FramesAreEarned asks of a step.
Earned ==
  /\ tx_age # 0 /\ tx_age' = 0 => window_age' < OffSecs /\ ~aborted' /\ enabled'
  /\ window_age' = 0 /\ window_age # 0 =>
       /\ window_age >= OffSecs + max_on' \/ aborted
       /\ tame /\ told => run >= max_on'

\* A frame that the thread reads, from a tame SOREL a true one.
TrueReport(report) ==
  /\ report \in Reports /\ (tame => report = "other" \/ report = (IF pump THEN "on" ELSE "off"))
  /\ link = "up" /\ UNCHANGED <<link, limit, tame>> /\ OnFrame(report)

\* What the limiter then takes the pump for.
LEMMA Seen ==
  ASSUME CanTypeOK, NEW report \in Reports
  PROVE  /\ SeenOn(report) = Unset \/ (SeenOn(report) \in Nat /\ SeenOn(report) <= Longest)
         /\ SeenOn(report) # Unset => SeenOn(report) = IF pump_on = Unset THEN 0 ELSE pump_on
         /\ SeenOn(report) # Unset => report = "on" \/ (report = "other" /\ pump_on # Unset)
         /\ SeenOn(report) = Unset => report # "on" /\ (report = "other" => pump_on = Unset)
  BY Times, Typed DEF SeenOn, Reports

\* The limiter is, or is being, switched off.
LEMMA DisabledFrame ==
  ASSUME IInv, NEW report, TrueReport(report), ~limit.enabled
  PROVE  IInv' /\ Earned
<1> DEFINE on == SeenOn(report)
<1>1. CanTypeOK /\ report \in Reports
  BY DEF IInv, TrueReport
<1>2. /\ ~enabled' /\ max_on' = limit.max_on /\ watched' = 0 /\ tx_age' = tx_age
      /\ pump_on' = (IF enabled THEN Unset ELSE on) /\ off_left' = Unset
      /\ window_age' = window_age /\ aborted' = (aborted \/ enabled)
      /\ UNCHANGED <<link, limit, tame, pump>>
      /\ told' = (told \/ report \in {"on", "off"})
  BY <1>1, Typed DEF TrueReport, OnFrame, OnAfterSettings, WindowLeft, Disabling, IInv, WindowOpen
<1>3. run' = run
  BY <1>1, Typed DEF TrueReport, OnFrame, IInv, CountsThePump
<1>4. on = Unset \/ on \in 0 .. Longest
  BY <1>1, Times, Seen
<1>5. CanTypeOK'
  <2>1. pump_on' \in 0 .. Longest \cup {Unset}
    BY <1>2, <1>4
  <2>2. watched' \in 0 .. Longest + Slack + 1
    BY <1>2, Times
  <2>3. limit' \in [enabled : BOOLEAN, max_on : Allowances] /\ max_on' \in Allowances
    BY <1>1, <1>2 DEF CanTypeOK
  <2>4. told' \in BOOLEAN /\ aborted' \in BOOLEAN /\ enabled' \in BOOLEAN
    BY <1>1, Typed DEF TrueReport, OnFrame
  <2> QED
    BY <1>1, <1>2, <1>3, <2>1, <2>2, <2>3, <2>4 DEF CanTypeOK
<1>6. WindowOpen'
  BY <1>2 DEF WindowOpen
<1>7. WindowShut'
  <2>1. ~aborted' => off_left = Unset /\ ~aborted /\ ~enabled
    BY <1>1, <1>2, Typed DEF IInv, WindowOpen
  <2>2. pump_on' # Unset => off_left = Unset /\ pump_on' = IF pump_on = Unset THEN 0 ELSE pump_on
    BY <1>1, <1>2, Seen DEF IInv, WindowOpen
  <2> QED
    BY <1>1, <1>2, <2>1, <2>2, Times, Typed DEF IInv, WindowShut
<1>8. CountsThePump'
  BY <1>1, <1>2, <1>3, Seen, Times, Typed DEF IInv, CountsThePump, Watching, TrueReport
<1>9. PumpInSight'
  BY <1>2 DEF PumpInSight
<1>10. Earned
  BY <1>2 DEF Earned
<1> QED
  BY <1>5, <1>6, <1>7, <1>8, <1>9, <1>10 DEF IInv

\* The limiter is on, and the pump has used its allowance: a window begins, and
\* its first frame is sent.
LEMMA WindowBeginsFrame ==
  ASSUME IInv, NEW report, TrueReport(report), limit.enabled,
         WindowBegins(SeenOn(report), off_left)
  PROVE  IInv' /\ Earned
<1>1. CanTypeOK /\ report \in Reports
  BY DEF IInv, TrueReport
<1>2. /\ off_left = Unset /\ pump_on # Unset /\ pump_on >= limit.max_on /\ SeenOn(report) = pump_on
      /\ report = "on" \/ report = "other"
  BY <1>1, Seen, Times, Typed DEF WindowBegins
<1>3. tx_age = TxInterval
  BY <1>1, <1>2, Times, Typed DEF IInv, WindowShut
<1>4. Due(OffSecs) /\ ~WindowOver(OffSecs)
  BY <1>3, Times DEF Due, WindowOver
<1>5. /\ WindowLeft = off_left /\ OnAfterSettings(report) = pump_on /\ ~Disabling
  BY <1>2 DEF WindowLeft, OnAfterSettings, Disabling
<1>6. /\ enabled' /\ max_on' = limit.max_on /\ tx_age' = 0 /\ ~pump' /\ run' = 0
      /\ pump_on' = pump_on /\ off_left' = OffSecs
      /\ window_age' = 0 /\ aborted' = FALSE
      /\ UNCHANGED <<link, limit, tame>>
      /\ told' = (IF pump THEN FALSE ELSE told \/ report \in {"on", "off"})
      /\ watched' = IF enabled THEN watched ELSE 0
  BY <1>1, <1>2, <1>4, <1>5, Typed DEF TrueReport, OnFrame, OnAfterWindow, WindowBegins
<1>7. CanTypeOK'
  <2>1. pump_on' \in 0 .. Longest \cup {Unset} /\ off_left' \in 0 .. OffSecs \cup {Unset}
    BY <1>1, <1>6, Times DEF CanTypeOK
  <2>2. /\ run' \in 0 .. Longest + Slack + 1 /\ watched' \in 0 .. Longest + Slack + 1
        /\ tx_age' \in 0 .. TxInterval /\ window_age' \in 0 .. Forever
    BY <1>1, <1>6, Times DEF CanTypeOK
  <2>3. limit' \in [enabled : BOOLEAN, max_on : Allowances] /\ max_on' \in Allowances
    BY <1>1, <1>6 DEF CanTypeOK
  <2>4. told' \in BOOLEAN /\ enabled' \in BOOLEAN /\ pump' \in BOOLEAN
    BY <1>1, <1>6, Typed DEF TrueReport, OnFrame
  <2> QED
    BY <1>1, <1>6, <2>1, <2>2, <2>3, <2>4 DEF CanTypeOK
<1>8. WindowOpen' /\ WindowShut'
  BY <1>6, Times DEF WindowOpen, WindowShut
<1>9. Watching' => ~told'
  BY <1>1, <1>2, <1>6, Typed DEF IInv, CountsThePump, Watching, TrueReport
<1>10. CountsThePump' /\ PumpInSight'
  BY <1>6, <1>9, Times DEF CountsThePump, PumpInSight, Watching
<1>11. Earned
  BY <1>1, <1>2, <1>6, Times, Typed DEF Earned, IInv, WindowShut, CountsThePump, Watching, TrueReport
<1> QED
  BY <1>7, <1>8, <1>10, <1>11 DEF IInv

\* The limiter is on, and no window is open or begins.
LEMMA ShutFrame ==
  ASSUME IInv, NEW report, TrueReport(report), limit.enabled,
         off_left = Unset, ~WindowBegins(SeenOn(report), off_left)
  PROVE  IInv' /\ Earned
<1> DEFINE on == SeenOn(report)
<1>1. CanTypeOK /\ report \in Reports
  BY DEF IInv, TrueReport
<1>2. /\ WindowLeft = Unset /\ OnAfterSettings(report) = on /\ ~Disabling
      /\ ~Due(Unset) /\ ~WindowOver(Unset)
  BY DEF WindowLeft, OnAfterSettings, Disabling, Due, WindowOver
<1>3. /\ enabled' /\ max_on' = limit.max_on /\ pump_on' = on /\ off_left' = Unset
      /\ UNCHANGED <<link, limit, tame, tx_age, pump, window_age, aborted>>
      /\ told' = (told \/ report \in {"on", "off"})
      /\ watched' = IF enabled THEN watched ELSE 0
  BY <1>1, <1>2, Typed DEF TrueReport, OnFrame, OnAfterWindow
<1>4. run' = run
  BY <1>1, <1>2, Typed DEF TrueReport, OnFrame, IInv, CountsThePump
<1>5. on = Unset \/ (on \in 0 .. Longest /\ on < max_on')
  BY <1>1, <1>3, Times, Typed, Seen DEF WindowBegins
<1>6. CanTypeOK'
  <2>1. pump_on' \in 0 .. Longest \cup {Unset}
    BY <1>3, <1>5
  <2>2. watched' \in 0 .. Longest + Slack + 1
    BY <1>1, <1>3, Times DEF CanTypeOK
  <2>3. limit' \in [enabled : BOOLEAN, max_on : Allowances] /\ max_on' \in Allowances
    BY <1>1, <1>3 DEF CanTypeOK
  <2>4. told' \in BOOLEAN /\ enabled' \in BOOLEAN
    BY <1>1, <1>3, Typed DEF TrueReport, OnFrame
  <2> QED
    BY <1>1, <1>3, <1>4, <2>1, <2>2, <2>3, <2>4 DEF CanTypeOK
<1>7. WindowOpen'
  BY <1>3 DEF WindowOpen
<1>8. WindowShut'
  BY <1>1, <1>3, Seen, Times, Typed DEF IInv, WindowShut
<1>9. CountsThePump'
  BY <1>1, <1>3, <1>4, Seen, Times, Typed DEF IInv, CountsThePump, Watching, TrueReport
<1>10. PumpInSight'
  <2> SUFFICES ASSUME Watching' PROVE PumpInSight'
    BY DEF PumpInSight
  <2>1. Watching
    BY <1>3 DEF Watching
  <2>2. ASSUME pump_on' = Unset
        PROVE  IF told' THEN Within(TxInterval)' ELSE Within(Slack)'
    <3>1. report # "on" /\ (report = "off" => ~pump) /\ (report = "other" => pump_on = Unset)
      BY <1>1, <1>3, <2>1, <2>2, Seen DEF TrueReport, Watching
    <3>2. CASE report = "other" /\ enabled
      BY <1>1, <1>3, <1>4, <2>1, <3>1, <3>2, Typed DEF IInv, PumpInSight, Within
    <3>3. CASE report # "other"
      <4>1. ~pump
        BY <1>1, <2>1, <3>1, <3>3, Typed DEF TrueReport, Watching
      <4> QED
        BY <1>1, <1>4, <4>1, Times, Typed DEF IInv, CountsThePump, Within
    <3>4. CASE ~enabled
      BY <1>3, <3>4, Times DEF Within
    <3> QED
      BY <3>2, <3>3, <3>4
  <2>3. ASSUME pump_on' # Unset PROVE Within(pump_on + Slack)'
    <3>1. CASE ~enabled
      <4>1. watched' = 0 /\ pump_on' \in Nat
        BY <1>3, <1>5, <2>3, <3>1
      <4>2. \A seen \in Nat : 0 <= seen + Slack
        BY Times
      <4> QED
        BY <4>1, <4>2, Zenon DEF Within
    <3>2. CASE enabled /\ pump_on = Unset
      <4>1. Within(Slack)
        BY <1>1, <2>1, <3>2, Times, Typed DEF IInv, PumpInSight, Within
      <4> QED
        BY <1>1, <1>3, <1>4, <2>3, <3>2, <4>1, Seen, Times DEF Within
    <3>3. CASE enabled /\ pump_on # Unset
      BY <1>1, <1>3, <1>4, <2>1, <2>3, <3>3, Seen, Times DEF IInv, PumpInSight, Within
    <3> QED
      BY <3>1, <3>2, <3>3
  <2>4. pump_on' # Unset => pump_on' < max_on' /\ pump_on' \in Int /\ max_on' \in Int
    BY <1>1, <1>3, <1>5, Times, Typed
  <2> QED
    BY <1>3, <2>2, <2>3, <2>4 DEF PumpInSight
<1>11. Earned
  BY <1>3 DEF Earned
<1> QED
  BY <1>6, <1>7, <1>8, <1>9, <1>10, <1>11 DEF IInv

\* The limiter is on, and the window is over.
LEMMA OverFrame ==
  ASSUME IInv, NEW report, TrueReport(report), limit.enabled,
         off_left # Unset, off_left = 0
  PROVE  IInv' /\ Earned
<1>1. CanTypeOK /\ report \in Reports
  BY DEF IInv, TrueReport
<1>2. /\ WindowLeft = 0 /\ ~Disabling /\ ~Due(0) /\ WindowOver(0)
      /\ \A on : ~WindowBegins(on, 0)
  BY Times DEF WindowLeft, Disabling, Due, WindowOver, WindowBegins
<1>3. /\ enabled' /\ max_on' = limit.max_on /\ pump_on' = Unset /\ off_left' = Unset
      /\ UNCHANGED <<link, limit, tame, tx_age, pump, window_age, aborted>>
      /\ told' = (told \/ report \in {"on", "off"})
      /\ watched' = IF enabled THEN watched ELSE 0
  BY <1>1, <1>2, Typed DEF TrueReport, OnFrame, OnAfterWindow
<1>4. run' = run
  BY <1>1, <1>2, Typed DEF TrueReport, OnFrame, IInv, CountsThePump
<1>5. CanTypeOK'
  <2>1. watched' \in 0 .. Longest + Slack + 1
    BY <1>1, <1>3, Times DEF CanTypeOK
  <2>2. limit' \in [enabled : BOOLEAN, max_on : Allowances] /\ max_on' \in Allowances
    BY <1>1, <1>3 DEF CanTypeOK
  <2>3. told' \in BOOLEAN /\ enabled' \in BOOLEAN
    BY <1>1, <1>3, Typed DEF TrueReport, OnFrame
  <2> QED
    BY <1>1, <1>3, <1>4, <2>1, <2>2, <2>3 DEF CanTypeOK
<1>6. WindowOpen' /\ WindowShut'
  BY <1>1, <1>3, Times, Typed DEF IInv, WindowOpen, WindowShut
<1>7. CountsThePump'
  BY <1>3, <1>4 DEF IInv, CountsThePump, Watching
<1>8. PumpInSight'
  BY <1>1, <1>3, <1>4, Times, Typed DEF IInv, PumpInSight, Within, Watching
<1>9. Earned
  BY <1>3 DEF Earned
<1> QED
  BY <1>5, <1>6, <1>7, <1>8, <1>9 DEF IInv

\* The limiter is on, in a window.
LEMMA WindowFrame ==
  ASSUME IInv, NEW report, TrueReport(report), limit.enabled,
         off_left # Unset, off_left > 0
  PROVE  IInv' /\ Earned
<1> DEFINE on == SeenOn(report)
           sent == tx_age = TxInterval
<1>1. CanTypeOK /\ report \in Reports
  BY DEF IInv, TrueReport
<1>2. /\ WindowLeft = off_left /\ OnAfterSettings(report) = on /\ ~Disabling
      /\ Due(off_left) = sent /\ ~WindowOver(off_left) /\ ~WindowBegins(on, off_left)
  BY <1>1, Times, Typed DEF WindowLeft, OnAfterSettings, Disabling, Due, WindowOver, WindowBegins
<1>3. /\ enabled' /\ max_on' = limit.max_on /\ pump_on' = on /\ off_left' = off_left
      /\ UNCHANGED <<link, limit, tame, window_age, aborted>>
      /\ watched' = IF enabled THEN watched ELSE 0
      /\ pump' = (pump /\ ~sent) /\ tx_age' = IF sent THEN 0 ELSE tx_age
      /\ told' = IF pump' # pump THEN FALSE ELSE told \/ report \in {"on", "off"}
  BY <1>1, <1>2, Typed DEF TrueReport, OnFrame, OnAfterWindow
<1>4. run' = IF sent THEN 0 ELSE run
  <2>1. run' = IF pump' THEN run ELSE 0
    BY DEF TrueReport, OnFrame
  <2>2. ~pump => run = 0
    BY <1>1, Typed DEF IInv, CountsThePump
  <2> QED
    BY <1>1, <1>3, <2>1, <2>2, Typed
<1>5. on = Unset \/ on \in 0 .. Longest
  BY <1>1, Times, Seen
<1>6. CanTypeOK'
  <2>1. pump_on' \in 0 .. Longest \cup {Unset} /\ off_left' \in 0 .. OffSecs \cup {Unset}
    BY <1>1, <1>3, <1>5 DEF CanTypeOK
  <2>2. /\ watched' \in 0 .. Longest + Slack + 1 /\ run' \in 0 .. Longest + Slack + 1
        /\ tx_age' \in 0 .. TxInterval
    BY <1>1, <1>3, <1>4, Times DEF CanTypeOK
  <2>3. limit' \in [enabled : BOOLEAN, max_on : Allowances] /\ max_on' \in Allowances
    BY <1>1, <1>3 DEF CanTypeOK
  <2>4. told' \in BOOLEAN /\ enabled' \in BOOLEAN /\ pump' \in BOOLEAN
    BY <1>1, <1>3, Typed DEF TrueReport, OnFrame
  <2> QED
    BY <1>1, <1>3, <2>1, <2>2, <2>3, <2>4 DEF CanTypeOK
<1>7. WindowOpen' /\ WindowShut'
  BY <1>3 DEF IInv, WindowOpen, WindowShut
<1>8. CountsThePump'
  <2>1. run' > 0 => pump'
    BY <1>1, <1>3, <1>4, Typed DEF IInv, CountsThePump
  <2>2. ASSUME Watching', pump_on' # Unset PROVE IF pump' THEN run' >= pump_on' ELSE ~told'
    <3>1. Watching
      BY <1>3, <2>2 DEF Watching
    <3>2. /\ report = "other" \/ report = (IF pump THEN "on" ELSE "off")
          /\ pump_on' = IF pump_on = Unset THEN 0 ELSE pump_on
      BY <1>1, <1>3, <2>2, <3>1, Seen DEF Watching, TrueReport
    <3>3. pump_on # Unset => IF pump THEN run >= pump_on ELSE ~told
      BY <3>1 DEF IInv, CountsThePump
    <3>4. CASE pump'
      <4>1. pump /\ ~sent
        BY <1>1, <1>3, <3>4, Typed
      <4>2. run' = run
        BY <1>4, <4>1
      <4>3. run >= pump_on'
        BY <1>1, <3>2, <3>3, <4>1, Times, Typed
      <4> QED
        BY <3>4, <4>2, <4>3
    <3>5. CASE ~pump' /\ pump
      BY <1>3, <3>5
    <3>6. CASE ~pump' /\ ~pump
      <4>1. report = "other" /\ pump_on # Unset
        BY <1>1, <1>3, <2>2, <3>2, <3>6, Seen
      <4> QED
        BY <1>1, <1>3, <3>3, <3>6, <4>1, Typed
    <3> QED
      BY <3>4, <3>5, <3>6
  <2> QED
    BY <2>1, <2>2 DEF CountsThePump
<1>9. PumpInSight'
  BY <1>1, <1>3, <1>4, Times, Typed DEF IInv, PumpInSight, Watching
<1>10. Earned
  BY <1>1, <1>3, Times, Typed DEF Earned, IInv, WindowOpen
<1> QED
  BY <1>6, <1>7, <1>8, <1>9, <1>10 DEF IInv

LEMMA FrameInv == ASSUME IInv, ReadFrame PROVE IInv' /\ Earned
<1>1. PICK report \in Reports : TrueReport(report)
  BY DEF ReadFrame, TrueReport
<1>2. off_left # Unset => off_left = 0 \/ off_left > 0
  BY Times, Typed DEF IInv
<1> QED
  BY <1>1, <1>2, DisabledFrame, WindowBeginsFrame, ShutFrame, OverFrame, WindowFrame
     DEF WindowBegins

-----------------------------------------------------------------------------
(* The theorems.                                                           *)

\* The steps of the thread, of HA, of the SOREL and of time.
LEMMA StepInv == ASSUME IInv, [CanNext]_canVars PROVE IInv' /\ [Earned]_canVars
<1> USE DEF IInv, WindowOpen, WindowShut, CountsThePump, PumpInSight, Watching, Earned, Within
<1>1. CASE ConnectCan
  <2>1. IInv'
    BY <1>1, ConnectInv
  <2>2. tx_age' # 0 /\ window_age' # 0
    BY <1>1, Times DEF ConnectCan, NewLimiter
  <2> QED
    BY <2>1, <2>2
<1>2. CASE ReadFrame
  BY <1>2, FrameInv
<1>3. CASE Disconnect
  BY <1>3 DEF Disconnect, limiter, history, CanTypeOK
<1>4. CASE SetLimit
  BY <1>4 DEF SetLimit, limiter, history, CanTypeOK
<1>5. CASE SwitchPump
  <2>1. /\ tame /\ told /\ told' = FALSE /\ pump' = ~pump /\ run' = 0
        /\ UNCHANGED <<link, limit, enabled, max_on, pump_on, off_left, tx_age>>
        /\ UNCHANGED <<tame, watched, window_age, aborted>>
    BY <1>5 DEF SwitchPump, limiter
  <2>2. run' \in 0 .. Longest + Slack + 1
    BY <2>1, Times
  <2>3. CanTypeOK'
    BY <2>1, <2>2 DEF CanTypeOK
  <2>4. Watching => (pump_on = Unset \/ pump)
    BY <2>1
  <2>5. CountsThePump'
    <3>1. Watching' /\ pump_on' # Unset => ~pump' /\ ~told'
      BY <2>1, <2>4
    <3>2. ~(run' > 0)
      BY <2>1
    <3> QED
      BY <3>1, <3>2, Zenon DEF CountsThePump
  <2>6. PumpInSight'
    BY <2>1, Times, Typed
  <2>7. WindowOpen' /\ WindowShut'
    BY <2>1
  <2>8. tx_age' = tx_age /\ window_age' = window_age
    BY <2>1
  <2> QED
    BY <2>3, <2>5, <2>6, <2>7, <2>8
<1>6. CASE Tick
  <2>1. IInv'
    BY <1>6, TickInv
  <2>2. tx_age' = 0 => tx_age = 0
    BY <1>6, Times, Typed DEF Tick, Capped
  <2>3. window_age' # 0
    BY <1>6, Times, Typed DEF Tick, Capped
  <2> QED
    BY <2>1, <2>2, <2>3
<1>7. CASE UNCHANGED canVars
  BY <1>7 DEF canVars, limiter, history, CanTypeOK
<1> QED
  BY <1>1, <1>2, <1>3, <1>4, <1>5, <1>6, <1>7 DEF CanNext

LEMMA Invariance == CanSpec => []IInv
<1>1. CanInit => IInv
  BY InitInv
<1>2. IInv /\ [CanNext]_canVars => IInv'
  BY StepInv
<1> QED
  BY <1>1, <1>2, PTL DEF CanSpec

\* A pump that obeys runs for its allowance and at most one frame interval and
\* one report more while the limiter is there.
THEOREM PumpIsLimited == CanSpec => []PumpLimited
<1>1. IInv => PumpLimited
  <2> SUFFICES ASSUME IInv, Watching, enabled PROVE Within(max_on + Slack)
    BY DEF PumpLimited, Watching, Within
  <2>1. CanTypeOK
    BY DEF IInv
  <2>2. CASE off_left # Unset
    BY <2>1, <2>2, Times, Typed DEF IInv, PumpInSight, Within
  <2>3. CASE off_left = Unset /\ pump_on = Unset
    BY <2>1, <2>3, Times, Typed DEF IInv, PumpInSight, Within
  <2>4. CASE off_left = Unset /\ pump_on # Unset
    BY <2>1, <2>4, Times, Typed DEF IInv, PumpInSight, Within
  <2> QED
    BY <2>2, <2>3, <2>4
<1> QED
  BY <1>1, Invariance, PTL

\* Every off frame belongs to a window, and every window to a full allowance.
THEOREM EveryFrameIsEarned == CanSpec => FramesAreEarned
<1>1. IInv /\ [CanNext]_canVars => [Earned]_canVars
  BY StepInv
<1>2. CanSpec => [][Earned]_canVars
  BY <1>1, Invariance, PTL DEF CanSpec
<1> QED
  BY <1>2 DEF FramesAreEarned, Earned
=============================================================================
