------------------------------- MODULE Canbus -------------------------------
(***************************************************************************)
(* The CAN thread: it reads what the SOREL heating controller says on its  *)
(* bus and limits the duty cycle of the SOREL's hot-water pump.  A pump    *)
(* that was on for its full allowance is forced off for a window, by off   *)
(* frames that are repeated because the SOREL's own logic may switch the   *)
(* relay back on.                                                          *)
(*                                                                         *)
(* The SOREL is the environment.  A tame one obeys an off frame and        *)
(* reports its relay in every unit of time and after every change; any     *)
(* other does what it likes.                                               *)
(***************************************************************************)
EXTENDS Integers

CONSTANTS
  Allowances,   \* the values of max_on_secs Home Assistant may choose
  OffSecs,      \* length of a window
  TxInterval,   \* time between two off frames
  Unset          \* not running

ASSUME CanbusAssumption ==
  /\ Allowances \subseteq Nat \ {0} /\ Allowances # {} /\ Unset \notin Int
  /\ OffSecs \in Nat \ {0} /\ TxInterval \in Nat \ {0}
  \* HA's choices have a largest (main.rs:1098, 120 minutes).
  /\ \E max \in Allowances : \A other \in Allowances : other <= max
  \* The frame that opens a window is not held back by the last one before it.
  /\ \A max \in Allowances : TxInterval <= max

Longest == CHOOSE max \in Allowances : \A other \in Allowances : other <= max
\* Any age from here on counts as "long ago".
Forever == OffSecs + Longest
\* How much longer than its allowance a pump may run: what is left of the interval
\* between two off frames when a window ends, and the next report.
Slack == TxInterval + 1

VARIABLES
  link,        \* the adapter is open
  limit,       \* the shared settings: [enabled, max_on]
  enabled,     \* the limiter's copy
  max_on,      \* and its allowance
  pump_on,     \* for how long the limiter has seen the pump on
  off_left,    \* what is left of the window
  tx_age,      \* time since the last off frame
  tame,        \* how the SOREL behaves
  pump,        \* its relay
  told,        \* it has reported the relay since the last tick and change
  run,         \* history: for how long the pump has been on
  watched,     \* history: for how long an enabled limiter has been connected
  window_age,  \* history: time since the last window began
  aborted      \* history: the limiter was disabled after that

limiter == <<enabled, max_on, pump_on, off_left, tx_age>>
history == <<run, watched, window_age, aborted>>
canVars == <<link, limit, limiter, tame, pump, told, history>>

-----------------------------------------------------------------------------
(* SorelRelayLimiter.                                                      *)

Capped(age, cap) == IF age < cap THEN age ELSE cap

\* A fresh limiter: set up with every connection.
NewLimiter ==
  /\ enabled' = FALSE /\ max_on' \in Allowances
  /\ pump_on' = Unset /\ off_left' = Unset /\ tx_age' = TxInterval

\* What the pump is after a frame.  Of the monitored relay, a report in mode
\* "switched" or "phase" tells its state, any other mode counts as off.
Reports == {"on", "off", "pwm", "other"}
\* Mutant: every report of a running pump starts the allowance anew.
RestartedOn(report) == IF report = "on" THEN 0 ELSE IF report = "other" THEN pump_on ELSE Unset
SeenOn(report) ==
  IF report = "other" THEN pump_on
  ELSE IF report = "on" THEN (IF pump_on = Unset THEN 0 ELSE pump_on)
  ELSE Unset

\* set_enabled: switching it off ends the window at once.
Disabling == enabled /\ ~limit.enabled
\* Mutant: the window is only interrupted.
WindowKept == off_left
WindowLeft == IF Disabling THEN Unset ELSE off_left
OnAfterSettings(report) == IF Disabling THEN Unset ELSE SeenOn(report)

\* tick, with the pump on for `on` and `left` to go of the window.
WindowBegins(on, left) == left = Unset /\ on # Unset /\ on >= limit.max_on
WindowOver(left) == left # Unset /\ left <= 0
Due(left) == left # Unset /\ left > 0 /\ tx_age >= TxInterval

\* Mutant: the end of a window leaves the allowance used up as it is.
UsedUp(on, left) == on
OnAfterWindow(on, left) == IF WindowOver(left) THEN Unset ELSE on

\* A frame is read and handled: the report, the settings, the tick.  The SOREL
\* does as it is told, if it is tame.
OnFrame(report) ==
  LET on == OnAfterSettings(report)
      begins == limit.enabled /\ WindowBegins(on, WindowLeft)
      left == IF begins THEN OffSecs ELSE WindowLeft
      sent == limit.enabled /\ Due(left)
  IN /\ enabled' = limit.enabled /\ max_on' = limit.max_on
     /\ pump_on' = IF limit.enabled THEN OnAfterWindow(on, left) ELSE on
     /\ off_left' = IF limit.enabled /\ WindowOver(left) THEN Unset ELSE left
     /\ tx_age' = IF sent THEN 0 ELSE tx_age
     /\ pump' = (pump /\ ~sent) /\ run' = IF pump' THEN run ELSE 0
     /\ told' = IF pump' # pump THEN FALSE ELSE (told \/ report \in {"on", "off"})
     /\ watched' = IF enabled /\ limit.enabled THEN watched ELSE 0
     /\ window_age' = IF begins THEN 0 ELSE window_age
     /\ aborted' = IF begins THEN FALSE ELSE (aborted \/ Disabling)

-----------------------------------------------------------------------------
(* run_canbus_thread.                                                      *)

\* The adapter is opened, and the limiter made anew.
ConnectCan ==
  /\ link = "down" /\ link' = "up" /\ NewLimiter
  /\ watched' = 0 /\ window_age' = Forever /\ aborted' = FALSE
  /\ UNCHANGED <<limit, tame, pump, told, run>>

ReadFrame ==
  /\ link = "up"
  /\ \E report \in Reports :
       /\ tame => report = "other" \/ report = (IF pump THEN "on" ELSE "off")
       /\ OnFrame(report)
  /\ UNCHANGED <<link, limit, tame>>

\* The end of the file or a read error; a timeout and a line that is no frame
\* change nothing, and the limiter is not run.
Disconnect ==
  /\ link = "up" /\ link' = "down"
  /\ UNCHANGED <<limit, limiter, tame, pump, told, history>>

\* The controller thread copies what Home Assistant wants.
SetLimit ==
  /\ limit' \in [enabled : BOOLEAN, max_on : Allowances]
  /\ UNCHANGED <<link, limiter, tame, pump, told, history>>

\* The SOREL's own logic switches the relay.  Of a SOREL that is not tame only
\* the reports matter.
SwitchPump ==
  /\ tame /\ told /\ told' = FALSE /\ pump' = ~pump /\ run' = 0
  /\ UNCHANGED <<link, limit, limiter, tame, watched, window_age, aborted>>

Ticked(age, cap) == IF age = Unset THEN Unset ELSE Capped(age + 1, cap)
Tick ==
  /\ (told \/ ~tame \/ link = "down") /\ told' = FALSE
  /\ pump_on' = Ticked(pump_on, Longest) /\ tx_age' = Capped(tx_age + 1, TxInterval)
  /\ off_left' = IF off_left = Unset \/ off_left = 0 THEN off_left ELSE off_left - 1
  /\ run' = IF pump THEN Capped(run + 1, Longest + Slack + 1) ELSE 0
  /\ watched' = IF enabled THEN Capped(watched + 1, Longest + Slack + 1) ELSE 0
  /\ window_age' = Capped(window_age + 1, Forever)
  /\ UNCHANGED <<link, limit, enabled, max_on, tame, pump, aborted>>

CanInit ==
  /\ link = "down" /\ limit \in [enabled : BOOLEAN, max_on : Allowances]
  /\ enabled = FALSE /\ max_on = limit.max_on
  /\ pump_on = Unset /\ off_left = Unset /\ tx_age = TxInterval
  /\ tame \in BOOLEAN /\ pump = FALSE /\ told = FALSE
  /\ run = 0 /\ watched = 0 /\ window_age = Forever /\ aborted = FALSE

CanNext == ConnectCan \/ ReadFrame \/ Disconnect \/ SetLimit \/ SwitchPump \/ Tick
CanSpec == CanInit /\ [][CanNext]_canVars
-----------------------------------------------------------------------------
\* Every variable keeps its type.
CanTypeOK ==
  /\ link \in {"down", "up"} /\ limit \in [enabled : BOOLEAN, max_on : Allowances]
  /\ enabled \in BOOLEAN /\ max_on \in Allowances
  /\ pump_on \in 0 .. Longest \cup {Unset} /\ off_left \in 0 .. OffSecs \cup {Unset}
  /\ tx_age \in 0 .. TxInterval
  /\ tame \in BOOLEAN /\ pump \in BOOLEAN /\ told \in BOOLEAN
  /\ run \in 0 .. Longest + Slack + 1 /\ watched \in 0 .. Longest + Slack + 1
  /\ window_age \in 0 .. Forever /\ aborted \in BOOLEAN

\* A pump that obeys and is reported never runs for longer than its allowance,
\* give or take a frame, as long as the limiter is there and enabled, however
\* often the SOREL switches it back on and Home Assistant changes the allowance.
PumpLimited ==
  tame /\ link = "up" /\ enabled =>
    run <= max_on + Slack \/ watched <= max_on + Slack

\* An off frame belongs to a window: it comes within off_secs of a window's
\* beginning, the limiter was not disabled in between, and a new window begins
\* only when the pump could run for its full allowance after the end of the last.
FramesAreEarned ==
  [][/\ tx_age # 0 /\ tx_age' = 0 => window_age' < OffSecs /\ ~aborted' /\ enabled'
     /\ window_age' = 0 /\ window_age # 0 =>
          /\ window_age >= OffSecs + max_on' \/ aborted
          /\ tame /\ told => run >= max_on']_canVars
=============================================================================
