------------------------------- MODULE Boiler -------------------------------
(***************************************************************************)
(* The boiler side of the controller: climate commands from HA set CH1,    *)
(* the setpoint of the boiler, keep it in state.json, and tell the kaskade *)
(* client whether the burner is to be blocked (CH1 = 0 V).  The client is  *)
(* an ESPHome API session with the ESP that carries the relay; sessions    *)
(* are dropped, the process ends and restarts, the relay is switched by    *)
(* others.  Temperatures are kept as the voltages they stand for.          *)
(***************************************************************************)
EXTENDS Integers, Sequences

CONSTANTS
  Volts,       \* voltages of CH1, 0 and Safe among them; the climate goes in steps
               \* of 1 degree, 0.1 V, so that the only one below 0.05 V is 0
  Safe,        \* ch1_safe_voltage, also the default target of the climate
  None,        \* an absent value
  MaxCommands, \* bound on the climate commands of a run of the process, with desired_seq
  MaxQueue,    \* bound on each queue
  SavesFail    \* state.json may not be writable

ASSUME VoltsAssumption == Volts \subseteq Nat /\ {0, Safe} \subseteq Volts /\ Safe # 0
ASSUME NoneAssumption == None \notin Nat \cup BOOLEAN
ASSUME BoundAssumption == MaxCommands \in Nat /\ MaxQueue \in Nat \ (0 .. 2)
ASSUME FaultAssumption == SavesFail \in BOOLEAN

VARIABLES
  process,    \* "up", or "down" until systemd restarts it
  commands,   \* climate commands on their way to the controller thread
  handling,   \* where the thread is: "boot", "idle", "save", "desire", "echo"
  ch1,        \* the voltage of CH1
  saved,      \* procontrol_ch1_voltage in state.json
  unsaved,    \* the last save failed
  climate,    \* the climate entity: mode (heat or off) and stored target
  echoed,     \* last_climate_echo: mode and action
  heating,    \* the rod is heating
  desired, seq, actual, \* KaskadeShared
  session,    \* "none" or "open"
  key,        \* the switch key is known, from this session or an earlier one
  lastSent,   \* last_sent_seq
  toEsp, fromEsp, \* the two directions of the session
  subscribed, \* the ESP pushes states to us
  relay,      \* the relay is on: the burner is blocked
  calm        \* from now on nothing fails and nobody interferes

hvars == <<commands, handling, ch1, saved, unsaved, climate, echoed, heating>>
link == <<session, key, lastSent, toEsp, fromEsp, subscribed>>
shared == <<desired, seq>>
vars == <<process, hvars, shared, actual, link, relay, calm>>

Blocked(v) == v = 0     \* ch1 < 0.05
ClimateOf(v) == [heat |-> v > 0, target |-> v]
\* A climate command says OFF, or HEAT with a target or without one.
\* (The target of an OFF is not looked at.)
Commands == [off : {FALSE}, target : Volts \cup {None}] \cup [off : {TRUE}, target : {None}]

-----------------------------------------------------------------------------
(* HA and the controller thread.                                           *)

Command ==
  /\ process = "up" /\ Len(commands) < MaxQueue /\ seq + Len(commands) < MaxCommands
  /\ \E c \in Commands : commands' = Append(commands, c)
  /\ UNCHANGED <<process, handling, ch1, saved, unsaved, climate, echoed, heating, shared,
                 actual, link, relay, calm>>

\* The CH1 voltage a command asks for: "heat" alone means the stored target.
CommandVolts(c) ==
  IF c.off THEN 0 ELSE IF c.target = None THEN climate.target ELSE c.target

\* handle_climate_command: CH1, then state.json, KaskadeShared and the echo.
Handle ==
  /\ process = "up" /\ handling = "idle" /\ commands # <<>>
  /\ ch1' = CommandVolts(Head(commands)) /\ commands' = Tail(commands)
  /\ handling' = "save"
  /\ UNCHANGED <<process, saved, unsaved, climate, echoed, heating, shared, actual, link,
                 relay, calm>>

SaveCh1 ==
  /\ handling = "save" /\ handling' = "desire"
  /\ \/ saved' = ch1 /\ unsaved' = FALSE
     \/ SavesFail /\ unsaved' = TRUE /\ UNCHANGED saved
Save ==
  /\ process = "up" /\ SaveCh1
  /\ UNCHANGED <<process, commands, ch1, climate, echoed, heating, shared, actual, link,
                 relay, calm>>

SetDesired == desired' = Blocked(ch1) /\ seq' = seq + 1
Desire ==
  /\ process = "up" /\ handling = "desire" /\ handling' = "echo" /\ SetDesired
  /\ UNCHANGED <<process, commands, ch1, saved, unsaved, climate, echoed, heating, actual,
                 link, relay, calm>>

\* Mutant: the echo is left to the watchdog.
NoEcho == UNCHANGED climate
EchoClimate == climate' = ClimateOf(ch1)
Echo ==
  /\ process = "up" /\ handling = "echo" /\ handling' = "idle" /\ EchoClimate
  /\ UNCHANGED <<process, commands, ch1, saved, unsaved, echoed, heating, shared, actual,
                 link, relay, calm>>

\* The echo of the watchdog pass, when mode or action changed since its last.
WatchdogEcho ==
  /\ process = "up" /\ handling = "idle" /\ echoed # <<ch1 > 0, heating>>
  /\ echoed' = <<ch1 > 0, heating>> /\ climate' = ClimateOf(ch1)
  /\ UNCHANGED <<process, commands, handling, ch1, saved, unsaved, heating, shared, actual,
                 link, relay, calm>>

RodToggles ==
  /\ process = "up" /\ handling = "idle" /\ heating' = ~heating
  /\ UNCHANGED <<process, commands, handling, ch1, saved, unsaved, climate, echoed, shared,
                 actual, link, relay, calm>>

\* A reinitialize of the DAC driver, on behalf of CH0, resets CH1 (see Dac).
FallBack ==
  /\ process = "up" /\ handling = "idle" /\ ~calm /\ ch1' = Safe
  /\ UNCHANGED <<process, commands, handling, saved, unsaved, climate, echoed, heating,
                 shared, actual, link, relay, calm>>

-----------------------------------------------------------------------------
(* The end of the process, and its start.                                  *)

NoSession ==
  /\ session' = "none" /\ lastSent' = 0
  /\ toEsp' = <<>> /\ fromEsp' = <<>> /\ subscribed' = FALSE /\ actual' = None

\* A signal or a crash, at any point.  CH1 goes to Safe, by dac.shutdown or by
\* dac-safe; of the shared state nothing is left.
ProcessEnds ==
  /\ process = "up" /\ ~calm /\ process' = "down" /\ ch1' = Safe
  /\ commands' = <<>> /\ handling' = "boot" /\ heating' = FALSE
  /\ climate' = [heat |-> FALSE, target |-> Safe] /\ echoed' = None
  /\ desired' = None /\ seq' = 0 /\ key' = FALSE /\ NoSession
  /\ UNCHANGED <<saved, unsaved, relay, calm>>

ProcessStarts ==
  /\ process = "down" /\ process' = "up"
  /\ UNCHANGED <<hvars, shared, actual, link, relay, calm>>

\* Mutant: nothing stands in for a voltage that was never stored.
RestoredAsIs == saved
Restored == IF saved = None THEN Safe ELSE saved
\* run_controller_thread restores CH1, then goes on like a command.
Boot ==
  /\ process = "up" /\ handling = "boot" /\ handling' = "desire" /\ ch1' = Restored
  /\ UNCHANGED <<process, commands, saved, unsaved, climate, echoed, heating, shared,
                 actual, link, relay, calm>>

-----------------------------------------------------------------------------
(* The kaskade session.                                                    *)

Switch(on) == IF on THEN "on" ELSE "off"
\* The ticks leave room for the two messages that answer the entity list.
SendEsp(m) == Len(toEsp) + 2 < MaxQueue /\ toEsp' = Append(toEsp, m)

Connect ==
  /\ process = "up" /\ session = "none" /\ session' = "open"
  /\ toEsp' = <<"list">> /\ lastSent' = 0
  /\ UNCHANGED <<process, hvars, shared, actual, key, fromEsp, subscribed, relay, calm>>

\* The peer closes, or one of the session's timers runs out.
Drop ==
  /\ session = "open" /\ ~calm /\ NoSession
  /\ UNCHANGED <<process, hvars, shared, key, relay, calm>>

\* desired_poll, every 200 ms.
Poll ==
  /\ session = "open" /\ key /\ desired # None /\ seq # lastSent
  /\ SendEsp(Switch(desired)) /\ lastSent' = seq
  /\ UNCHANGED <<process, hvars, shared, actual, session, key, fromEsp, subscribed, relay,
                 calm>>

\* consistency, every 10 s.
Mismatch == actual # desired
Consistency ==
  /\ session = "open" /\ key /\ desired # None /\ Mismatch
  /\ SendEsp(Switch(desired))
  /\ UNCHANGED <<process, hvars, shared, actual, session, key, lastSent, fromEsp,
                 subscribed, relay, calm>>

\* A message of the ESP: the entity list, its end, or a state of the switch.
\* Mutant: the states are not subscribed to.
DoneUnsubscribed ==
  toEsp' = toEsp \o (IF key /\ desired # None THEN <<Switch(desired)>> ELSE <<>>)
ListDone ==
  /\ Len(toEsp) + 1 < MaxQueue
  /\ toEsp' = toEsp \o <<"subscribe">>
               \o (IF key /\ desired # None THEN <<Switch(desired)>> ELSE <<>>)
Receive ==
  /\ session = "open" /\ fromEsp # <<>> /\ fromEsp' = Tail(fromEsp)
  /\ LET m == Head(fromEsp) IN
       \/ m = "switch" /\ key' = TRUE /\ UNCHANGED <<toEsp, actual>>
       \/ m = "done" /\ ListDone /\ UNCHANGED <<key, actual>>
       \/ /\ m \in {"on", "off"} /\ actual' = (IF key THEN m = "on" ELSE actual)
          /\ UNCHANGED <<key, toEsp>>
  /\ UNCHANGED <<process, hvars, shared, session, lastSent, subscribed, relay, calm>>

-----------------------------------------------------------------------------
(* The ESP.                                                                *)

PushState(b) == IF subscribed THEN Append(fromEsp, Switch(b)) ELSE fromEsp
EspHandles ==
  /\ session = "open" /\ toEsp # <<>> /\ toEsp' = Tail(toEsp)
  /\ Len(fromEsp) + 1 < MaxQueue
  /\ LET m == Head(toEsp) IN
       \/ /\ m = "list" /\ fromEsp' = fromEsp \o <<"switch", "done">>
          /\ UNCHANGED <<relay, subscribed>>
       \/ /\ m = "subscribe" /\ subscribed' = TRUE /\ fromEsp' = Append(fromEsp, Switch(relay))
          /\ UNCHANGED relay
       \/ /\ m \in {"on", "off"} /\ relay' = (m = "on") /\ fromEsp' = PushState(m = "on")
          /\ UNCHANGED subscribed
  /\ UNCHANGED <<process, hvars, shared, actual, session, key, lastSent, calm>>

RelayToggles ==
  /\ ~calm /\ Len(fromEsp) < MaxQueue
  /\ relay' = ~relay /\ fromEsp' = PushState(~relay)
  /\ UNCHANGED <<process, hvars, shared, actual, session, key, lastSent, toEsp, subscribed,
                 calm>>

CalmComes ==
  /\ ~calm /\ calm' = TRUE
  /\ UNCHANGED <<process, hvars, shared, actual, link, relay>>

-----------------------------------------------------------------------------
Init ==
  /\ process = "up" /\ commands = <<>> /\ handling = "boot" /\ ch1 = Safe
  /\ saved \in Volts \cup {None} /\ unsaved = FALSE
  /\ climate = [heat |-> FALSE, target |-> Safe] /\ echoed = None /\ heating = FALSE
  /\ desired = None /\ seq = 0 /\ actual = None
  /\ session = "none" /\ key = FALSE /\ lastSent = 0
  /\ toEsp = <<>> /\ fromEsp = <<>> /\ subscribed = FALSE
  /\ relay \in BOOLEAN /\ calm = FALSE

Thread == Handle \/ Save \/ Desire \/ Echo \/ WatchdogEcho \/ Boot
Session == Connect \/ Poll \/ Consistency \/ Receive
World ==
  Command \/ RodToggles \/ FallBack \/ ProcessEnds \/ Drop \/ RelayToggles \/ CalmComes
Next == Thread \/ Session \/ EspHandles \/ ProcessStarts \/ World
Spec == Init /\ [][Next]_vars

\* The thread's loop, the timers and the reads of the session and the ESP go
\* on, and systemd restarts the process.
FairSpec ==
  /\ Spec /\ WF_vars(Thread) /\ WF_vars(ProcessStarts) /\ WF_vars(EspHandles)
  /\ WF_vars(Connect) /\ WF_vars(Receive) /\ WF_vars(Poll) /\ WF_vars(Consistency)
-----------------------------------------------------------------------------
\* Every variable keeps its type, and the queues their bound.
TypeOK ==
  /\ process \in {"up", "down"} /\ commands \in Seq(Commands) /\ Len(commands) <= MaxQueue
  /\ handling \in {"boot", "idle", "save", "desire", "echo"} /\ ch1 \in Volts
  /\ saved \in Volts \cup {None} /\ climate \in [heat : BOOLEAN, target : Volts]
  /\ echoed \in {None} \cup (BOOLEAN \X BOOLEAN)
  /\ {unsaved, heating, key, subscribed, relay, calm} \subseteq BOOLEAN
  /\ {desired, actual} \subseteq BOOLEAN \cup {None}
  /\ {seq, lastSent} \subseteq Nat /\ session \in {"none", "open"}
  /\ Len(toEsp) <= MaxQueue /\ Len(fromEsp) <= MaxQueue

\* Between two commands the copies of the setpoint stand for one voltage: the
\* wish of the burner relay, state.json unless its last save failed, and, as
\* long as the DAC driver has not reset CH1 behind their back, CH1 and the
\* climate entity that HA sees.
CopiesAgree ==
  process = "up" /\ handling = "idle" =>
    \E v \in Volts :
      /\ desired = Blocked(v) /\ (unsaved \/ saved \in {v, None})
      /\ ch1 \in {v, Safe} /\ climate \in {ClimateOf(v), ClimateOf(ch1)}

\* However sessions, processes and relay fared before, the relay ends where the
\* controller wants it, and the client knows (clients.rs:411-435).
RelayFollowsDesired ==
  <>[](calm /\ process = "up") => <>[](relay = desired /\ actual = relay)

\* A climate HEAT without a temperature never blocks the boiler: the stored
\* target "survives commands without target" (bridge.rs:31) and 0 V comes "only
\* via Climate-OFF" (OPERATIONS.md:133).  Violated: OFF stores a target of 0.
HeatNeverBlocks ==
  [][Handle /\ ~Head(commands).off /\ Head(commands).target = None => ch1' # 0]_vars
=============================================================================
