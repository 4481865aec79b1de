-------------------------------- MODULE Dac --------------------------------
(***************************************************************************)
(* The GP8403 driver hardware/dac.rs on an I2C bus that may fail, called   *)
(* by the controller thread, and tools/dac-safe, which systemd runs when   *)
(* the process is gone.                                                    *)
(*                                                                         *)
(* The driver's functions call each other (set_voltage -> reinitialize ->  *)
(* initialize -> shutdown -> reinitialize ...), so the model keeps their   *)
(* call stack.  Every bus transfer is a step of its own.                   *)
(***************************************************************************)
EXTENDS Integers, Sequences

CONSTANTS
  Volts,         \* voltages of a channel, 0 among them
  Safe,          \* ch1_safe_voltage
  StartAttempts, \* the attempts of the initialize in main
  Attempts,      \* the attempts of a reinitialize
  BusModes,      \* "up", "down" and "flaky": a transfer may fail or not
  MaxDepth       \* bound on the call stack: the bus is steady from there on

ASSUME VoltsAssumption == Volts \subseteq Nat /\ {0, Safe} \subseteq Volts
ASSUME AttemptsAssumption == {StartAttempts, Attempts, MaxDepth} \subseteq Nat \ {0}
ASSUME BusAssumption == BusModes \subseteq {"up", "down", "flaky"} /\ "up" \in BusModes

VARIABLES
  bus,         \* how the bus behaves at present
  chip,        \* the voltage on each channel
  current,     \* current_voltage and current_voltage_ch1
  initialized,
  stack,       \* the calls of the driver in progress, the innermost first
  result,      \* what the last reinitialize returned
  process,     \* "boot", "up", "ending", "ended"; "down", "safe", "off"
  heating,     \* the controller's heating_active
  asked        \* the voltage last asked of each channel

vars == <<bus, chip, current, initialized, stack, result, process, heating, asked>>

Channels == {0, 1}
Alive == {"boot", "up", "ending", "ended"}

\* Where a channel goes on errors and on shutdown.
\* Mutant: CH1 goes to 0 V as well.
AllZero == [c \in Channels |-> 0]
Fallback == [c \in Channels |-> IF c = 0 THEN 0 ELSE Safe]

Pcs == {"check", "checked", "write", "retry", "probe", "probed"}
Frames == [op : {"set", "init", "shutdown"}, pc : Pcs, ch : Channels, v : Volts, left : Nat]
Setting(c, v) == [op |-> "set", pc |-> "check", ch |-> c, v |-> v, left |-> 0]
Initializing(n) == [op |-> "init", pc |-> "probe", ch |-> 0, v |-> 0, left |-> n]
Shutting == [op |-> "shutdown", pc |-> "write", ch |-> 0, v |-> 0, left |-> 0]

Top == stack[1]
At(op, pc) == stack # <<>> /\ Top.op = op /\ Top.pc = pc
GoTo(pc) == <<[Top EXCEPT !.pc = pc]>> \o Tail(stack)
Return == stack' = Tail(stack)

Transfer(ok) ==
  CASE bus = "up" -> ok
    [] bus = "down" -> ~ok
    [] bus = "flaky" -> ok \/ Len(stack) < MaxDepth
Write(c, v, ok) == Transfer(ok) /\ chip' = IF ok THEN [chip EXCEPT ![c] = v] ELSE chip

\* reinitialize(), entered from the frame at the top, which goes on at pc.
Reinitialize(pc) ==
  stack' = <<Initializing(Attempts)>> \o GoTo(pc) /\ initialized' = FALSE
GiveUp(c) == current' = [current EXCEPT ![c] = Fallback[c]] /\ Return

-----------------------------------------------------------------------------
(* set_voltage and set_voltage_ch1.                                        *)

SetCheck ==
  /\ At("set", "check")
  /\ IF initialized THEN stack' = GoTo("write") /\ UNCHANGED initialized
                    ELSE Reinitialize("checked")
  /\ UNCHANGED <<chip, current, result>>

SetChecked ==
  /\ At("set", "checked")
  /\ IF result THEN stack' = GoTo("write") /\ UNCHANGED current ELSE GiveUp(Top.ch)
  /\ UNCHANGED <<chip, initialized, result>>

SetWrite ==
  /\ At("set", "write")
  /\ \E ok \in BOOLEAN :
       /\ Write(Top.ch, Top.v, ok)
       /\ IF ok THEN Return /\ UNCHANGED initialized ELSE Reinitialize("retry")
  /\ UNCHANGED <<current, result>>

\* Mutant: the retry writes to CH0 whichever channel was asked for.
RetryOther ==
  /\ At("set", "retry") /\ Return
  /\ \E ok \in BOOLEAN : Write(0, Top.v, ok)
  /\ UNCHANGED <<current, initialized, result>>
SetRetry ==
  /\ At("set", "retry")
  /\ IF result THEN Return /\ UNCHANGED current /\ \E ok \in BOOLEAN : Write(Top.ch, Top.v, ok)
               ELSE GiveUp(Top.ch) /\ UNCHANGED chip
  /\ UNCHANGED <<initialized, result>>

-----------------------------------------------------------------------------
(* initialize: probe and range configuration, then shutdown.               *)

\* Mutant: a failed attempt is not counted.
SameAttempt(n) == n
OneLess(n) == n - 1
\* Mutant: the loop goes on after the last attempt.
Endless == TRUE
AttemptsLeft == Top.left > 0
InitProbe ==
  /\ At("init", "probe") /\ AttemptsLeft
  /\ \E ok \in BOOLEAN :
       /\ Transfer(ok)
       /\ IF ok THEN /\ initialized' = TRUE /\ current' = Fallback
                     /\ stack' = <<Shutting>> \o GoTo("probed")
                ELSE /\ stack' = <<[Top EXCEPT !.left = OneLess(Top.left)]>> \o Tail(stack)
                     /\ UNCHANGED <<initialized, current>>
  /\ UNCHANGED <<chip, result>>

InitReturns ==
  /\ stack # <<>> /\ Top.op = "init" /\ (Top.pc = "probed" \/ ~AttemptsLeft)
  /\ result' = (Top.pc = "probed") /\ Return
  /\ UNCHANGED <<chip, current, initialized>>

-----------------------------------------------------------------------------
(* shutdown: the two channels in turn, each retried after a reinitialize   *)
(* whose result is not looked at.                                          *)

NextChannel ==
  IF Top.ch = 0 THEN stack' = <<[Top EXCEPT !.ch = 1, !.pc = "write"]>> \o Tail(stack)
                ELSE Return
ShutdownWrite ==
  /\ At("shutdown", "write")
  /\ \E ok \in BOOLEAN :
       /\ Write(Top.ch, Fallback[Top.ch], ok)
       /\ IF ok THEN NextChannel /\ UNCHANGED initialized ELSE Reinitialize("retry")
  /\ UNCHANGED <<current, result>>

ShutdownRetry ==
  /\ At("shutdown", "retry") /\ NextChannel
  /\ \E ok \in BOOLEAN : Write(Top.ch, Fallback[Top.ch], ok)
  /\ UNCHANGED <<current, initialized, result>>

Driver ==
  /\ \/ SetCheck \/ SetChecked \/ SetWrite \/ SetRetry
     \/ InitProbe \/ InitReturns \/ ShutdownWrite \/ ShutdownRetry
  /\ UNCHANGED <<bus, process, heating, asked>>

-----------------------------------------------------------------------------
(* The callers.                                                            *)

Call(c, v) ==
  /\ stack = <<>> /\ stack' = <<Setting(c, v)>>
  /\ current' = [current EXCEPT ![c] = v] /\ asked' = [asked EXCEPT ![c] = v]
  /\ UNCHANGED <<bus, chip, initialized, result>>

\* The controller thread starts: CH1 is restored from state.json.
Boot == process = "boot" /\ process' = "up" /\ Call(1, asked[1]) /\ UNCHANGED heating

\* The controller heats at some voltage, and calls again only while it heats.
Heat ==
  /\ process = "up" /\ \E v \in Volts : Call(0, v)
  /\ heating' = TRUE /\ UNCHANGED process
StopHeating ==
  /\ process = "up" /\ heating /\ Call(0, 0)
  /\ heating' = FALSE /\ UNCHANGED process
ClimateCommand ==
  process = "up" /\ (\E v \in Volts : Call(1, v)) /\ UNCHANGED <<process, heating>>

\* A signal: emergency_shutdown, dac.shutdown, and the process ends.
EmergencyShutdown ==
  process = "up" /\ process' = "ending" /\ Call(0, 0) /\ heating' = FALSE
LastShutdown ==
  /\ process = "ending" /\ stack = <<>> /\ process' = "ended"
  /\ stack' = <<Shutting>> /\ current' = Fallback
  /\ UNCHANGED <<bus, chip, initialized, result, heating, asked>>
Ended ==
  /\ process = "ended" /\ stack = <<>> /\ process' = "down"
  /\ UNCHANGED <<bus, chip, current, initialized, stack, result, heating, asked>>

\* A panic (panic = "abort"), a kill: nothing of the process goes on.
Crash ==
  /\ process \in Alive /\ process' = "down"
  /\ stack' = <<>> /\ heating' = FALSE /\ asked' = [asked EXCEPT ![0] = 0]
  /\ UNCHANGED <<bus, chip, current, initialized, result>>

\* dac-safe: CH0, then CH1 unless CH0 failed.
\* Mutant: dac-safe leaves CH0 as it is.
SafeSkipsCh0 == process = "down" /\ process' = "safe" /\ UNCHANGED chip
SafeCh0 ==
  /\ process = "down"
  /\ \E ok \in BOOLEAN : Write(0, 0, ok) /\ process' = IF ok THEN "safe" ELSE "off"
SafeCh1 ==
  /\ process = "safe" /\ process' = "off"
  /\ \E ok \in BOOLEAN : Write(1, Safe, ok)
DacSafe ==
  /\ SafeCh0 \/ SafeCh1
  /\ UNCHANGED <<bus, current, initialized, stack, result, heating, asked>>

\* systemd starts the process again: RealDac::new and initialize.
Restart ==
  /\ process = "off" /\ process' = "boot"
  /\ current' = Fallback /\ initialized' = FALSE
  /\ stack' = <<Initializing(StartAttempts)>>
  /\ UNCHANGED <<bus, chip, result, heating, asked>>

BusChanges ==
  /\ bus' \in BusModes \ {bus} /\ Len(stack) < MaxDepth
  /\ UNCHANGED <<chip, current, initialized, stack, result, process, heating, asked>>

\* The rod is off when the service first starts; CH1 is where it was left.
Init ==
  /\ bus \in BusModes /\ chip \in [Channels -> Volts] /\ chip[0] = 0
  /\ current = Fallback /\ initialized = FALSE
  /\ stack = <<Initializing(StartAttempts)>> /\ result = FALSE
  /\ process = "boot" /\ heating = FALSE
  /\ asked \in {[c \in Channels |-> IF c = 0 THEN 0 ELSE v] : v \in Volts}

Caller == Boot \/ Heat \/ StopHeating \/ ClimateCommand \/ EmergencyShutdown
System == LastShutdown \/ Ended \/ DacSafe \/ Restart
Next == Driver \/ Caller \/ System \/ Crash \/ BusChanges
Spec == Init /\ [][Next]_vars

\* The thread goes on inside the driver, a process that is ending ends, and
\* systemd runs dac-safe and restarts the service.
FairSpec == Spec /\ WF_vars(Driver) /\ WF_vars(Boot) /\ WF_vars(System)
-----------------------------------------------------------------------------
\* Every variable keeps its type.
TypeOK ==
  /\ bus \in BusModes /\ process \in Alive \cup {"down", "safe", "off"}
  /\ {chip, current, asked} \subseteq [Channels -> Volts]
  /\ {initialized, result, heating} \subseteq BOOLEAN
  /\ stack \in Seq(Frames)

\* CH1 gets to 0 V, which blocks the boiler, only by a climate command that
\* asked for it: no error path, retry or shutdown puts it there
\* (OPERATIONS.md:133, dac.rs:9-11).
Ch1ZeroOnlyWhenAsked == [][chip'[1] = 0 /\ chip[1] # 0 => asked[1] = 0]_vars

\* CH0 is raised only to the voltage the controller asks for at that moment,
\* through however many retries and nested shutdowns the call got there.
RodDrivenOnlyAsAsked == [][chip'[0] > chip[0] => chip'[0] = asked[0]]_vars

\* A call of the driver returns on a bus that is dead or alive for good.
CallsReturn == <>[](bus # "flaky") => []<>(stack = <<>>)

\* When the process is gone, however it went, CH0 gets to 0 V if the bus works:
\* dac-safe or the initialize of the next start takes it there.
DeadProcessEndsAtZero ==
  [](process = "down" /\ [](bus = "up") => <>(chip[0] = 0))

\* The set_voltage(0.0) of a stop is in progress, called by nothing else.
Stopping ==
  /\ process = "up" /\ ~heating /\ stack # <<>>
  /\ LET call == stack[Len(stack)] IN call.op = "set" /\ call.ch = 0 /\ call.v = 0

\* A stop takes the rod to 0 V whatever fails meanwhile (OPERATIONS.md:131), if
\* the process lives on, does not heat again and the bus works in the end.
\* Violated: a set_voltage(0.0) whose transfers all fail gives up, and nobody
\* repeats it.
StoppedRodEndsAtZero ==
  [](Stopping /\ [](process = "up" /\ ~heating) /\ <>[](bus = "up")
       => <>[](chip[0] = 0))
=============================================================================
