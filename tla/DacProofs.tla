------------------------------ MODULE DacProofs ------------------------------
(***************************************************************************)
(* What the DAC's driver does to the two channels, for every voltage, any  *)
(* number of attempts and nested calls of any depth: each call that is     *)
(* still on the stack writes the voltage that was asked for last, however  *)
(* often it is retried, and everything else writes the fallback.           *)
(***************************************************************************)
EXTENDS Dac, SequenceTheorems, TLAPS

\* A call of set_voltage carries what was asked of its channel.
AsAsked(f) == f.op = "set" => f.v = asked[f.ch]
CallsAsAsked == \A i \in 1 .. Len(stack) : AsAsked(stack[i])

IInv == TypeOK /\ CallsAsAsked

-----------------------------------------------------------------------------
(* The call stack.                                                         *)

\* The frames the driver makes.
LEMMA NewFrames ==
  /\ \A n \in Nat : Initializing(n) \in Frames /\ AsAsked(Initializing(n))
  /\ Shutting \in Frames /\ AsAsked(Shutting)
  /\ \A c \in Channels, v \in Volts :
       Setting(c, v) \in Frames /\ Setting(c, v).v = v /\ Setting(c, v).ch = c
  BY VoltsAssumption DEF Initializing, Shutting, Setting, Frames, Pcs, Channels, AsAsked

\* The constants.
LEMMA Constants ==
  /\ Volts \subseteq Nat /\ 0 \in Volts /\ Safe \in Volts
  /\ Attempts \in Nat /\ StartAttempts \in Nat
  /\ Fallback \in [Channels -> Volts] /\ Fallback[0] = 0 /\ Fallback[1] = Safe
  BY VoltsAssumption, AttemptsAssumption DEF Fallback, Channels

\* The innermost call returns.
LEMMA Returning ==
  ASSUME IInv, stack # <<>>
  PROVE  /\ Top \in Frames /\ AsAsked(Top) /\ Tail(stack) \in Seq(Frames)
         /\ \A i \in 1 .. Len(Tail(stack)) : AsAsked(Tail(stack)[i])
<1>1. stack \in Seq(Frames) /\ CallsAsAsked
  BY DEF IInv, TypeOK
<1>2. /\ Len(stack) \in Nat /\ Len(stack) >= 1 /\ stack \in [1 .. Len(stack) -> Frames]
  BY <1>1, EmptySeq, LenProperties
<1>3. Top \in Frames /\ AsAsked(Top)
  BY <1>1, <1>2 DEF Top, CallsAsAsked
<1>4. /\ Tail(stack) \in Seq(Frames) /\ Len(Tail(stack)) = Len(stack) - 1
      /\ \A i \in 1 .. Len(Tail(stack)) : Tail(stack)[i] = stack[i + 1]
  BY <1>1, HeadTailProperties
<1>5. ASSUME NEW i \in 1 .. Len(Tail(stack)) PROVE AsAsked(Tail(stack)[i])
  BY <1>1, <1>2, <1>4, <1>5 DEF CallsAsAsked
<1> QED
  BY <1>3, <1>4, <1>5

\* A frame on top of a stack.
LEMMA Pushing ==
  ASSUME NEW s \in Seq(Frames), \A i \in 1 .. Len(s) : AsAsked(s[i]),
         NEW f \in Frames, AsAsked(f)
  PROVE  /\ <<f>> \o s \in Seq(Frames)
         /\ \A i \in 1 .. Len(<<f>> \o s) : AsAsked((<<f>> \o s)[i])
<1>1. <<f>> \in Seq(Frames) /\ Len(<<f>>) = 1 /\ <<f>>[1] = f /\ Len(s) \in Nat
  BY LenProperties
<1>2. /\ <<f>> \o s \in Seq(Frames) /\ Len(<<f>> \o s) = 1 + Len(s)
      /\ \A i \in 1 .. 1 + Len(s) : (<<f>> \o s)[i] = IF i <= 1 THEN f ELSE s[i - 1]
  <2>1. /\ <<f>> \o s \in Seq(Frames)
        /\ Len(<<f>> \o s) = Len(<<f>>) + Len(s)
        /\ \A i \in 1 .. Len(<<f>>) + Len(s) :
             (<<f>> \o s)[i] = IF i <= Len(<<f>>) THEN <<f>>[i] ELSE s[i - Len(<<f>>)]
    BY <1>1, ConcatProperties
  <2> QED
    BY <1>1, <2>1
<1>3. ASSUME NEW i \in 1 .. Len(<<f>> \o s) PROVE AsAsked((<<f>> \o s)[i])
  <2>1. CASE i = 1
    BY <1>1, <1>2, <2>1
  <2>2. CASE i # 1
    <3>1. i - 1 \in 1 .. Len(s) /\ (<<f>> \o s)[i] = s[i - 1]
      BY <1>1, <1>2, <1>3, <2>2
    <3> QED
      BY <3>1
  <2> QED
    BY <2>1, <2>2
<1> QED
  BY <1>2, <1>3

\* The stacks a step of the driver may leave.
StackOK(s) == s \in Seq(Frames) /\ \A i \in 1 .. Len(s) : AsAsked(s[i])

LEMMA Stacks ==
  ASSUME IInv, stack # <<>>
  PROVE  /\ StackOK(Tail(stack))
         /\ \A pc \in Pcs : StackOK(GoTo(pc))
         /\ \A pc \in Pcs, n \in Nat : StackOK(<<Initializing(n)>> \o GoTo(pc))
         /\ \A pc \in Pcs : StackOK(<<Shutting>> \o GoTo(pc))
<1>1. StackOK(Tail(stack)) /\ Top \in Frames /\ AsAsked(Top)
  BY Returning DEF StackOK
<1>2. ASSUME NEW pc \in Pcs PROVE StackOK(GoTo(pc))
  <2>1. [Top EXCEPT !.pc = pc] \in Frames /\ AsAsked([Top EXCEPT !.pc = pc])
    BY <1>1 DEF Frames, AsAsked
  <2> QED
    BY <1>1, <2>1, Pushing DEF StackOK, GoTo
<1>3. ASSUME NEW pc \in Pcs, NEW n \in Nat PROVE StackOK(<<Initializing(n)>> \o GoTo(pc))
  BY <1>2, NewFrames, Pushing DEF StackOK
<1>4. ASSUME NEW pc \in Pcs PROVE StackOK(<<Shutting>> \o GoTo(pc))
  BY <1>2, NewFrames, Pushing DEF StackOK
<1> QED
  BY <1>1, <1>2, <1>3, <1>4

-----------------------------------------------------------------------------
(* A step.                                                                 *)

\* A channel keeps its voltage, or gets the one asked for or the fallback.
Driven ==
  /\ chip' \in [Channels -> Volts]
  /\ \A c \in Channels : chip'[c] \in {chip[c], asked[c], Fallback[c]}

LEMMA Written ==
  ASSUME IInv, NEW c \in Channels, NEW v \in {asked[c], Fallback[c]},
         NEW ok \in BOOLEAN, Write(c, v, ok)
  PROVE  Driven
<1>1. chip \in [Channels -> Volts] /\ asked \in [Channels -> Volts]
  BY DEF IInv, TypeOK
<1>2. v \in Volts
  BY <1>1, Constants
<1>3. chip' = [chip EXCEPT ![c] = v] \/ chip' = chip
  BY DEF Write
<1> QED
  BY <1>1, <1>2, <1>3 DEF Driven

LEMMA Untouched == ASSUME IInv, UNCHANGED chip PROVE Driven
  BY DEF IInv, TypeOK, Driven

\* The driver's own variables after one of its steps.
DriverOK ==
  /\ StackOK(stack') /\ Driven /\ current' \in [Channels -> Volts]
  /\ initialized' \in BOOLEAN /\ result' \in BOOLEAN

LEMMA ReinitializeOK ==
  ASSUME IInv, stack # <<>>, NEW pc \in Pcs, Reinitialize(pc)
  PROVE  StackOK(stack') /\ initialized' = FALSE
  BY Stacks, Constants DEF Reinitialize

LEMMA GiveUpOK ==
  ASSUME IInv, stack # <<>>, NEW c \in Channels, GiveUp(c)
  PROVE  StackOK(stack') /\ current' \in [Channels -> Volts]
<1>1. current \in [Channels -> Volts]
  BY DEF IInv, TypeOK
<1> QED
  BY <1>1, Stacks, Constants DEF GiveUp, Return

LEMMA DriverStep == ASSUME IInv, Driver PROVE DriverOK
<1>1. /\ current \in [Channels -> Volts] /\ initialized \in BOOLEAN /\ result \in BOOLEAN
      /\ asked \in [Channels -> Volts]
  BY DEF IInv, TypeOK
<1>2. stack # <<>>
  BY DEF Driver, At, SetCheck, SetChecked, SetWrite, SetRetry, InitProbe, InitReturns,
         ShutdownWrite, ShutdownRetry
<1>3. /\ Top.ch \in Channels /\ Top.left \in Nat
      /\ Top.op = "set" => Top.v = asked[Top.ch]
  BY <1>2, Returning DEF Frames, AsAsked
<1>4. {"checked", "write", "retry", "probed"} \subseteq Pcs
  BY DEF Pcs
<1>5. CASE SetCheck
  <2>1. StackOK(stack') /\ initialized' \in BOOLEAN
    BY <1>1, <1>2, <1>4, <1>5, ReinitializeOK, Stacks DEF SetCheck
  <2> QED
    BY <1>1, <1>5, <2>1, Untouched DEF SetCheck, DriverOK
<1>6. CASE SetChecked
  <2>1. StackOK(stack') /\ current' \in [Channels -> Volts]
    BY <1>1, <1>2, <1>3, <1>4, <1>6, GiveUpOK, Stacks DEF SetChecked
  <2> QED
    BY <1>1, <1>6, <2>1, Untouched DEF SetChecked, DriverOK
<1>7. CASE SetWrite
  <2>1. PICK ok \in BOOLEAN :
          /\ Write(Top.ch, Top.v, ok)
          /\ IF ok THEN Return /\ UNCHANGED initialized ELSE Reinitialize("retry")
    BY <1>7 DEF SetWrite
  <2>2. Driven
    BY <1>3, <1>7, <2>1, Written DEF SetWrite, At
  <2>3. StackOK(stack') /\ initialized' \in BOOLEAN
    BY <1>1, <1>2, <1>4, <2>1, ReinitializeOK, Stacks DEF Return
  <2> QED
    BY <1>1, <1>7, <2>2, <2>3 DEF SetWrite, DriverOK
<1>8. CASE SetRetry
  <2>1. StackOK(stack') /\ current' \in [Channels -> Volts]
    BY <1>1, <1>2, <1>3, <1>8, GiveUpOK, Stacks DEF SetRetry, Return
  <2>2. Driven
    BY <1>3, <1>8, Written, Untouched DEF SetRetry, At
  <2> QED
    BY <1>1, <1>8, <2>1, <2>2 DEF SetRetry, DriverOK
<1>9. CASE InitProbe
  <2>1. PICK ok \in BOOLEAN :
          IF ok THEN /\ initialized' = TRUE /\ current' = Fallback
                     /\ stack' = <<Shutting>> \o GoTo("probed")
                ELSE /\ stack' = <<[Top EXCEPT !.left = OneLess(Top.left)]>> \o Tail(stack)
                     /\ UNCHANGED <<initialized, current>>
    BY <1>9 DEF InitProbe
  <2>2. CASE ok
    BY <1>1, <1>2, <1>4, <1>9, <2>1, <2>2, Stacks, Constants, Untouched
       DEF InitProbe, DriverOK
  <2>3. CASE ~ok
    <3>1. OneLess(Top.left) \in Nat
      BY <1>3, <1>9 DEF InitProbe, AttemptsLeft, OneLess
    <3>2. LET f == [Top EXCEPT !.left = OneLess(Top.left)] IN f \in Frames /\ AsAsked(f)
      BY <1>2, <3>1, Returning DEF Frames, AsAsked
    <3>3. StackOK(stack')
      BY <1>2, <2>1, <2>3, <3>2, Returning, Pushing DEF StackOK
    <3> QED
      BY <1>1, <1>9, <2>1, <2>3, <3>3, Untouched DEF InitProbe, DriverOK
  <2> QED
    BY <2>2, <2>3
<1>10. CASE InitReturns
  BY <1>1, <1>2, <1>10, Stacks, Untouched DEF InitReturns, Return, DriverOK
<1>11. ASSUME NextChannel, Top.op = "shutdown" PROVE StackOK(stack')
  <2>1. LET f == [Top EXCEPT !.ch = 1, !.pc = "write"] IN f \in Frames /\ AsAsked(f)
    BY <1>2, <1>11, Returning DEF Frames, AsAsked, Channels, Pcs
  <2>2. StackOK(<<[Top EXCEPT !.ch = 1, !.pc = "write"]>> \o Tail(stack))
    BY <1>2, <2>1, Returning, Pushing DEF StackOK
  <2> QED
    BY <1>2, <1>11, <2>2, Stacks DEF NextChannel, Return
<1>12. CASE ShutdownWrite
  <2>1. PICK ok \in BOOLEAN :
          /\ Write(Top.ch, Fallback[Top.ch], ok)
          /\ IF ok THEN NextChannel /\ UNCHANGED initialized ELSE Reinitialize("retry")
    BY <1>12 DEF ShutdownWrite
  <2>2. Driven
    BY <1>3, <2>1, Written
  <2>3. StackOK(stack') /\ initialized' \in BOOLEAN
    BY <1>1, <1>2, <1>4, <1>11, <1>12, <2>1, ReinitializeOK DEF ShutdownWrite, At
  <2> QED
    BY <1>1, <1>12, <2>2, <2>3 DEF ShutdownWrite, DriverOK
<1>13. CASE ShutdownRetry
  <2>1. StackOK(stack')
    BY <1>11, <1>13 DEF ShutdownRetry, At
  <2>2. Driven
    BY <1>3, <1>13, Written DEF ShutdownRetry
  <2> QED
    BY <1>1, <1>13, <2>1, <2>2 DEF ShutdownRetry, DriverOK
<1> QED
  BY <1>5, <1>6, <1>7, <1>8, <1>9, <1>10, <1>12, <1>13 DEF Driver

\* A caller has one call to make, and asks for what it carries.
LEMMA CallStep ==
  ASSUME IInv, NEW c \in Channels, NEW v \in Volts, Call(c, v)
  PROVE  /\ stack' \in Seq(Frames) /\ CallsAsAsked' /\ UNCHANGED <<bus, chip, initialized, result>>
         /\ {current', asked'} \subseteq [Channels -> Volts]
<1>1. {current, asked} \subseteq [Channels -> Volts]
  BY DEF IInv, TypeOK
<1>2. {current', asked'} \subseteq [Channels -> Volts] /\ asked'[c] = v
  BY <1>1 DEF Call
<1>3. /\ stack' = <<Setting(c, v)>> /\ Setting(c, v) \in Frames
      /\ Setting(c, v).v = v /\ Setting(c, v).ch = c
  BY NewFrames DEF Call
<1>4. /\ stack' \in Seq(Frames) /\ Len(stack') = 1 /\ stack'[1] = Setting(c, v)
  BY <1>3
<1>5. CallsAsAsked'
  BY <1>2, <1>3, <1>4 DEF CallsAsAsked, AsAsked
<1> QED
  BY <1>2, <1>4, <1>5 DEF Call

\* A start and the last shutdown call the driver as well.
LEMMA OneFrame ==
  ASSUME NEW f \in Frames, f.op # "set", stack' = <<f>>
  PROVE  stack' \in Seq(Frames) /\ CallsAsAsked'
<1>1. stack' \in Seq(Frames) /\ Len(stack') = 1 /\ stack'[1] = f
  OBVIOUS
<1> QED
  BY <1>1 DEF CallsAsAsked, AsAsked

\* No step that is not one of the driver's touches what is on the stack but
\* to begin it or to drop it.
LEMMA InitInv == ASSUME Init PROVE IInv
<1>1. stack \in Seq(Frames) /\ Len(stack) = 1 /\ stack[1] = Initializing(StartAttempts)
  BY NewFrames, Constants DEF Init
<1>2. CallsAsAsked
  BY <1>1, NewFrames, Constants DEF CallsAsAsked
<1>3. asked \in [Channels -> Volts]
  BY Constants DEF Init
<1> QED
  BY <1>1, <1>2, <1>3, Constants DEF Init, IInv, TypeOK, Alive

LEMMA StepInv == ASSUME IInv, [Next]_vars PROVE IInv' /\ [Driven]_vars
<1> USE DEF IInv
<1>1. TypeOK /\ asked \in [Channels -> Volts]
  BY DEF TypeOK
<1>2. CASE Driver
  <2>1. DriverOK
    BY <1>2, DriverStep
  <2>2. UNCHANGED <<bus, process, heating, asked>>
    BY <1>2 DEF Driver
  <2>3. CallsAsAsked'
    BY <2>1, <2>2 DEF DriverOK, StackOK, CallsAsAsked, AsAsked
  <2> QED
    BY <1>1, <2>1, <2>2, <2>3 DEF TypeOK, DriverOK, Driven, StackOK
<1>3. CASE Caller
  <2>1. PICK c \in Channels, v \in Volts : Call(c, v)
    BY <1>1, <1>3, Constants DEF Caller, Boot, Heat, StopHeating, ClimateCommand,
       EmergencyShutdown, Channels
  <2>2. process' \in Alive /\ heating' \in BOOLEAN
    BY <1>1, <1>3 DEF Caller, Boot, Heat, StopHeating, ClimateCommand, EmergencyShutdown,
       Alive, TypeOK
  <2> QED
    BY <1>1, <2>1, <2>2, CallStep, Untouched DEF TypeOK
<1>4. CASE LastShutdown
  <2>1. stack' \in Seq(Frames) /\ CallsAsAsked'
    BY <1>4, NewFrames, OneFrame DEF LastShutdown, Shutting
  <2> QED
    BY <1>1, <1>4, <2>1, Constants, Untouched DEF LastShutdown, TypeOK, Alive
<1>5. CASE Ended
  BY <1>1, <1>5, Untouched DEF Ended, TypeOK, CallsAsAsked, AsAsked
<1>6. CASE DacSafe
  <2>1. Driven
    <3>1. CASE SafeCh0
      BY <3>1, Constants, Written DEF SafeCh0, Channels
    <3>2. CASE SafeCh1
      BY <3>2, Constants, Written DEF SafeCh1, Channels
    <3> QED
      BY <1>6, <3>1, <3>2 DEF DacSafe
  <2>2. process' \in {"safe", "off"}
    BY <1>6 DEF DacSafe, SafeCh0, SafeCh1
  <2>3. UNCHANGED <<bus, current, initialized, stack, result, heating, asked>>
    BY <1>6 DEF DacSafe
  <2> QED
    BY <1>1, <2>1, <2>2, <2>3 DEF TypeOK, CallsAsAsked, AsAsked, Driven
<1>7. CASE Restart
  <2>1. stack' \in Seq(Frames) /\ CallsAsAsked'
    BY <1>7, NewFrames, Constants, OneFrame DEF Restart, Initializing
  <2> QED
    BY <1>1, <1>7, <2>1, Constants, Untouched DEF Restart, TypeOK, Alive
<1>8. CASE Crash
  <2>1. stack' \in Seq(Frames) /\ CallsAsAsked'
    BY <1>8 DEF Crash, CallsAsAsked
  <2>2. asked' \in [Channels -> Volts]
    BY <1>1, <1>8, Constants DEF Crash
  <2> QED
    BY <1>1, <1>8, <2>1, <2>2, Untouched DEF Crash, TypeOK
<1>9. CASE BusChanges
  BY <1>1, <1>9, Untouched DEF BusChanges, TypeOK, CallsAsAsked, AsAsked
<1>10. CASE UNCHANGED vars
  BY <1>1, <1>10 DEF vars, TypeOK, CallsAsAsked, AsAsked
<1> QED
  BY <1>2, <1>3, <1>4, <1>5, <1>6, <1>7, <1>8, <1>9, <1>10 DEF Next, System

LEMMA Invariance == Spec => []IInv
<1>1. IInv /\ [Next]_vars => IInv'
  BY StepInv
<1> QED
  BY InitInv, <1>1, PTL DEF Spec

-----------------------------------------------------------------------------
(* The theorems.                                                           *)

\* The variables keep their types, the call stack among them.
THEOREM TypeCorrect == Spec => []TypeOK
<1>1. IInv => TypeOK
  BY DEF IInv
<1> QED
  BY <1>1, Invariance, PTL

\* Every write of every step, nested calls, retries and dac-safe included.
LEMMA EveryStepDrives == Spec => [][IInv /\ Driven]_vars
<1>1. IInv /\ [Next]_vars => [IInv /\ Driven]_vars
  BY StepInv
<1> QED
  BY <1>1, Invariance, PTL DEF Spec

\* No error path, retry or shutdown blocks the boiler, provided that the
\* configuration has a safe voltage that does not.
THEOREM OnlyACommandBlocks == ASSUME Safe # 0 PROVE Spec => Ch1ZeroOnlyWhenAsked
<1>1. IInv /\ Driven => (chip'[1] = 0 /\ chip[1] # 0 => asked[1] = 0)
  BY Constants DEF Driven, Channels
<1>2. [IInv /\ Driven]_vars => [chip'[1] = 0 /\ chip[1] # 0 => asked[1] = 0]_vars
  BY <1>1
<1> QED
  BY <1>2, EveryStepDrives, PTL DEF Ch1ZeroOnlyWhenAsked

\* However deep the calls are nested, nothing raises the rod's voltage but to
\* what the controller asks for at that moment.
THEOREM RodFollowsTheController == Spec => RodDrivenOnlyAsAsked
<1>1. IInv /\ Driven => (chip'[0] > chip[0] => chip'[0] = asked[0])
  <2> SUFFICES ASSUME IInv, Driven, chip'[0] > chip[0] PROVE chip'[0] = asked[0]
    OBVIOUS
  <2>1. chip[0] \in Nat /\ chip'[0] \in {chip[0], asked[0], 0}
    BY Constants DEF IInv, TypeOK, Driven, Channels
  <2> QED
    BY <2>1
<1>2. [IInv /\ Driven]_vars => [chip'[0] > chip[0] => chip'[0] = asked[0]]_vars
  BY <1>1
<1> QED
  BY <1>2, EveryStepDrives, PTL DEF RodDrivenOnlyAsAsked
=============================================================================
