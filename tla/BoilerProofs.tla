---------------------------- MODULE BoilerProofs ----------------------------
(***************************************************************************)
(* The copies of the boiler's setpoint agree between two commands, for     *)
(* every set of voltages, any number of commands and queues of any length: *)
(* the thread makes them one after the other, a crash may come between any *)
(* two, and each stage knows which copies already follow CH1.              *)
(***************************************************************************)
EXTENDS Boiler, SequenceTheorems, TLAPS

\* Which copies stand for CH1 after each step of a command or of the start.
SavedFollows == unsaved \/ saved \in {ch1, None}
CopiesSoFar ==
  /\ process = "down" => handling = "boot"
  /\ handling \in {"desire", "echo"} => SavedFollows
  /\ handling = "echo" => desired = Blocked(ch1)
  /\ handling = "idle" =>
       \E v \in Volts :
         /\ desired = Blocked(v) /\ (unsaved \/ saved \in {v, None})
         /\ ch1 \in {v, Safe} /\ climate \in {ClimateOf(v), ClimateOf(ch1)}

\* The messages of a session.
Messages == {"list", "subscribe", "on", "off", "switch", "done"}
QueuesOK == toEsp \in Seq(Messages) /\ fromEsp \in Seq(Messages)

IInv == TypeOK /\ QueuesOK /\ CopiesSoFar

-----------------------------------------------------------------------------
(* The controller's side.                                                  *)

\* TypeOK without the session.
ControllerTypes ==
  /\ commands \in Seq(Commands) /\ Len(commands) <= MaxQueue
  /\ handling \in {"boot", "idle", "save", "desire", "echo"} /\ ch1 \in Volts
  /\ saved \in Volts \cup {None} /\ climate \in [heat : BOOLEAN, target : Volts]
  /\ echoed \in {None} \cup (BOOLEAN \X BOOLEAN)
  /\ unsaved \in BOOLEAN /\ heating \in BOOLEAN
  /\ desired \in BOOLEAN \cup {None} /\ seq \in Nat
SessionTypes ==
  /\ key \in BOOLEAN /\ subscribed \in BOOLEAN /\ actual \in BOOLEAN \cup {None}
  /\ lastSent \in Nat /\ session \in {"none", "open"}
  /\ Len(toEsp) <= MaxQueue /\ Len(fromEsp) <= MaxQueue /\ QueuesOK
OtherTypes == process \in {"up", "down"} /\ relay \in BOOLEAN /\ calm \in BOOLEAN

LEMMA Parts == TypeOK /\ QueuesOK <=> ControllerTypes /\ SessionTypes /\ OtherTypes
  BY DEF TypeOK, ControllerTypes, SessionTypes, OtherTypes

\* A start and the end of a session leave the queues empty.
LEMMA EmptyQueues ==
  <<>> \in Seq(Commands) /\ <<>> \in Seq(Messages) /\ Len(<<>>) = 0 /\ Len(<<>>) <= MaxQueue
  BY BoundAssumption

\* What the echo tells HA.
LEMMA ClimateType ==
  ASSUME NEW v \in Volts
  PROVE  ClimateOf(v) \in [heat : BOOLEAN, target : Volts] /\ Blocked(v) \in BOOLEAN
  BY VoltsAssumption DEF ClimateOf, Blocked

\* A command is queued at the end and taken from the front.
LEMMA CommandQueue ==
  ASSUME commands \in Seq(Commands)
  PROVE  /\ Len(commands) \in Nat
         /\ \A c \in Commands : /\ Append(commands, c) \in Seq(Commands)
                                /\ Len(Append(commands, c)) = Len(commands) + 1
         /\ commands # <<>> => /\ Head(commands) \in Commands
                               /\ Tail(commands) \in Seq(Commands)
                               /\ Len(Tail(commands)) = Len(commands) - 1
  BY LenProperties, AppendProperties, HeadTailProperties

LEMMA ControllerSteps ==
  ASSUME IInv, Command \/ Thread \/ RodToggles \/ FallBack
  PROVE  ControllerTypes' /\ CopiesSoFar' /\ UNCHANGED <<process, actual, link, relay, calm>>
<1>1. ControllerTypes /\ process \in {"up", "down"} /\ CopiesSoFar
  BY Parts DEF IInv, OtherTypes
<1>2. Safe \in Volts /\ None \notin Nat /\ Volts \subseteq Nat
  BY VoltsAssumption, NoneAssumption
<1>3. CASE Command
  <2>1. PICK c \in Commands : commands' = Append(commands, c)
    BY <1>3 DEF Command
  <2>2. commands' \in Seq(Commands) /\ Len(commands') <= MaxQueue
    <3>1. Len(commands) < MaxQueue
      BY <1>3 DEF Command
    <3> QED
      BY <1>1, <2>1, <3>1, CommandQueue, BoundAssumption DEF ControllerTypes
  <2> QED
    BY <1>1, <1>3, <2>2 DEF Command, ControllerTypes, CopiesSoFar, SavedFollows, link, shared
<1>4. CASE Handle
  <2>1. Head(commands) \in Commands /\ commands' \in Seq(Commands) /\ Len(commands') <= MaxQueue
    <3>1. Len(Tail(commands)) = Len(commands) - 1 /\ Len(commands) \in Nat
      BY <1>1, <1>4, CommandQueue DEF Handle, ControllerTypes
    <3> QED
      BY <1>1, <1>4, <3>1, CommandQueue, BoundAssumption DEF Handle, ControllerTypes
  <2>2. ch1' \in Volts
    <3>1. climate.target \in Volts
      BY <1>1 DEF ControllerTypes
    <3>2. Head(commands).target \in Volts \cup {None}
      BY <2>1 DEF Commands
    <3> QED
      BY <1>4, <3>1, <3>2, VoltsAssumption DEF Handle, CommandVolts
  <2> QED
    BY <1>1, <1>4, <2>1, <2>2 DEF Handle, ControllerTypes, CopiesSoFar, link, shared
<1>5. CASE Save
  <2>1. ControllerTypes'
    BY <1>1, <1>5 DEF Save, SaveCh1, ControllerTypes, link, shared
  <2> QED
    BY <1>1, <1>5, <2>1 DEF Save, SaveCh1, CopiesSoFar, SavedFollows, link, shared
<1>6. CASE Desire
  <2>1. desired' \in BOOLEAN /\ seq' \in Nat
    BY <1>1, <1>6, ClimateType DEF Desire, SetDesired, ControllerTypes
  <2>2. ControllerTypes'
    BY <1>1, <1>6, <2>1 DEF Desire, ControllerTypes, link
  <2> QED
    BY <1>1, <1>6, <2>2 DEF Desire, SetDesired, CopiesSoFar, SavedFollows, link
<1>7. CASE Echo
  <2>1. ControllerTypes'
    BY <1>1, <1>7, ClimateType DEF Echo, EchoClimate, ControllerTypes, link, shared
  <2>2. /\ desired' = Blocked(ch1) /\ (unsaved' \/ saved' \in {ch1, None})
        /\ ch1' = ch1 /\ climate' = ClimateOf(ch1) /\ ch1 \in Volts
    BY <1>1, <1>7 DEF Echo, EchoClimate, CopiesSoFar, SavedFollows, shared, ControllerTypes
  <2>3. \E v \in Volts :
          /\ desired' = Blocked(v) /\ (unsaved' \/ saved' \in {v, None})
          /\ ch1' \in {v, Safe} /\ climate' \in {ClimateOf(v), ClimateOf(ch1')}
    BY <2>2
  <2>4. CopiesSoFar'
    BY <1>7, <2>3 DEF Echo, CopiesSoFar, ClimateOf
  <2> QED
    BY <1>7, <2>1, <2>4 DEF Echo, link
<1>8. CASE WatchdogEcho
  <2>1. echoed' \in BOOLEAN \X BOOLEAN
    <3>1. (ch1 > 0) \in BOOLEAN /\ heating \in BOOLEAN /\ echoed' = <<ch1 > 0, heating>>
      BY <1>1, <1>2, <1>8 DEF WatchdogEcho, ControllerTypes
    <3> QED
      BY <3>1, Zenon
  <2>2. ControllerTypes'
    BY <1>1, <1>8, <2>1, ClimateType DEF WatchdogEcho, ControllerTypes, link, shared
  <2>3. PICK v \in Volts :
          desired = Blocked(v) /\ (unsaved \/ saved \in {v, None}) /\ ch1 \in {v, Safe}
    BY <1>1, <1>8 DEF WatchdogEcho, CopiesSoFar
  <2>4. CopiesSoFar'
    BY <1>1, <1>8, <2>3 DEF WatchdogEcho, CopiesSoFar, ClimateOf, shared
  <2> QED
    BY <1>8, <2>2, <2>4 DEF WatchdogEcho, link
<1>9. CASE Boot
  <2>1. ch1' \in Volts /\ SavedFollows'
    BY <1>1, <1>2, <1>9 DEF Boot, Restored, ControllerTypes, SavedFollows
  <2> QED
    BY <1>1, <1>9, <2>1 DEF Boot, ControllerTypes, CopiesSoFar, link, shared
<1>10. CASE RodToggles
  <2>1. ControllerTypes'
    BY <1>1, <1>10 DEF RodToggles, ControllerTypes, link, shared
  <2> QED
    BY <1>1, <1>10, <2>1 DEF RodToggles, CopiesSoFar, link, shared
<1>11. CASE FallBack
  <2>1. ControllerTypes'
    BY <1>1, <1>2, <1>11 DEF FallBack, ControllerTypes, link, shared
  <2>2. PICK v \in Volts :
          /\ desired = Blocked(v) /\ (unsaved \/ saved \in {v, None})
          /\ ch1 \in {v, Safe} /\ climate \in {ClimateOf(v), ClimateOf(ch1)}
    BY <1>1, <1>11 DEF FallBack, CopiesSoFar
  <2>3. climate \in {ClimateOf(v), ClimateOf(Safe)}
    BY <2>2
  <2>4. CopiesSoFar'
    BY <1>1, <1>11, <2>2, <2>3 DEF FallBack, CopiesSoFar, ClimateOf, shared
  <2> QED
    BY <1>11, <2>1, <2>4 DEF FallBack, link
<1> QED
  BY <1>3, <1>4, <1>5, <1>6, <1>7, <1>8, <1>9, <1>10, <1>11 DEF Thread

-----------------------------------------------------------------------------
(* The session and the ESP.                                                *)

\* A message, or two, at the end of a queue; or one from its front.
LEMMA MessageQueue ==
  ASSUME NEW q \in Seq(Messages)
  PROVE  /\ Len(q) \in Nat
         /\ \A m \in Messages : Append(q, m) \in Seq(Messages) /\ Len(Append(q, m)) = Len(q) + 1
         /\ \A m \in Messages : q \o <<m>> \in Seq(Messages) /\ Len(q \o <<m>>) = Len(q) + 1
         /\ \A m, n \in Messages :
              q \o <<m, n>> \in Seq(Messages) /\ Len(q \o <<m, n>>) = Len(q) + 2
         /\ q # <<>> => Tail(q) \in Seq(Messages) /\ Len(Tail(q)) = Len(q) - 1
<1>1. Len(q) \in Nat
  BY LenProperties
<1>2. \A m \in Messages : Append(q, m) \in Seq(Messages) /\ Len(Append(q, m)) = Len(q) + 1
  BY AppendProperties
<1>3. ASSUME NEW m \in Messages
      PROVE  q \o <<m>> \in Seq(Messages) /\ Len(q \o <<m>>) = Len(q) + 1
  <2>1. <<m>> \in Seq(Messages) /\ Len(<<m>>) = 1
    OBVIOUS
  <2> QED
    BY <2>1, ConcatProperties
<1>4. ASSUME NEW m \in Messages, NEW n \in Messages
      PROVE  q \o <<m, n>> \in Seq(Messages) /\ Len(q \o <<m, n>>) = Len(q) + 2
  <2>1. <<m, n>> \in Seq(Messages) /\ Len(<<m, n>>) = 2
    OBVIOUS
  <2> QED
    BY <2>1, ConcatProperties
<1>5. q # <<>> => Tail(q) \in Seq(Messages) /\ Len(Tail(q)) = Len(q) - 1
  BY HeadTailProperties
<1> QED
  BY <1>1, <1>2, <1>3, <1>4, <1>5

LEMMA SessionSteps ==
  ASSUME IInv, Session \/ EspHandles \/ Drop \/ RelayToggles
  PROVE  SessionTypes' /\ relay' \in BOOLEAN /\ UNCHANGED <<process, hvars, shared, calm>>
<1>1. SessionTypes /\ relay \in BOOLEAN /\ desired \in BOOLEAN \cup {None} /\ seq \in Nat
  BY Parts DEF IInv, OtherTypes, ControllerTypes
<1>2. toEsp \in Seq(Messages) /\ fromEsp \in Seq(Messages) /\ MaxQueue \in Nat /\ 2 < MaxQueue
  BY <1>1, BoundAssumption DEF SessionTypes, QueuesOK
<1>3. /\ Len(toEsp) \in Nat /\ Len(toEsp) <= MaxQueue
      /\ Len(fromEsp) \in Nat /\ Len(fromEsp) <= MaxQueue
  BY <1>1, <1>2, MessageQueue DEF SessionTypes
<1>4. /\ \A on : Switch(on) \in Messages
      /\ {"list", "subscribe", "switch", "done"} \subseteq Messages
  BY DEF Switch, Messages
<1>5. CASE Connect
  <2>1. toEsp' \in Seq(Messages) /\ Len(toEsp') = 1
    BY <1>4, <1>5 DEF Connect
  <2> QED
    BY <1>1, <1>2, <1>5, <2>1 DEF Connect, SessionTypes, QueuesOK
<1>6. ASSUME NEW m \in Messages, SendEsp(m) PROVE toEsp' \in Seq(Messages) /\ Len(toEsp') <= MaxQueue
  BY <1>2, <1>3, <1>6, MessageQueue DEF SendEsp
<1>7. CASE Poll
  <2>1. toEsp' \in Seq(Messages) /\ Len(toEsp') <= MaxQueue
    BY <1>4, <1>6, <1>7 DEF Poll
  <2> QED
    BY <1>1, <1>7, <2>1 DEF Poll, SessionTypes, QueuesOK
<1>8. CASE Consistency
  <2>1. toEsp' \in Seq(Messages) /\ Len(toEsp') <= MaxQueue
    BY <1>4, <1>6, <1>8 DEF Consistency
  <2> QED
    BY <1>1, <1>8, <2>1 DEF Consistency, SessionTypes, QueuesOK
<1>9. CASE Receive
  <2>1. fromEsp' \in Seq(Messages) /\ Len(fromEsp') <= MaxQueue
    <3>1. fromEsp' = Tail(fromEsp) /\ fromEsp # <<>>
      BY <1>9 DEF Receive
    <3> QED
      BY <1>2, <1>3, <3>1, MessageQueue
  <2>2. toEsp' \in Seq(Messages) /\ Len(toEsp') <= MaxQueue
    <3>1. CASE UNCHANGED toEsp
      BY <1>2, <1>3, <3>1
    <3>2. CASE ListDone
      <4>1. Len(toEsp) + 1 < MaxQueue
        BY <3>2 DEF ListDone
      <4>2. \/ toEsp' = (toEsp \o <<"subscribe">>) \o <<Switch(desired)>>
            \/ toEsp' = (toEsp \o <<"subscribe">>) \o <<>>
        BY <3>2 DEF ListDone
      <4>3. toEsp \o <<"subscribe">> \in Seq(Messages) /\ Len(toEsp \o <<"subscribe">>) = Len(toEsp) + 1
        BY <1>2, <1>4, MessageQueue
      <4>4. (toEsp \o <<"subscribe">>) \o <<>> = toEsp \o <<"subscribe">>
        BY <4>3, ConcatEmptySeq
      <4>5. /\ (toEsp \o <<"subscribe">>) \o <<Switch(desired)>> \in Seq(Messages)
            /\ Len((toEsp \o <<"subscribe">>) \o <<Switch(desired)>>) = Len(toEsp) + 2
        BY <1>3, <1>4, <4>3, MessageQueue
      <4> QED
        <5>1. toEsp' \in Seq(Messages) /\ Len(toEsp') \in {Len(toEsp) + 1, Len(toEsp) + 2}
          BY <4>2, <4>3, <4>4, <4>5, Zenon
        <5> QED
          BY <1>2, <1>3, <4>1, <5>1
    <3> QED
      BY <1>9, <3>1, <3>2 DEF Receive
  <2>3. key' \in BOOLEAN /\ actual' \in BOOLEAN \cup {None}
    BY <1>1, <1>9 DEF Receive, SessionTypes
  <2> QED
    BY <1>1, <1>9, <2>1, <2>2, <2>3 DEF Receive, SessionTypes, QueuesOK
<1>10. ASSUME NEW b PROVE PushState(b) \in Seq(Messages) /\ Len(PushState(b)) <= Len(fromEsp) + 1
  BY <1>2, <1>3, <1>4, MessageQueue DEF PushState
<1>11. CASE EspHandles
  <2>1. toEsp' \in Seq(Messages) /\ Len(toEsp') <= MaxQueue
    <3>1. toEsp' = Tail(toEsp) /\ toEsp # <<>>
      BY <1>11 DEF EspHandles
    <3> QED
      BY <1>2, <1>3, <3>1, MessageQueue
  <2>2. Len(fromEsp) + 1 < MaxQueue
    BY <1>11 DEF EspHandles
  <2>3. fromEsp' \in Seq(Messages) /\ Len(fromEsp') <= MaxQueue
    <3>1. CASE fromEsp' = fromEsp \o <<"switch", "done">>
      BY <1>2, <1>3, <1>4, <2>2, <3>1, MessageQueue
    <3>2. CASE fromEsp' = Append(fromEsp, Switch(relay))
      BY <1>2, <1>3, <1>4, <2>2, <3>2, MessageQueue
    <3>3. CASE \E b : fromEsp' = PushState(b)
      <4>1. PICK b : fromEsp' = PushState(b)
        BY <3>3
      <4>2. Len(PushState(b)) \in Nat
        BY <1>10, LenProperties
      <4> QED
        BY <1>2, <1>3, <1>10, <2>2, <4>1, <4>2
    <3> QED
      BY <1>11, <3>1, <3>2, <3>3 DEF EspHandles
  <2>4. relay' \in BOOLEAN /\ subscribed' \in BOOLEAN
    BY <1>1, <1>11 DEF EspHandles, SessionTypes
  <2> QED
    BY <1>1, <1>11, <2>1, <2>3, <2>4 DEF EspHandles, SessionTypes, QueuesOK
<1>12. CASE Drop
  BY <1>1, <1>12, EmptyQueues DEF Drop, NoSession, SessionTypes, QueuesOK
<1>13. CASE RelayToggles
  <2>1. fromEsp' = PushState(~relay) /\ Len(fromEsp) < MaxQueue
    BY <1>13 DEF RelayToggles
  <2>2. fromEsp' \in Seq(Messages) /\ Len(fromEsp') <= MaxQueue
    <3>1. Len(PushState(~relay)) \in Nat
      BY <1>10, LenProperties
    <3> QED
      BY <1>2, <1>3, <1>10, <2>1, <3>1
  <2> QED
    BY <1>1, <1>13, <2>2 DEF RelayToggles, SessionTypes, QueuesOK
<1> QED
  BY <1>5, <1>7, <1>8, <1>9, <1>11, <1>12, <1>13 DEF Session

-----------------------------------------------------------------------------
(* The theorems.                                                           *)

LEMMA InitInv == ASSUME Init PROVE IInv
<1>1. ControllerTypes
  <2>1. climate \in [heat : BOOLEAN, target : Volts]
    BY VoltsAssumption DEF Init
  <2> QED
    BY <2>1, VoltsAssumption, EmptyQueues DEF Init, ControllerTypes
<1>2. SessionTypes /\ OtherTypes
  BY EmptyQueues DEF Init, SessionTypes, OtherTypes, QueuesOK
<1>3. CopiesSoFar
  BY DEF Init, CopiesSoFar
<1> QED
  BY <1>1, <1>2, <1>3, Parts DEF IInv

\* What the controller's side does not touch stays as it is for the session, and
\* the other way round.
LEMMA StepInv == ASSUME IInv, [Next]_vars PROVE IInv'
<1>1. ControllerTypes /\ SessionTypes /\ OtherTypes /\ CopiesSoFar
  BY Parts DEF IInv
<1>11. SUFFICES ControllerTypes' /\ SessionTypes' /\ OtherTypes' /\ CopiesSoFar'
  BY DEF IInv, TypeOK, ControllerTypes, SessionTypes, OtherTypes
<1>2. ASSUME UNCHANGED <<hvars, shared>> PROVE ControllerTypes'
  BY <1>1, <1>2 DEF hvars, shared, ControllerTypes
<1>3. ASSUME UNCHANGED <<hvars, shared>>, UNCHANGED process PROVE CopiesSoFar'
  BY <1>1, <1>3 DEF hvars, shared, CopiesSoFar, SavedFollows
<1>4. ASSUME UNCHANGED <<link, actual>> PROVE SessionTypes'
  BY <1>1, <1>4 DEF link, SessionTypes, QueuesOK
<1>5. CASE Command \/ Thread \/ RodToggles \/ FallBack
  BY <1>1, <1>4, <1>5, ControllerSteps DEF OtherTypes
<1>6. CASE Session \/ EspHandles \/ Drop \/ RelayToggles
  BY <1>1, <1>2, <1>3, <1>6, SessionSteps DEF OtherTypes
<1>7. CASE ProcessEnds
  <2>1. ControllerTypes'
    <3>1. climate' \in [heat : BOOLEAN, target : Volts]
      BY <1>7, VoltsAssumption DEF ProcessEnds
    <3> QED
      BY <1>1, <1>7, <3>1, VoltsAssumption, EmptyQueues DEF ProcessEnds, ControllerTypes
  <2>2. SessionTypes'
    BY <1>1, <1>7, EmptyQueues DEF ProcessEnds, NoSession, SessionTypes, QueuesOK
  <2>3. CopiesSoFar' /\ OtherTypes'
    BY <1>1, <1>7 DEF ProcessEnds, CopiesSoFar, OtherTypes
  <2> QED
    BY <2>1, <2>2, <2>3
<1>8. CASE ProcessStarts
  <2>1. CopiesSoFar'
    BY <1>1, <1>8 DEF ProcessStarts, CopiesSoFar, hvars
  <2> QED
    BY <1>1, <1>2, <1>4, <1>8, <2>1 DEF ProcessStarts, OtherTypes
<1>9. CASE CalmComes
  BY <1>1, <1>2, <1>3, <1>4, <1>9 DEF CalmComes, OtherTypes
<1>10. CASE UNCHANGED vars
  BY <1>1, <1>2, <1>3, <1>4, <1>10 DEF vars, OtherTypes
<1> QED
  BY <1>5, <1>6, <1>7, <1>8, <1>9, <1>10 DEF Next, World

LEMMA Invariance == Spec => []IInv
<1>1. IInv /\ [Next]_vars => IInv'
  BY StepInv
<1> QED
  BY InitInv, <1>1, PTL DEF Spec

\* The variables keep their types, and the queues their bounds.
THEOREM TypeCorrect == Spec => []TypeOK
<1>1. IInv => TypeOK
  BY DEF IInv
<1> QED
  BY <1>1, Invariance, PTL

\* Between two commands the copies of the setpoint stand for one voltage, after
\* whatever sequence of crashes, failed saves, fallbacks and lost sessions.
THEOREM OneSetpoint == Spec => []CopiesAgree
<1>1. IInv => CopiesAgree
  BY DEF IInv, CopiesSoFar, CopiesAgree
<1> QED
  BY <1>1, Invariance, PTL
=============================================================================
