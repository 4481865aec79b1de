---------------------------- MODULE SessionProofs ----------------------------
(***************************************************************************)
(* No timer ends the session of an ESP that is well, for every period of   *)
(* the pings, of the deadline and of the watchdog, and however slow the    *)
(* answers are within their limit.  Time passes only while nothing is due, *)
(* so each timer is known from how long an answer has been owed.           *)
(* A session that has lasted resets the pause before the next attempt; and *)
(* an ESP that is well has its session again within a bound to which every *)
(* phase contributes: the old session, the pause, connect, the handshake.  *)
(***************************************************************************)
EXTENDS Session, TLAPS

\* Nothing is unanswered: no deadline is armed, and the next ping comes before
\* the watchdog.
AtRest == pong = Far /\ owed = 0 /\ idle + PingEvery >= Watchdog + ping
\* An answer is owed: both timers have run no longer than that, and there are
\* no more pings unanswered than had time to be sent.
Owing ==
  /\ owed <= Slow /\ idle + PingEvery + owed >= Watchdog /\ pong + owed >= PongDeadline
  /\ queue * PingEvery <= owed + ping

WellSession ==
  clean =>
    /\ peer = "well" /\ pc # "blocked"
    /\ pc \in {"handshake", "open"} => linked
    /\ pc = "open" => IF queue = 0 THEN AtRest ELSE Owing

IInv == TypeOK /\ owed \in Nat /\ WellSession

-----------------------------------------------------------------------------
(* The variables' types.                                                   *)

\* The constants are lengths of time, and Far is one.
LEMMA Times ==
  /\ {PingEvery, PongDeadline, Watchdog, Stable, Slow, Capacity, Keepalive, SynGap} \subseteq Nat \ {0}
  /\ PingEvery + Slow < Watchdog /\ Slow < PongDeadline
  /\ Capacity * PingEvery \in Nat /\ Capacity * PingEvery > Watchdog
  /\ Far \in Nat /\ Far # 0
  BY TimesAssumption, AnswerAssumption, CapacityAssumption DEF Far

\* Counting down and counting up to a limit.
LEMMA Counting ==
  ASSUME NEW n \in Nat
  PROVE  /\ Less(n) \in Nat /\ Less(n) <= n
         /\ \A max \in Nat : AtMost(n, max) \in 0 .. max
  BY DEF Less, AtMost

LEMMA InitTypes == ASSUME Init PROVE TypeOK /\ owed \in Nat
<1>1. linked \in BOOLEAN /\ dns \in BOOLEAN /\ cached \in BOOLEAN /\ clean \in BOOLEAN
  BY DEF Init
<1>2. /\ elapsed \in 0 .. Stable /\ idle \in 0 .. Watchdog /\ ping \in 0 .. PingEvery
      /\ queue \in 0 .. Capacity /\ owed \in Nat
  BY Times DEF Init
<1>3. pong \in 0 .. PongDeadline \cup {Far} /\ tries \in 0 .. TriesMax /\ backoff \in {5, 10, 20, 40, 60}
  BY DEF Init, TriesMax
<1> QED
  BY <1>1, <1>2, <1>3 DEF Init, TypeOK

\* The pause leaves the tries and the backoff within their limits.
LEMMA PauseTypes ==
  ASSUME TypeOK, PausePowerlogger \/ PauseKaskade
  PROVE  tries' \in 0 .. TriesMax /\ backoff' \in {5, 10, 20, 40, 60}
<1>1. tries \in 0 .. TriesMax /\ backoff \in {5, 10, 20, 40, 60}
  BY DEF TypeOK
<1>2. NextTries \in 0 .. TriesMax
  BY <1>1 DEF NextTries, AtMost, TriesMax
<1>3. \A b \in {5, 10, 20, 40, 60} : NextBackoff(b) \in {5, 10, 20, 40, 60}
  BY DEF NextBackoff, AtMost
<1>4. CASE PausePowerlogger
  BY <1>1, <1>2, <1>4 DEF PausePowerlogger
<1>5. CASE PauseKaskade
  BY <1>1, <1>3, <1>5 DEF PauseKaskade
<1> QED
  BY <1>4, <1>5

LEMMA EndTypes == ASSUME TypeOK, SessionEnds PROVE TypeOK' /\ owed' \in Nat
<1>1. tries' \in 0 .. TriesMax /\ backoff' \in {5, 10, 20, 40, 60}
  BY PauseTypes DEF SessionEnds
<1>2. linked' = FALSE /\ queue' = 0 /\ owed' = 0 /\ pc' = "sleeping" /\ 0 \in 0 .. Capacity
  BY Times DEF SessionEnds
<1>3. UNCHANGED <<task, peer, dns, cached, elapsed, idle, ping, pong, clean>>
  BY DEF SessionEnds, world, timers
<1> QED
  BY <1>1, <1>2, <1>3 DEF TypeOK

\* Everything a step of the task does to the variables' types.
LEMMA TaskTypes == ASSUME TypeOK, owed \in Nat, Task PROVE TypeOK' /\ owed' \in Nat
<1> USE Times DEF TypeOK, world, timers, pauses
<1>1. CASE SessionEnds
  BY <1>1, EndTypes
<1>2. CASE WakeUp
  BY <1>2 DEF WakeUp
<1>3. CASE TcpConnects
  BY <1>3 DEF TcpConnects
<1>4. CASE Opens
  BY <1>4 DEF Opens
<1>5. CASE Push \/ Pong
  BY <1>5 DEF Push, Pong, Frame
<1>6. CASE Ping
  <2>1. CASE queue < Capacity
    BY <1>6, <2>1 DEF Ping, Arm
  <2>2. CASE ~(queue < Capacity)
    BY <1>6, <2>2 DEF Ping
  <2> QED
    BY <2>1, <2>2
<1>7. CASE Unblocks
  BY <1>7 DEF Unblocks, Arm
<1> QED
  BY <1>1, <1>2, <1>3, <1>4, <1>5, <1>6, <1>7 DEF Task, ConnectFails, TimerFires, Closed

LEMMA WorldTypes ==
  ASSUME TypeOK, owed \in Nat, PeerChanges \/ DnsChanges \/ Tick
  PROVE  TypeOK' /\ owed' \in Nat
<1> USE Times DEF TypeOK, world, timers, pauses
<1>1. CASE PeerChanges
  <2>1. PICK p \in {"well", "deaf", "mute", "down"} : PeerIs(p)
    BY <1>1 DEF PeerChanges
  <2>2. linked' \in BOOLEAN /\ clean' \in BOOLEAN /\ owed' \in Nat /\ peer' = p
    BY <2>1 DEF PeerIs
  <2>3. UNCHANGED <<task, dns, cached, pc, elapsed, idle, ping, pong, queue, tries, backoff>>
    BY <2>1 DEF PeerIs
  <2> QED
    BY <2>2, <2>3
<1>2. CASE DnsChanges
  BY <1>2 DEF DnsChanges
<1>3. CASE Tick
  <2>1. elapsed' \in 0 .. Stable
    BY <1>3 DEF Tick, AtMost
  <2>2. /\ idle' \in 0 .. Watchdog /\ ping' \in 0 .. PingEvery
        /\ pong' \in 0 .. PongDeadline \cup {Far}
    BY <1>3 DEF Tick, Less
  <2>3. owed' \in Nat
    BY <1>3 DEF Tick
  <2> QED
    BY <1>3, <2>1, <2>2, <2>3 DEF Tick
<1> QED
  BY <1>1, <1>2, <1>3

-----------------------------------------------------------------------------
(* The session of an ESP that is well.                                     *)

\* Its timers do not fire.
LEMMA NoTimer == ASSUME IInv, TimerFires PROVE ~clean
<1> SUFFICES ASSUME clean PROVE FALSE
  OBVIOUS
<1>1. /\ pc = "open" /\ 0 \in {idle, pong} /\ queue \in Nat /\ idle \in Nat /\ ping \in Nat
      /\ pong \in Nat /\ owed \in Nat
  BY Times DEF IInv, TypeOK, TimerFires
<1>2. IF queue = 0 THEN AtRest ELSE Owing
  BY <1>1 DEF IInv, WellSession
<1>3. CASE queue = 0
  BY <1>1, <1>2, <1>3, Times DEF AtRest
<1>4. CASE queue # 0
  <2>1. owed <= Slow /\ idle + PingEvery + owed >= Watchdog /\ pong + owed >= PongDeadline
    BY <1>2, <1>4 DEF Owing
  <2> QED
    BY <1>1, <2>1, Times
<1> QED
  BY <1>3, <1>4

\* A ping finds room, and its answer is owed from then on.
LEMMA PingWell == ASSUME IInv, Ping, clean PROVE WellSession'
<1>1. /\ pc = "open" /\ ping = 0 /\ queue \in Nat /\ queue <= Capacity
      /\ idle \in Nat /\ owed \in Nat /\ linked /\ peer = "well"
  BY DEF IInv, TypeOK, Ping, WellSession
<1>2. IF queue = 0 THEN AtRest ELSE Owing
  BY <1>1 DEF IInv, WellSession
<1>3. queue * PingEvery <= owed /\ owed <= Slow /\ idle + PingEvery + owed >= Watchdog
  <2>1. CASE queue = 0
    BY <1>1, <1>2, <2>1, Times DEF AtRest
  <2>2. CASE queue # 0
    BY <1>1, <1>2, <2>2, Times DEF Owing
  <2> QED
    BY <2>1, <2>2
<1>4. queue < Capacity
  <2>1. SUFFICES ASSUME queue = Capacity PROVE FALSE
    BY <1>1, Times
  <2>2. Capacity * PingEvery <= owed
    BY <1>3, <2>1
  <2> QED
    BY <1>1, <1>3, <2>2, Times
<1>5. /\ ping' = PingEvery /\ pong' = PongDeadline /\ queue' = queue + 1
      /\ UNCHANGED <<pc, peer, linked, idle, owed, clean>>
  BY <1>4 DEF Ping, Arm, world, pauses
<1>6. (queue + 1) * PingEvery = queue * PingEvery + PingEvery
  BY <1>1, Times
<1>7. queue * PingEvery \in Nat
  BY <1>1, Times
<1>8. Owing'
  BY <1>1, <1>3, <1>5, <1>6, <1>7, Times DEF Owing
<1> QED
  BY <1>1, <1>5, <1>8 DEF WellSession

\* Time passes only while nothing is late.
LEMMA TickWell == ASSUME IInv, Tick, clean PROVE WellSession'
<1>1. /\ peer = "well" /\ pc # "blocked" /\ (pc \in {"handshake", "open"} => linked)
      /\ UNCHANGED <<pc, peer, linked, queue, clean>> /\ ~Late
  BY DEF IInv, WellSession, Tick
<1>2. CASE pc # "open"
  BY <1>1, <1>2 DEF WellSession
<1>3. CASE pc = "open"
  <2>1. /\ idle \in Nat \ {0} /\ ping \in Nat \ {0} /\ pong \in Nat \ {0} /\ owed \in Nat
        /\ queue \in Nat
    BY <1>1, <1>3, Times DEF IInv, TypeOK, Late
  <2>2. /\ idle' = idle - 1 /\ ping' = ping - 1
        /\ pong' = IF pong = Far THEN Far ELSE pong - 1
    BY <1>3, <2>1 DEF Tick, Less
  <2>3. ~Lost /\ (Due <=> queue > 0)
    BY <1>1, <1>3, <2>1 DEF Due, Lost, Unanswered
  <2>4. CASE queue = 0
    <3>1. owed' = owed
      BY <2>1, <2>3, <2>4 DEF Tick
    <3>2. AtRest
      BY <1>3, <2>4 DEF IInv, WellSession
    <3>3. AtRest'
      BY <2>1, <2>2, <3>1, <3>2, Times DEF AtRest
    <3> QED
      BY <1>1, <2>4, <3>3 DEF WellSession
  <2>5. CASE queue # 0
    <3>1. Due /\ Patience = Slow
      BY <1>1, <1>3, <2>1, <2>3, <2>5 DEF Patience, Unanswered
    <3>2. owed' = owed + 1 /\ owed < Slow
      BY <1>1, <2>1, <3>1, Times DEF Tick, Late
    <3>3. Owing
      BY <1>3, <2>5 DEF IInv, WellSession
    <3>4. queue * PingEvery \in Nat /\ queue' * PingEvery = queue * PingEvery
      BY <1>1, <2>1, Times
    <3>5. pong' + owed' >= PongDeadline
      BY <2>1, <2>2, <3>2, <3>3, Times DEF Owing
    <3>6. Owing'
      BY <2>1, <2>2, <3>2, <3>3, <3>4, <3>5, Times DEF Owing
    <3> QED
      BY <1>1, <2>5, <3>6 DEF WellSession
  <2> QED
    BY <2>4, <2>5
<1> QED
  BY <1>2, <1>3

\* A frame or an answer of the ESP; the begin of the session.
LEMMA HearWell == ASSUME IInv, Opens \/ Push \/ Pong, clean PROVE WellSession'
<1>1. /\ peer = "well" /\ linked /\ UNCHANGED <<peer, linked, clean>> /\ pc' = "open"
  BY DEF IInv, WellSession, Opens, Push, Pong, world
<1>2. ping \in 0 .. PingEvery /\ queue \in Nat /\ owed \in Nat
  BY Times DEF IInv, TypeOK
<1>3. CASE Opens
  <2>1. queue' = 0 /\ owed' = 0 /\ pong' = Far /\ idle' = Watchdog /\ ping' = 0
    BY <1>3 DEF Opens
  <2>2. AtRest'
    BY <2>1, Times DEF AtRest
  <2> QED
    BY <1>1, <2>1, <2>2 DEF WellSession
<1>4. CASE Push
  <2>1. idle' = Watchdog /\ UNCHANGED <<pc, ping, pong, queue, owed>>
    BY <1>4 DEF Push, Frame
  <2>2. IF queue = 0 THEN AtRest ELSE Owing
    BY <1>4 DEF IInv, WellSession, Push
  <2>3. IF queue = 0 THEN AtRest' ELSE Owing'
    BY <1>2, <2>1, <2>2, Times DEF AtRest, Owing
  <2> QED
    BY <1>1, <2>1, <2>3 DEF WellSession
<1>5. CASE Pong
  <2>1. queue' = 0 /\ owed' = 0 /\ pong' = Far /\ idle' = Watchdog /\ ping' = ping
    BY <1>5 DEF Pong, Frame
  <2>2. AtRest'
    BY <1>2, <2>1, Times DEF AtRest
  <2> QED
    BY <1>1, <2>1, <2>2 DEF WellSession
<1> QED
  BY <1>3, <1>4, <1>5

LEMMA StepInv == ASSUME IInv, [Next]_vars PROVE IInv'
<1>1. TypeOK' /\ owed' \in Nat
  <2>1. CASE UNCHANGED vars
    BY <2>1 DEF IInv, TypeOK, vars
  <2> QED
    BY <2>1, TaskTypes, WorldTypes DEF IInv, Next
<1>2. SUFFICES WellSession'
  BY <1>1 DEF IInv
<1>3. CASE SessionEnds
  BY <1>3 DEF SessionEnds, IInv, WellSession, world
<1>4. CASE WakeUp
  BY <1>4 DEF WakeUp, WellSession, world
<1>5. CASE TcpConnects
  BY <1>5 DEF TcpConnects, IInv, WellSession, world
<1>6. CASE Opens \/ Push \/ Pong
  <2>1. clean' = clean
    BY <1>6 DEF Opens, Push, Pong
  <2> QED
    BY <1>6, <2>1, HearWell DEF WellSession
<1>7. CASE Ping
  <2>1. clean' = clean
    BY <1>7 DEF Ping
  <2> QED
    BY <1>7, <2>1, PingWell DEF WellSession
<1>8. CASE Unblocks
  BY <1>8 DEF Unblocks, IInv, WellSession
<1>9. CASE PeerChanges
  BY <1>9 DEF PeerChanges, PeerIs, WellSession
<1>10. CASE DnsChanges
  BY <1>10 DEF DnsChanges, IInv, WellSession, AtRest, Owing, timers
<1>11. CASE Tick
  <2>1. clean' = clean
    BY <1>11 DEF Tick
  <2> QED
    BY <1>11, <2>1, TickWell DEF WellSession
<1>12. CASE UNCHANGED vars
  BY <1>12 DEF vars, IInv, WellSession, AtRest, Owing
<1> QED
  BY <1>3, <1>4, <1>5, <1>6, <1>7, <1>8, <1>9, <1>10, <1>11, <1>12
     DEF Next, Task, ConnectFails, TimerFires, Closed

LEMMA Invariance == Spec => []IInv
<1>1. Init => IInv
  BY InitTypes DEF Init, IInv, WellSession
<1>2. IInv /\ [Next]_vars => IInv'
  BY StepInv
<1> QED
  BY <1>1, <1>2, PTL DEF Spec

-----------------------------------------------------------------------------
(* The theorems.                                                           *)

\* The variables keep their types: no timer below zero, no queue beyond its
\* capacity, no backoff out of its steps.
THEOREM TypeCorrect == Spec => []TypeOK
<1>1. IInv => TypeOK
  BY DEF IInv
<1> QED
  BY <1>1, Invariance, PTL

\* Neither the watchdog nor the deadline of the pings ends a live session.
THEOREM LiveSessionsAreKept == Spec => LiveSessionKept
<1>1. IInv /\ [Next]_vars => [TimerFires => ~clean]_vars
  BY NoTimer
<1> QED
  BY <1>1, Invariance, PTL DEF Spec, LiveSessionKept

-----------------------------------------------------------------------------
(* The pauses.                                                             *)

\* A pause is no longer than its task's longest, and after a stable session it
\* is the first step.
LEMMA Pauses ==
  ASSUME TypeOK, PausePowerlogger \/ PauseKaskade
  PROVE  /\ LongestPause[task] \in Nat /\ wait' \in 0 .. LongestPause[task]
         /\ WasStable => wait' = Ticks(5)
<1>1. tries \in 0 .. TriesMax /\ backoff \in {5, 10, 20, 40, 60} /\ task \in Tasks
  BY DEF TypeOK
<1>2. CASE PausePowerlogger
  <2>1. task = "powerlogger" /\ tries' = NextTries /\ wait' = Ticks(PowerloggerDelay(tries'))
    BY <1>2 DEF PausePowerlogger
  <2>2. LongestPause[task] = 30
    BY <2>1 DEF LongestPause, Ticks
  <2>3. \A t \in 0 .. 7 : Ticks(PowerloggerDelay(t)) \in 0 .. 30
    BY DEF PowerloggerDelay, Ticks
  <2>4. NextTries \in 0 .. 7 /\ (WasStable => NextTries = 0)
    BY <1>1 DEF NextTries, AtMost, TriesMax
  <2>5. PowerloggerDelay(0) = 5
    BY DEF PowerloggerDelay
  <2> QED
    BY <2>1, <2>2, <2>3, <2>4, <2>5
<1>3. CASE PauseKaskade
  <2>1. task = "kaskade" /\ wait' = Ticks(IF WasStable THEN 5 ELSE backoff)
    BY <1>3 DEF PauseKaskade
  <2>2. LongestPause[task] = 6
    BY <2>1 DEF LongestPause, Ticks
  <2>3. \A b \in {5, 10, 20, 40, 60} : Ticks(b) \in 0 .. 6
    BY DEF Ticks
  <2>4. (IF WasStable THEN 5 ELSE backoff) \in {5, 10, 20, 40, 60}
    BY <1>1
  <2> QED
    BY <2>1, <2>2, <2>3, <2>4
<1> QED
  BY <1>2, <1>3

\* A session that lasted is followed by the shortest pause, whatever came before.
THEOREM StableSessionsResetTheBackoff == Spec => StableSessionResetsBackoff
<1>1. ASSUME IInv, [Next]_vars, pc # "sleeping", pc' = "sleeping" PROVE SessionEnds
  BY <1>1 DEF Next, Task, WakeUp, ConnectFails, TcpConnects, Opens, Push, Pong, Ping, Unblocks,
     TimerFires, Closed, PeerChanges, PeerIs, DnsChanges, Tick, vars
<1>2. IInv /\ [Next]_vars => [pc # "sleeping" /\ pc' = "sleeping" /\ WasStable => wait' = Ticks(5)]_vars
  BY <1>1, Pauses DEF IInv, SessionEnds
<1> QED
  BY <1>2, Invariance, PTL DEF Spec, StableSessionResetsBackoff

-----------------------------------------------------------------------------
(* An ESP that is well has its session again in bounded time: what is left *)
(* until then never grows while it is well, and shrinks with every tick.   *)

\* What the ESP or the kernel owes is within its limit.
Punctual ==
  /\ pc = "sleeping" => owed = 0
  /\ pc = "connecting" /\ clean => owed <= Slow
  /\ pc = "connecting" /\ ~clean => owed <= SynGap
  /\ Lost => owed <= Keepalive
  /\ linked => pc \in {"handshake", "open", "blocked"} /\ owed <= Slow
  /\ linked /\ (peer # "well" \/ (pc = "open" /\ queue = 0)) => owed = 0

\* A session no timer will end.
Safe == pc = "open" /\ linked /\ peer = "well" /\ IF queue = 0 THEN AtRest ELSE Owing
\* No more pings are unanswered than had time to be sent.
Counted == queue * PingEvery <= owed + ping

\* The rest of the time, once a session has ended.
Again == LongestPause[task] + Slow + Slow
TimeLeft ==
  IF pc = "sleeping" THEN wait + Slow + Slow
  ELSE IF pc = "connecting" /\ clean THEN Slow - owed + Slow
  ELSE IF pc = "connecting" THEN SynGap - owed + Again
  ELSE IF ~linked THEN Keepalive - owed + Again
  ELSE IF pc = "handshake" THEN Slow - owed
  ELSE IF pc = "blocked" THEN Slow + Again
  ELSE IF queue = 0 THEN ping + Slow + Again
  ELSE IF Counted THEN Slow - owed + Again
  ELSE Slow - owed + Slow + Again

Recovering ==
  wellFor > 0 =>
    /\ peer = "well" /\ (dns \/ cached)
    /\ Safe \/ wellFor + TimeLeft < Bound[task]

RInv ==
  /\ IInv /\ Punctual /\ wait \in 0 .. LongestPause[task]
  /\ wellFor \in Nat /\ Recovering

LEMMA Limits ==
  ASSUME task \in Tasks
  PROVE  /\ LongestPause[task] \in Nat /\ Bound[task] \in Nat /\ Again \in Nat
         /\ Keepalive + Again < Bound[task] /\ PingEvery + Slow + Again < Bound[task]
         /\ Slow + Slow + Again < Bound[task] /\ SynGap + Again < Bound[task]
<1>1. LongestPause[task] \in Nat
  BY DEF Tasks, LongestPause, Ticks
<1>2. \A gone \in {Keepalive, PingEvery + Slow, Slow + Slow, SynGap} :
        gone + LongestPause[task] + Slow + Slow < Bound[task]
  BY BoundAssumption
<1> QED
  BY <1>1, <1>2, Times, BoundAssumption DEF Again

\* The types, as the following steps use them.
LEMMA Ranges ==
  ASSUME RInv
  PROVE  /\ owed \in Nat /\ ping \in 0 .. PingEvery /\ queue \in 0 .. Capacity /\ idle \in Nat
         /\ pong \in Nat /\ wait \in Nat /\ wait <= LongestPause[task]
         /\ queue * PingEvery \in Nat
         /\ pc \in {"connecting", "handshake", "open", "blocked", "sleeping"}
         /\ linked \in BOOLEAN
<1>1. /\ owed \in Nat /\ ping \in 0 .. PingEvery /\ queue \in 0 .. Capacity /\ idle \in Nat
      /\ pong \in Nat /\ task \in Tasks
      /\ pc \in {"connecting", "handshake", "open", "blocked", "sleeping"} /\ linked \in BOOLEAN
  BY Times DEF RInv, IInv, TypeOK
<1>2. wait \in Nat /\ wait <= LongestPause[task]
  BY <1>1, Limits DEF RInv
<1>3. queue * PingEvery \in Nat
  BY <1>1, Times
<1> QED
  BY <1>1, <1>2, <1>3

\* Whatever the ESP was before, the time is enough.
LEMMA EnoughTime ==
  ASSUME RInv PROVE TimeLeft \in Nat /\ TimeLeft < Bound[task]
<1>1. /\ LongestPause[task] \in Nat /\ Bound[task] \in Nat /\ Again \in Nat
      /\ Keepalive + Again < Bound[task] /\ PingEvery + Slow + Again < Bound[task]
      /\ Slow + Slow + Again < Bound[task] /\ SynGap + Again < Bound[task]
  BY Limits DEF RInv, IInv, TypeOK
<1>2. Again = LongestPause[task] + Slow + Slow
  BY DEF Again
<1> HIDE DEF Again
<1>3. CASE pc = "sleeping"
  BY <1>1, <1>2, <1>3, Ranges, Times DEF TimeLeft
<1>4. CASE pc = "connecting"
  BY <1>1, <1>2, <1>4, Ranges, Times DEF TimeLeft, RInv, Punctual
<1>5. CASE pc \in {"handshake", "open", "blocked"} /\ ~linked
  BY <1>1, <1>5, Ranges, Times DEF TimeLeft, RInv, Punctual, Lost
<1>6. CASE pc \in {"handshake", "open", "blocked"} /\ linked
  <2>1. owed <= Slow
    BY <1>6 DEF RInv, Punctual
  <2> QED
    BY <1>1, <1>6, <2>1, Ranges, Times DEF TimeLeft
<1> QED
  BY <1>3, <1>4, <1>5, <1>6, Ranges

-----------------------------------------------------------------------------
(* What is owed.                                                           *)

LEMMA TaskPunctual == ASSUME RInv, Task PROVE Punctual'
<1> USE Ranges, Times DEF RInv, Punctual, Lost, world, timers, pauses
<1>1. CASE SessionEnds
  BY <1>1 DEF SessionEnds
<1>2. CASE WakeUp
  BY <1>2 DEF WakeUp
<1>3. CASE TcpConnects
  BY <1>3 DEF TcpConnects
<1>4. CASE Opens
  BY <1>4 DEF Opens
<1>5. CASE Push
  BY <1>5 DEF Push
<1>6. CASE Pong
  BY <1>6 DEF Pong
<1>7. CASE Ping
  BY <1>7 DEF Ping
<1>8. CASE Unblocks
  BY <1>8 DEF Unblocks
<1> QED
  BY <1>1, <1>2, <1>3, <1>4, <1>5, <1>6, <1>7, <1>8 DEF Task, ConnectFails, TimerFires, Closed

LEMMA WorldPunctual == ASSUME RInv, PeerChanges \/ DnsChanges \/ Tick PROVE Punctual'
<1> USE Ranges, Times DEF RInv, Punctual, Lost
<1>1. CASE PeerChanges
  <2>1. PICK p \in {"well", "deaf", "mute", "down"} : PeerIs(p)
    BY <1>1 DEF PeerChanges
  <2> QED
    BY <2>1 DEF PeerIs
<1>2. CASE DnsChanges
  BY <1>2 DEF DnsChanges
<1>3. CASE Tick
  <2>1. /\ UNCHANGED <<pc, peer, linked, queue>> /\ (Due => owed < Patience)
        /\ owed' = IF Due THEN owed + 1 ELSE owed
        /\ ~(pc = "blocked" /\ linked /\ peer = "well")
    BY <1>3 DEF Tick, Late, Patience
  <2>2. clean' = clean
    BY <1>3 DEF Tick
  <2>3. CASE pc = "connecting"
    <3>1. owed' = IF Due THEN owed + 1 ELSE owed
      BY <2>1
    <3>2. ~Lost /\ ~Unanswered
      BY <2>3 DEF Unanswered
    <3>3. ASSUME clean PROVE owed' <= Slow
      <4>1. Patience = Slow
        BY <2>3, <3>2, <3>3, Zenon DEF Patience
      <4>2. owed <= Slow
        BY <2>3, <3>3
      <4> QED
        BY <2>1, <3>1, <4>1, <4>2
    <3>4. ASSUME ~clean PROVE owed' <= SynGap
      <4>1. Patience = SynGap
        BY <2>3, <3>2, <3>4, Zenon DEF Patience
      <4>2. owed <= SynGap
        BY <2>3, <3>4
      <4> QED
        BY <2>1, <3>1, <4>1, <4>2
    <3>5. ~linked'
      BY <2>1, <2>3
    <3> QED
      BY <2>1, <2>2, <2>3, <3>3, <3>4, <3>5
  <2>4. CASE pc # "connecting"
    BY <2>1, <2>2, <2>4 DEF Due, Unanswered, Patience
  <2> QED
    BY <2>3, <2>4
<1> QED
  BY <1>1, <1>2, <1>3

-----------------------------------------------------------------------------
(* The time that is left.                                                  *)

\* An open session that answers a frame is safe.
LEMMA SafeAgain == ASSUME RInv, Opens \/ Pong PROVE Safe'
<1>1. /\ peer' = "well" /\ linked' /\ pc' = "open" /\ queue' = 0 /\ owed' = 0
      /\ pong' = Far /\ idle' = Watchdog /\ ping' \in 0 .. PingEvery
  BY Ranges, Times DEF Opens, Pong, Frame, world
<1>2. AtRest'
  BY <1>1, Times DEF AtRest
<1> QED
  BY <1>1, <1>2 DEF Safe

\* A safe session stays so while its ESP is well.
LEMMA SafeStays ==
  ASSUME RInv, Safe, [Next]_vars, peer' = peer PROVE Safe'
<1> USE Ranges, Times
<1>1. /\ pc = "open" /\ linked /\ peer = "well" /\ (IF queue = 0 THEN AtRest ELSE Owing)
  BY DEF Safe
<1>2. CASE Tick
  <2>1. /\ UNCHANGED <<pc, peer, linked, queue>> /\ ~Late
    BY <1>2 DEF Tick
  <2>2. idle # 0 /\ ping # 0 /\ pong # 0
    BY <1>1, <2>1 DEF Late
  <2>3. /\ idle' = idle - 1 /\ ping' = ping - 1
        /\ pong' = IF pong = Far THEN Far ELSE pong - 1
    BY <1>1, <1>2, <2>2 DEF Tick, Less
  <2>4. Due <=> queue > 0
    BY <1>1 DEF Due, Lost, Unanswered
  <2>5. CASE queue = 0
    <3>1. owed' = owed
      BY <1>2, <2>4, <2>5 DEF Tick
    <3>2. AtRest'
      BY <1>1, <2>2, <2>3, <2>5, <3>1 DEF AtRest
    <3> QED
      BY <1>1, <2>1, <2>5, <3>2 DEF Safe
  <2>6. CASE queue # 0
    <3>1. Due /\ Patience = Slow
      BY <1>1, <2>4, <2>6 DEF Patience, Unanswered, Lost
    <3>2. owed' = owed + 1 /\ owed < Slow
      BY <1>2, <2>1, <3>1 DEF Tick, Late
    <3>3. Owing
      BY <1>1, <2>6
    <3>4. queue' * PingEvery = queue * PingEvery
      BY <2>1
    <3>5. pong' + owed' >= PongDeadline
      BY <2>2, <2>3, <3>2, <3>3 DEF Owing
    <3>6. Owing'
      BY <2>2, <2>3, <3>2, <3>3, <3>4, <3>5 DEF Owing
    <3> QED
      BY <1>1, <2>1, <2>6, <3>6 DEF Safe
  <2> QED
    BY <2>5, <2>6
<1>3. CASE Push
  <2>1. idle' = Watchdog /\ UNCHANGED <<pc, peer, linked, ping, pong, queue, owed>>
    BY <1>3 DEF Push, Frame, world
  <2>2. IF queue = 0 THEN AtRest' ELSE Owing'
    BY <1>1, <2>1 DEF AtRest, Owing
  <2> QED
    BY <1>1, <2>1, <2>2 DEF Safe
<1>4. CASE Opens \/ Pong
  BY <1>4, SafeAgain
<1>5. CASE Ping
  <2>1. ping = 0 /\ queue * PingEvery <= owed /\ owed <= Slow /\ idle + PingEvery + owed >= Watchdog
    <3>1. CASE queue = 0
      BY <1>1, <1>5, <3>1 DEF AtRest, Ping
    <3>2. CASE queue # 0
      BY <1>1, <1>5, <3>2 DEF Owing, Ping
    <3> QED
      BY <3>1, <3>2
  <2>2. queue < Capacity
    <3>1. SUFFICES ASSUME queue = Capacity PROVE FALSE
      OBVIOUS
    <3>2. Capacity * PingEvery <= owed
      BY <2>1, <3>1
    <3> QED
      BY <2>1, <3>2, CapacityAssumption
  <2>3. /\ ping' = PingEvery /\ pong' = PongDeadline /\ queue' = queue + 1
        /\ UNCHANGED <<pc, peer, linked, idle, owed>>
    BY <1>5, <2>2 DEF Ping, Arm, world
  <2>4. (queue + 1) * PingEvery = queue * PingEvery + PingEvery
    OBVIOUS
  <2>5. Owing'
    BY <2>1, <2>3, <2>4 DEF Owing
  <2> QED
    BY <1>1, <2>3, <2>5 DEF Safe
<1>6. ~TimerFires
  <2>1. SUFFICES ASSUME 0 \in {idle, pong} PROVE FALSE
    BY DEF TimerFires
  <2>2. CASE queue = 0
    BY <1>1, <2>1, <2>2 DEF AtRest
  <2>3. CASE queue # 0
    <3>1. owed <= Slow /\ idle + PingEvery + owed >= Watchdog /\ pong + owed >= PongDeadline
      BY <1>1, <2>3 DEF Owing
    <3> QED
      BY <2>1, <3>1
  <2> QED
    BY <2>2, <2>3
<1>7. ~(WakeUp \/ ConnectFails \/ TcpConnects \/ Unblocks \/ Closed \/ PeerChanges)
  BY <1>1 DEF WakeUp, ConnectFails, TcpConnects, Unblocks, Closed, PeerChanges, PeerIs
<1>8. CASE DnsChanges \/ UNCHANGED vars
  <2>1. UNCHANGED <<pc, linked, peer, queue, pong, owed, idle, ping>>
    BY <1>8 DEF DnsChanges, timers, vars
  <2> QED
    BY <1>1, <2>1 DEF Safe, AtRest, Owing
<1> QED
  BY <1>2, <1>3, <1>4, <1>5, <1>6, <1>7, <1>8 DEF Next, Task

\* A session of an ESP that is well ends with the longest pause at most.
LEMMA EndLeaves ==
  ASSUME RInv, SessionEnds,
         \/ pc \in {"open", "blocked"}
         \/ pc = "handshake" /\ ~linked
         \/ pc = "connecting" /\ ~clean
  PROVE  TimeLeft' <= TimeLeft
<1>1. LongestPause[task] \in Nat /\ Again \in Nat
  BY Limits DEF RInv, IInv, TypeOK
<1>2. wait' \in 0 .. LongestPause[task] /\ pc' = "sleeping"
  BY Pauses DEF SessionEnds, RInv, IInv
<1>3. TimeLeft' = wait' + Slow + Slow
  BY <1>2 DEF TimeLeft
<1>4. TimeLeft' <= Again
  BY <1>1, <1>2, <1>3, Times DEF Again
<1>5. /\ pc = "connecting" /\ ~clean => owed <= SynGap
      /\ pc # "connecting" => (~linked => owed <= Keepalive) /\ (linked => owed <= Slow)
  BY DEF RInv, Punctual, Lost
<1> HIDE DEF Again
<1>6. TimeLeft >= Again
  BY <1>1, <1>5, Ranges, Times DEF TimeLeft
<1>7. TimeLeft \in Nat /\ TimeLeft' \in Nat
  BY <1>1, <1>2, <1>3, EnoughTime, Times
<1> QED
  BY <1>1, <1>4, <1>6, <1>7

\* No step of the task takes the time further away.
LEMMA TaskLeaves ==
  ASSUME RInv, Task, peer = "well", dns \/ cached, ~Safe
  PROVE  Safe' \/ TimeLeft' <= TimeLeft
<1> USE Ranges, Times
<1>1. LongestPause[task] \in Nat /\ Again \in Nat /\ TimeLeft \in Nat
  BY Limits, EnoughTime DEF RInv, IInv, TypeOK
<1>2. Punctual
  BY DEF RInv
<1>3. CASE TimerFires \/ Closed
  BY <1>3, EndLeaves DEF TimerFires, Closed
<1>4. CASE Opens \/ Pong
  BY <1>4, SafeAgain
<1>5. CASE ConnectFails
  <2>1. pc = "connecting" /\ ~clean /\ SessionEnds
    BY <1>5 DEF ConnectFails, Resolves
  <2> QED
    BY <2>1, EndLeaves
<1>6. CASE WakeUp
  <2>1. pc = "sleeping" /\ wait = 0 /\ pc' = "connecting" /\ owed' = 0 /\ clean'
    BY <1>2, <1>6 DEF WakeUp, Punctual
  <2>2. TimeLeft = Slow + Slow /\ TimeLeft' = Slow + Slow
    BY <2>1 DEF TimeLeft
  <2> QED
    BY <1>1, <2>2
<1>7. CASE TcpConnects
  <2>1. pc = "connecting" /\ pc' = "handshake" /\ linked' /\ owed' = 0
        /\ (clean => owed <= Slow) /\ (~clean => owed <= SynGap)
    BY <1>2, <1>7 DEF TcpConnects, Punctual
  <2>2. TimeLeft' = Slow
    BY <2>1 DEF TimeLeft
  <2>3. TimeLeft = IF clean THEN Slow - owed + Slow ELSE SynGap - owed + Again
    BY <2>1 DEF TimeLeft
  <2>4. Again >= Slow
    BY <1>1 DEF Again
  <2> HIDE DEF Again
  <2> QED
    BY <1>1, <2>1, <2>2, <2>3, <2>4
<1>8. CASE Push
  <2>1. UNCHANGED <<task, pc, linked, queue, owed, ping, wait, clean>>
    BY <1>8 DEF Push, Frame, world, pauses
  <2>2. TimeLeft' = TimeLeft
    BY <2>1 DEF TimeLeft, Again, Counted
  <2> QED
    BY <1>1, <2>2
<1>9. CASE Ping
  <2>1. /\ pc = "open" /\ ping = 0 /\ UNCHANGED <<task, linked, owed>>
        /\ IF queue < Capacity
           THEN pc' = "open" /\ ping' = PingEvery /\ queue' = queue + 1
           ELSE pc' = "blocked" /\ queue' = queue
    BY <1>9 DEF Ping, world
  <2>2. Again' = Again
    BY <2>1 DEF Again
  <2> HIDE DEF Again
  <2>3. CASE ~linked
    BY <1>1, <2>1, <2>2, <2>3 DEF TimeLeft
  <2>4. CASE linked
    <3>1. owed <= Slow /\ (queue = 0 => owed = 0) /\ Capacity \in Nat \ {0}
      BY <1>2, <2>1, <2>4 DEF Punctual
    <3>2. (queue + 1) * PingEvery = queue * PingEvery + PingEvery
      OBVIOUS
    <3>3. CASE queue < Capacity
      <4>1. pc' = "open" /\ ping' = PingEvery /\ queue' = queue + 1 /\ queue' # 0
        BY <2>1, <3>3
      <4>2. queue' * PingEvery = queue * PingEvery + PingEvery
        BY <3>2, <4>1
      <4>3. queue = 0 \/ Counted => Counted'
        BY <2>1, <4>1, <4>2 DEF Counted
      <4>4. TimeLeft' = IF Counted' THEN Slow - owed + Again ELSE Slow - owed + Slow + Again
        BY <2>1, <2>2, <2>4, <4>1 DEF TimeLeft
      <4>5. TimeLeft = IF queue = 0 THEN Slow + Again
                       ELSE IF Counted THEN Slow - owed + Again ELSE Slow - owed + Slow + Again
        BY <1>1, <2>1, <2>4 DEF TimeLeft
      <4> HIDE DEF Counted
      <4> QED
        BY <1>1, <3>1, <4>3, <4>4, <4>5
    <3>4. CASE ~(queue < Capacity)
      <4>1. queue = Capacity /\ pc' = "blocked"
        BY <2>1, <3>4
      <4>2. ~Counted
        <5>1. Capacity * PingEvery > Slow
          BY CapacityAssumption
        <5> QED
          BY <2>1, <3>1, <4>1, <5>1 DEF Counted
      <4>3. TimeLeft = Slow - owed + Slow + Again
        BY <2>1, <2>4, <3>1, <4>1, <4>2 DEF TimeLeft
      <4>4. TimeLeft' = Slow + Again
        BY <2>1, <2>2, <2>4, <4>1 DEF TimeLeft
      <4> QED
        BY <1>1, <3>1, <4>3, <4>4
    <3> QED
      BY <3>3, <3>4
  <2> QED
    BY <2>3, <2>4
<1>10. CASE Unblocks
  <2>1. /\ pc = "blocked" /\ linked /\ pc' = "open" /\ linked' /\ ping' = PingEvery
        /\ queue' = 1 /\ owed' = 0 /\ task' = task
    BY <1>10 DEF Unblocks, world
  <2>2. Again' = Again
    BY <2>1 DEF Again
  <2>3. Counted'
    BY <2>1 DEF Counted
  <2> HIDE DEF Again
  <2>4. TimeLeft = Slow + Again /\ TimeLeft' = Slow + Again
    BY <1>1, <2>1, <2>2, <2>3 DEF TimeLeft
  <2> QED
    BY <1>1, <2>4
<1> QED
  BY <1>3, <1>4, <1>5, <1>6, <1>7, <1>8, <1>9, <1>10 DEF Task

\* Every tick brings it nearer.
LEMMA TickLeaves ==
  ASSUME RInv, Tick, peer = "well", dns \/ cached, ~Safe
  PROVE  TimeLeft' = TimeLeft - 1
<1> USE Ranges, Times
<1>1. LongestPause[task] \in Nat /\ Again \in Nat /\ Again' = Again
  BY Limits DEF RInv, IInv, TypeOK, Tick, Again
<1>2. /\ UNCHANGED <<pc, linked, queue, peer>> /\ ~Late
      /\ wait' = Less(wait) /\ owed' = IF Due THEN owed + 1 ELSE owed
  BY DEF Tick
<1> HIDE DEF Again
<1>3. CASE pc = "sleeping"
  <2>1. wait # 0 /\ wait' = wait - 1
    BY <1>2, <1>3 DEF Late, Less
  <2> QED
    BY <1>2, <1>3, <2>1 DEF TimeLeft
<1>4. CASE pc = "connecting"
  <2>1. owed' = owed + 1
    BY <1>2, <1>4 DEF Due
  <2>2. clean' = clean
    BY DEF Tick
  <2>3. CASE clean
    <3>1. TimeLeft = Slow - owed + Slow
      BY <1>4, <2>3 DEF TimeLeft
    <3>2. TimeLeft' = Slow - owed' + Slow
      BY <1>2, <1>4, <2>2, <2>3 DEF TimeLeft
    <3> QED
      BY <2>1, <3>1, <3>2
  <2>4. CASE ~clean
    <3>1. TimeLeft = SynGap - owed + Again
      BY <1>4, <2>4 DEF TimeLeft
    <3>2. TimeLeft' = SynGap - owed' + Again'
      BY <1>2, <1>4, <2>2, <2>4 DEF TimeLeft
    <3> QED
      BY <1>1, <2>1, <3>1, <3>2
  <2> QED
    BY <2>3, <2>4, Zenon
<1>5. CASE pc \in {"handshake", "open", "blocked"} /\ ~linked
  <2>1. owed' = owed + 1
    BY <1>2, <1>5 DEF Due, Lost
  <2>2. TimeLeft = Keepalive - owed + Again
    BY <1>5 DEF TimeLeft
  <2>3. TimeLeft' = Keepalive - owed' + Again'
    BY <1>2, <1>5 DEF TimeLeft
  <2> QED
    BY <1>1, <2>1, <2>2, <2>3
<1>6. CASE pc = "handshake" /\ linked
  <2>1. owed' = owed + 1
    BY <1>2, <1>6 DEF Due, Unanswered
  <2> QED
    BY <1>2, <1>6, <2>1 DEF TimeLeft
<1>7. ~(pc = "blocked" /\ linked)
  BY <1>2 DEF Late
<1>8. CASE pc = "open" /\ linked
  <2>1. ping' = ping - 1 /\ ping # 0
    BY <1>2, <1>8 DEF Late, Tick, Less
  <2>2. CASE queue = 0
    BY <1>1, <1>2, <1>8, <2>1, <2>2 DEF TimeLeft
  <2>3. CASE queue # 0
    <3>1. owed' = owed + 1
      BY <1>2, <1>8, <2>3 DEF Due, Unanswered
    <3>2. Counted' <=> Counted
      <4>1. queue' * PingEvery = queue * PingEvery
        BY <1>2
      <4> QED
        BY <2>1, <3>1, <4>1 DEF Counted
    <3>3. TimeLeft' = IF Counted THEN Slow - (owed + 1) + Again ELSE Slow - (owed + 1) + Slow + Again
      BY <1>1, <1>2, <1>8, <2>3, <3>1, <3>2 DEF TimeLeft
    <3>4. TimeLeft = IF Counted THEN Slow - owed + Again ELSE Slow - owed + Slow + Again
      BY <1>8, <2>3 DEF TimeLeft
    <3> HIDE DEF Counted
    <3> QED
      BY <1>1, <3>3, <3>4
  <2> QED
    BY <2>2, <2>3
<1> QED
  BY <1>3, <1>4, <1>5, <1>6, <1>7, <1>8

LEMMA StepRecovers == ASSUME RInv, [Next]_vars PROVE RInv'
<1>1. IInv'
  BY StepInv DEF RInv
<1>2. CASE UNCHANGED vars
  BY <1>1, <1>2 DEF RInv, vars, Punctual, Lost, Recovering, Safe, AtRest, Owing, TimeLeft, Again, Counted
<1>3. Bound[task] \in Nat /\ TimeLeft \in Nat /\ TimeLeft < Bound[task]
  BY EnoughTime, Limits DEF RInv, IInv, TypeOK
<1>4. CASE Task
  <2>1. UNCHANGED <<task, peer, dns, wellFor>> /\ (cached => cached')
    <3>1. CASE SessionEnds
      BY <3>1 DEF SessionEnds, world
    <3>2. CASE WakeUp \/ TcpConnects \/ Opens
      BY <3>2 DEF WakeUp, TcpConnects, Opens, world
    <3>3. CASE Push \/ Pong
      BY <3>3 DEF Push, Pong, Frame, world
    <3>4. CASE Ping
      BY <3>4 DEF Ping, world
    <3>5. CASE Unblocks
      BY <3>5 DEF Unblocks, world
    <3> QED
      BY <1>4, <3>1, <3>2, <3>3, <3>4, <3>5 DEF Task, ConnectFails, TimerFires, Closed
  <2>2. wait' \in 0 .. LongestPause[task]'
    <3>1. CASE SessionEnds
      BY <2>1, <3>1, Pauses DEF SessionEnds, RInv, IInv
    <3>2. CASE wait' = wait
      BY <2>1, <3>2 DEF RInv
    <3> QED
      BY <1>4, <3>1, <3>2 DEF Task, WakeUp, ConnectFails, TcpConnects, Opens, Push, Pong, Ping,
         Unblocks, TimerFires, Closed, pauses
  <2>3. Recovering'
    <3> SUFFICES ASSUME wellFor' > 0
                 PROVE  /\ peer' = "well" /\ (dns' \/ cached')
                        /\ Safe' \/ wellFor' + TimeLeft' < Bound[task]'
      BY DEF Recovering
    <3>1. peer = "well" /\ (dns \/ cached) /\ (Safe \/ wellFor + TimeLeft < Bound[task])
      BY <2>1 DEF RInv, Recovering
    <3>2. CASE Safe
      BY <2>1, <3>1, <3>2, SafeStays
    <3>3. CASE ~Safe
      <4>1. Safe' \/ TimeLeft' <= TimeLeft
        BY <1>4, <3>1, <3>3, TaskLeaves
      <4>2. wellFor \in Nat
        BY DEF RInv
      <4>3. Punctual' /\ IInv'
        BY <1>1, <1>4, TaskPunctual
      <4>4. TimeLeft' \in Int
        <5>1. /\ wait' \in Int /\ owed' \in Int /\ ping' \in Int /\ LongestPause[task'] \in Nat
          <6>1. task' \in Tasks /\ owed' \in Nat /\ ping' \in 0 .. PingEvery
            BY <4>3 DEF IInv, TypeOK
          <6>2. LongestPause[task'] \in Nat
            BY <6>1 DEF Tasks, LongestPause, Ticks
          <6> QED
            BY <2>2, <6>1, <6>2, Times
        <5>2. Again' \in Int
          BY <5>1, Times DEF Again
        <5> HIDE DEF Again
        <5> QED
          BY <5>1, <5>2, Times DEF TimeLeft
      <4>5. Safe' \/ wellFor + TimeLeft' < Bound[task]
        BY <1>3, <3>1, <3>3, <4>1, <4>2, <4>4
      <4> QED
        BY <2>1, <3>1, <4>5
    <3> QED
      BY <3>2, <3>3
  <2> QED
    BY <1>1, <1>4, <2>1, <2>2, <2>3, TaskPunctual DEF RInv
<1>5. CASE PeerChanges
  <2>1. wellFor' = 0 /\ UNCHANGED <<task, wait>>
    BY <1>5 DEF PeerChanges, PeerIs, pauses
  <2> QED
    BY <1>1, <1>5, <2>1, WorldPunctual DEF RInv, Recovering
<1>6. CASE DnsChanges
  <2>1. /\ wellFor' = IF cached THEN wellFor ELSE 0
        /\ UNCHANGED <<task, peer, linked, cached, pc, idle, ping, pong, queue, owed, wait, clean>>
    BY <1>6 DEF DnsChanges, timers, pauses
  <2>2. TimeLeft' = TimeLeft /\ Safe' = Safe
    BY <2>1 DEF TimeLeft, Again, Counted, Safe, AtRest, Owing
  <2>3. Recovering'
    BY <2>1, <2>2 DEF RInv, Recovering
  <2> QED
    BY <1>1, <1>6, <2>1, <2>3, WorldPunctual DEF RInv
<1>7. CASE Tick
  <2>1. /\ UNCHANGED <<task, peer, dns, cached>> /\ wait' = Less(wait)
        /\ wellFor' = IF peer = "well" /\ (dns \/ cached)
                      THEN AtMost(wellFor + 1, Bound[task]) ELSE 0
    BY <1>7 DEF Tick
  <2>2. wellFor \in Nat /\ wait \in 0 .. LongestPause[task] /\ LongestPause[task] \in Nat
    BY Limits DEF RInv, IInv, TypeOK
  <2>3. wellFor' \in Nat /\ wait' \in 0 .. LongestPause[task]'
    BY <1>3, <2>1, <2>2 DEF AtMost, Less
  <2>4. Recovering'
    <3> SUFFICES ASSUME wellFor' > 0
                 PROVE  /\ peer' = "well" /\ (dns' \/ cached')
                        /\ Safe' \/ wellFor' + TimeLeft' < Bound[task]'
      BY DEF Recovering
    <3>1. peer = "well" /\ (dns \/ cached) /\ wellFor' <= wellFor + 1
      BY <1>3, <2>1, <2>2 DEF AtMost
    <3>2. CASE Safe
      BY <1>7, <2>1, <3>1, <3>2, SafeStays
    <3>3. CASE ~Safe
      <4>1. TimeLeft' = TimeLeft - 1
        BY <1>7, <3>1, <3>3, TickLeaves
      <4>2. wellFor + TimeLeft < Bound[task]
        <5>1. CASE wellFor = 0
          BY <1>3, <5>1
        <5>2. CASE wellFor # 0
          BY <2>2, <3>3, <5>2 DEF RInv, Recovering
        <5> QED
          BY <5>1, <5>2
      <4> QED
        BY <1>3, <2>1, <2>2, <2>3, <3>1, <4>1, <4>2
    <3> QED
      BY <3>2, <3>3
  <2> QED
    BY <1>1, <1>7, <2>3, <2>4, WorldPunctual DEF RInv
<1> QED
  BY <1>2, <1>4, <1>5, <1>6, <1>7 DEF Next

\* An ESP that is well and can be addressed has its session again in time,
\* whatever happened before, and keeps it: for all periods, and any Bound beyond
\* the end of the old session or connect, the longest pause, connect and handshake.
THEOREM RecoveryInTime == Spec => []RecoversInTime
<1>1. Init => RInv
  <2> SUFFICES ASSUME Init PROVE RInv
    OBVIOUS
  <2>1. IInv
    BY InitTypes DEF Init, IInv, WellSession
  <2>2. wait \in 0 .. LongestPause[task]
    BY <2>1, Limits DEF Init, IInv, TypeOK
  <2> QED
    BY <2>1, <2>2 DEF Init, RInv, Punctual, Lost, Recovering
<1>2. RInv /\ [Next]_vars => RInv'
  BY StepRecovers
<1>3. RInv => RecoversInTime
  <2> SUFFICES ASSUME RInv, wellFor >= Bound[task] PROVE pc = "open"
    BY DEF RecoversInTime
  <2>1. TimeLeft \in Nat /\ TimeLeft < Bound[task] /\ Bound[task] \in Nat /\ wellFor \in Nat
    BY EnoughTime, Limits DEF RInv, IInv, TypeOK
  <2>2. wellFor > 0 /\ ~(wellFor + TimeLeft < Bound[task])
    BY <2>1
  <2> QED
    BY <2>2 DEF RInv, Recovering, Safe
<1> QED
  BY <1>1, <1>2, <1>3, PTL DEF Spec
=============================================================================
