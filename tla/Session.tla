------------------------------- MODULE Session -------------------------------
(***************************************************************************)
(* The life of the two client sessions, powerlogger and kaskade: a session *)
(* connects to its ESP, is kept by frames and pings or ended by a timer,   *)
(* and is followed by a pause that grows from failure to failure.  What is *)
(* said in a session is left out; the switch of the kaskade is in Boiler.  *)
(* One behaviour is the life of one of the two tasks, in ticks of 10 s.    *)
(*                                                                         *)
(* The ESP is well; or deaf: it pushes frames and reads none; or mute: it  *)
(* keeps the connection and does nothing with it; or down, and whoever     *)
(* goes down has forgotten the connection.                                 *)
(***************************************************************************)
EXTENDS Integers

CONSTANTS
  PingEvery,      \* PING_INTERVAL
  PongDeadline,   \* PONG_DEADLINE
  Watchdog,       \* 120 s without a frame
  Stable,         \* STABLE_SESSION_MIN
  Keepalive,      \* 30 s and 3 probes, until the kernel gives a dead peer up
  SynGap,         \* how long the kernel may wait before its next SYN, or its timeout
  Slow,           \* how long a well ESP may take for an answer
  Capacity,       \* frames the channel and the sockets hold
  Bound           \* what "in time" means, by task

Tasks == {"powerlogger", "kaskade"}
ASSUME TimesAssumption ==
  {PingEvery, PongDeadline, Watchdog, Stable, Keepalive, SynGap, Slow, Capacity} \subseteq Nat \ {0}
\* A silent ESP is given up before the pings to it fill the channel.
ASSUME CapacityAssumption == Capacity * PingEvery > Watchdog /\ Slow < Watchdog
\* A well ESP answers a ping before either timer has run out.
ASSUME AnswerAssumption == PingEvery + Slow < Watchdog /\ Slow < PongDeadline

VARIABLES
  task,     \* whose life this is
  peer, linked,  \* the ESP, and whether it knows the connection
  dns, cached,   \* the name can be resolved; last_addr is set
  pc,       \* connecting, handshake, open, blocked in tx.send, or sleeping
  elapsed,  \* since session_start, up to Stable
  idle,     \* until the watchdog
  ping, pong,    \* until the next ping, until the pong deadline
  queue,    \* frames the ESP has not read
  owed,     \* how long something has been due from the ESP or the kernel
  tries, backoff, \* the growth of the pauses: powerlogger, kaskade
  wait,     \* what is left of the pause
  wellFor, clean  \* how long the ESP has been well; it was so all session

vars == <<task, peer, linked, dns, cached, pc, elapsed, idle, ping, pong, queue, owed, tries,
          backoff, wait, wellFor, clean>>
world == <<task, peer, dns, wellFor>>
timers == <<idle, ping, pong>>
pauses == <<tries, backoff, wait>>

Far == 360                        \* the 3600 s of a disarmed deadline
Ticks(secs) == (secs + 9) \div 10 \* seconds in whole ticks, rounded up
\* The longest pause: reconnect_delay * 60, and the cap of the backoff.
LongestPause == [powerlogger |-> Ticks(300), kaskade |-> Ticks(60)]
\* In time: a lost or unanswered connection has to be given up, or a connect that
\* began before the ESP was well; after the longest pause the next connect and
\* the handshake take their time.
ASSUME BoundAssumption ==
  /\ Bound \in [Tasks -> Nat]
  /\ \A t \in Tasks, gone \in {Keepalive, PingEvery + Slow, Slow + Slow, SynGap} :
       gone + LongestPause[t] + Slow + Slow < Bound[t]
Less(n) == IF n = 0 THEN 0 ELSE n - 1
AtMost(n, max) == IF n > max THEN max ELSE n

-----------------------------------------------------------------------------
(* The pause after a session.                                              *)

\* reconnect_delay * min(1.8^tries, 60), at 5 s, in seconds rounded up; seven
\* tries reach the cap.
TriesMax == 7
PowerloggerDelay(t) == <<5, 9, 17, 30, 53, 95, 171, 300>>[t + 1]
WasStable == elapsed >= Stable
\* Mutant: the tries of the whole process count.
NeverForget == AtMost(tries + 1, TriesMax)
NextTries == IF WasStable THEN 0 ELSE AtMost(tries + 1, TriesMax)
\* Mutant: the pause goes on growing (here, up to 20 min).
Uncapped(b) == AtMost(2 * b, 1200)
NextBackoff(b) == AtMost(2 * b, 60)

PausePowerlogger ==
  /\ task = "powerlogger"
  /\ tries' = NextTries /\ wait' = Ticks(PowerloggerDelay(tries')) /\ UNCHANGED backoff
PauseKaskade ==
  /\ task = "kaskade"
  /\ LET b == IF WasStable THEN 5 ELSE backoff
     IN  wait' = Ticks(b) /\ backoff' = NextBackoff(b)
  /\ UNCHANGED tries
SessionEnds ==
  /\ pc' = "sleeping" /\ linked' = FALSE /\ queue' = 0 /\ owed' = 0
  /\ PausePowerlogger \/ PauseKaskade
  /\ UNCHANGED <<world, cached, elapsed, timers, clean>>

-----------------------------------------------------------------------------
(* EspHomeClient::connect and run_session.                                 *)

\* The end of the pause: the next session begins with resolve_target.
WakeUp ==
  /\ pc = "sleeping" /\ wait = 0
  /\ pc' = "connecting" /\ elapsed' = 0 /\ clean' = (peer = "well")
  /\ UNCHANGED <<world, linked, cached, timers, queue, owed, pauses>>
\* Without an address, or without anyone there, the session fails; and it may
\* time out where the last SYN went to an ESP that was not yet well.
\* Mutant: the last address is not kept.
ByNameOnly == dns
Resolves == dns \/ cached
ConnectFails ==
  /\ pc = "connecting" /\ (~Resolves \/ peer = "down" \/ ~clean)
  /\ SessionEnds
\* TcpStream::connect; the handshake follows, and nothing limits its time.
TcpConnects ==
  /\ pc = "connecting" /\ Resolves /\ peer # "down"
  /\ pc' = "handshake" /\ linked' = TRUE /\ cached' = TRUE /\ owed' = 0
  /\ UNCHANGED <<world, elapsed, timers, queue, pauses, clean>>
Opens ==
  /\ pc = "handshake" /\ linked /\ peer = "well"
  /\ pc' = "open" /\ idle' = Watchdog /\ ping' = 0 /\ pong' = Far /\ queue' = 0 /\ owed' = 0
  /\ UNCHANGED <<world, linked, cached, elapsed, pauses, clean>>

\* Any frame resets the watchdog; a PingResponse disarms the deadline.
\* Mutant: the watchdog runs from the start of the session.
FrameUnnoticed(pongs) == UNCHANGED <<idle, ping>> /\ pong' = IF pongs THEN Far ELSE pong
Frame(pongs) == idle' = Watchdog /\ UNCHANGED ping /\ pong' = IF pongs THEN Far ELSE pong
Push ==
  /\ pc = "open" /\ linked /\ peer \in {"well", "deaf"}
  /\ Frame(FALSE)
  /\ UNCHANGED <<world, linked, cached, pc, elapsed, queue, owed, pauses, clean>>
Pong ==
  /\ pc = "open" /\ linked /\ peer = "well" /\ queue > 0
  /\ Frame(TRUE) /\ queue' = 0 /\ owed' = 0
  /\ UNCHANGED <<world, linked, cached, pc, elapsed, pauses, clean>>

\* ping_sent: the deadline counts from the last ping.
Arm == pong' = PongDeadline
Ping ==
  /\ pc = "open" /\ ping = 0
  /\ IF queue < Capacity
     THEN ping' = PingEvery /\ Arm /\ queue' = queue + 1 /\ UNCHANGED pc
     ELSE pc' = "blocked" /\ UNCHANGED <<ping, pong, queue>>
  /\ UNCHANGED <<world, linked, cached, elapsed, idle, owed, pauses, clean>>
\* The send returns once the ESP reads again.
Unblocks ==
  /\ pc = "blocked" /\ linked /\ peer = "well"
  /\ pc' = "open" /\ ping' = PingEvery /\ Arm /\ queue' = 1 /\ owed' = 0
  /\ UNCHANGED <<world, linked, cached, elapsed, idle, pauses, clean>>

\* No frame for the time of the watchdog, or no answer to the last ping.
TimerFires == pc = "open" /\ 0 \in {idle, pong} /\ SessionEnds
\* The reader ends: the ESP resets a connection it does not know, or the
\* kernel gives it up.
Closed == pc \in {"handshake", "open", "blocked"} /\ ~linked /\ SessionEnds

-----------------------------------------------------------------------------
(* The ESP, the network, and time.                                         *)

Lost == ~linked /\ pc \in {"handshake", "open", "blocked"}
PeerIs(p) ==
  /\ p # peer /\ peer' = p /\ linked' = (linked /\ p # "down")
  /\ owed' = IF linked' = linked /\ Lost THEN owed ELSE 0
  /\ clean' = FALSE /\ wellFor' = 0
  /\ UNCHANGED <<task, dns, cached, pc, elapsed, timers, queue, pauses>>
PeerChanges == \E p \in {"well", "deaf", "mute", "down"} : PeerIs(p)
DnsChanges ==
  /\ dns' = ~dns /\ wellFor' = IF cached THEN wellFor ELSE 0
  /\ UNCHANGED <<task, peer, linked, cached, pc, elapsed, timers, queue, owed, pauses, clean>>

\* Time does not pass while the program or the ESP is late with something.
Unanswered == linked /\ peer = "well" /\ (pc = "handshake" \/ (pc = "open" /\ queue > 0))
Due == (pc = "connecting" /\ peer # "down") \/ Unanswered \/ Lost
Patience ==
  IF Lost THEN Keepalive
  ELSE IF Unanswered \/ (pc = "connecting" /\ clean) THEN Slow ELSE SynGap
Late ==
  \/ pc = "sleeping" /\ wait = 0
  \/ pc = "connecting" /\ ~Resolves
  \/ pc = "open" /\ 0 \in {idle, ping, pong}
  \/ pc = "blocked" /\ linked /\ peer = "well"
  \/ Due /\ owed >= Patience
Tick ==
  /\ ~Late
  /\ elapsed' = AtMost(elapsed + 1, Stable)
  /\ IF pc \in {"open", "blocked"}
     THEN idle' = Less(idle) /\ ping' = Less(ping) /\ pong' = IF pong = Far THEN Far ELSE Less(pong)
     ELSE UNCHANGED timers
  /\ owed' = IF Due THEN owed + 1 ELSE owed
  /\ wait' = Less(wait)
  /\ wellFor' = IF peer = "well" /\ (dns \/ cached) THEN AtMost(wellFor + 1, Bound[task]) ELSE 0
  /\ UNCHANGED <<task, peer, linked, dns, cached, pc, queue, tries, backoff, clean>>

Init ==
  /\ task \in Tasks /\ peer = "well" /\ linked = FALSE /\ dns \in BOOLEAN /\ cached = FALSE
  /\ pc = "sleeping" /\ elapsed = 0 /\ idle = Watchdog /\ ping = 0 /\ pong = Far
  /\ queue = 0 /\ owed = 0 /\ tries = 0 /\ backoff = 5 /\ wait = 0 /\ wellFor = 0 /\ clean = TRUE

Task ==
  WakeUp \/ ConnectFails \/ TcpConnects \/ Opens \/ Push \/ Pong \/ Ping \/ Unblocks
    \/ TimerFires \/ Closed
Next == Task \/ PeerChanges \/ DnsChanges \/ Tick
Spec == Init /\ [][Next]_vars
\* Time goes on, the task runs, and select! starves none of its branches.
FairSpec ==
  Spec /\ WF_vars(Tick) /\ WF_vars(Task) /\ WF_vars(TimerFires)
-----------------------------------------------------------------------------
\* Every variable keeps its type, and every counter its limit.
TypeOK ==
  /\ task \in Tasks /\ peer \in {"well", "deaf", "mute", "down"}
  /\ {linked, dns, cached, clean} \subseteq BOOLEAN
  /\ pc \in {"connecting", "handshake", "open", "blocked", "sleeping"}
  /\ elapsed \in 0 .. Stable /\ idle \in 0 .. Watchdog /\ ping \in 0 .. PingEvery
  /\ pong \in 0 .. PongDeadline \cup {Far} /\ queue \in 0 .. Capacity
  /\ tries \in 0 .. TriesMax /\ backoff \in {5, 10, 20, 40, 60}

\* "A live session is never torn down": no timer ends a session whose ESP was
\* well from its beginning, however slow its answers are.
LiveSessionKept == [][TimerFires => ~clean]_vars

\* However often it failed before, an ESP that is well and can be addressed has
\* its session again in bounded time.
RecoversInTime == wellFor >= Bound[task] => pc = "open"

\* "The next unexpected drop restarts the reconnect backoff at its first step":
\* the pause after a session of a minute is the shortest.
StableSessionResetsBackoff ==
  [][pc # "sleeping" /\ pc' = "sleeping" /\ WasStable => wait' = Ticks(5)]_vars

\* "A peer that keeps pushing stale data but has stopped reading our frames
\* would go unnoticed" without the ping: with it, its session comes to an end.
\* It does not: every ping puts the deadline off, long before it is due.
DeafPeerIsNoticed ==
  (pc = "open" /\ peer = "deaf") ~> (pc = "sleeping" \/ peer # "deaf")
=============================================================================
