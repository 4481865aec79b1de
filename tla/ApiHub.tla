------------------------------- MODULE ApiHub -------------------------------
(***************************************************************************)
(* The API server between the controller and its clients (Home Assistant): *)
(* the registry with the last value of every entity, the hub of those who  *)
(* want to hear of changes, and the task that serves a connection.  Values *)
(* are pushed without waiting, so a slow client misses some; what a client *)
(* asks for is sent with waiting, and meanwhile its requests pile up in a  *)
(* ring that overwrites the oldest.                                        *)
(*                                                                         *)
(* Frames that answer a request at once (pings, lists, times) and the key  *)
(* exchange change no state and are left out.                              *)
(***************************************************************************)
EXTENDS Integers, SequencesExt

CONSTANTS
  Conns,          \* the connections a client may have at a time
  Entities, Order, \* the entities, and the order of their registration
  Repushed,       \* those every full push holds: dac_level, not pv_power
  Values, None,
  ChanMax,        \* outgoing frames a connection holds, 256
  RingMax,        \* incoming messages it holds, 128
  MaxChanges, MaxLogs, MaxRequests  \* bounds: changes, log lines, requests

ASSUME EntitiesAssumption ==
  /\ Repushed \subseteq Entities /\ Order \in Seq(Entities) /\ ToSet(Order) = Entities
  /\ None \notin Values
ASSUME BoundsAssumption ==
  /\ {ChanMax, RingMax} \subseteq Nat \ {0} /\ {MaxChanges, MaxLogs, MaxRequests} \subseteq Nat

VARIABLES
  registry,   \* the last value of every entity
  pending,    \* the frame of an update whose broadcast is still to come, or <<>>
  subscribers, logSubscribers,  \* the hub: the entries its lists have for a connection
  open,       \* the client has the connection
  chan,       \* frames on their way to the client
  ring, lagged, \* messages on their way from the client; some were overwritten
  handler,    \* handle_connection: absent, listening or sending
  burst,      \* frames it has still to send
  asked,      \* the client subscribed, and its subscription was served
  seen,       \* the value the client shows for an entity
  sent, handled, \* requests of the connection: sent, and taken by the handler
  paused,     \* the watchdog gets no further than a stale grid or a calibration
  changes, logged \* for the bounds

conns == <<open, ring, lagged, handler, burst, asked, sent, handled>>
vars == <<registry, pending, subscribers, logSubscribers, chan, seen, paused, changes, logged, conns>>
hub == <<subscribers, logSubscribers>>
rest == <<paused, changes, logged>>

State(e, v) == [entity |-> e, value |-> v]
Log == [entity |-> None, value |-> None]

-----------------------------------------------------------------------------
(* The controller's side: ApiServer::update_* and send_log.                *)

Room(c) == open[c] /\ Len(chan[c]) < ChanMax
\* Mutant: the channel has no limit.
ToldAnyway(list, frame) ==
  chan' = [c \in Conns |-> IF list[c] > 0 /\ open[c] THEN Append(chan[c], frame) ELSE chan[c]]
\* try_send: a frame for a full channel is skipped.
Told(list, frame) ==
  chan' = [c \in Conns |-> IF list[c] > 0 /\ Room(c) THEN Append(chan[c], frame) ELSE chan[c]]
\* Mutant: whoever has no room is dropped.
KeepFast(list) == [c \in Conns |-> IF Room(c) THEN list[c] ELSE 0]
\* Only a connection that is closed is dropped.
Keep(list) == [c \in Conns |-> IF open[c] THEN list[c] ELSE 0]

\* The registry is written first, under its lock; the callers hold the lock of
\* the bridge until the frame is broadcast.
Update(e, v) ==
  /\ pending = <<>>
  /\ registry' = [registry EXCEPT ![e] = v] /\ pending' = <<State(e, v)>>
  /\ UNCHANGED <<hub, chan, seen, paused, logged, conns>>
Change ==
  /\ changes < MaxChanges /\ changes' = changes + 1
  /\ \E e \in Entities, v \in Values : v # registry[e] /\ Update(e, v)
\* The full push of every 30 s, whatever the value.  A watchdog pass that finds
\* no fresh grid power, or a calibration, ends before it.
Repush(e) == ~paused /\ Update(e, registry[e]) /\ UNCHANGED changes
\* The grid power goes stale or comes back, a calibration begins or ends.
Pause ==
  paused' = ~paused /\ UNCHANGED <<registry, pending, hub, chan, seen, changes, logged, conns>>
Broadcast ==
  /\ pending # <<>> /\ pending' = <<>>
  /\ Told(subscribers, pending[1]) /\ subscribers' = Keep(subscribers)
  /\ UNCHANGED <<registry, logSubscribers, seen, rest, conns>>
SendLog ==
  /\ logged < MaxLogs /\ logged' = logged + 1
  /\ Told(logSubscribers, Log) /\ logSubscribers' = Keep(logSubscribers)
  /\ UNCHANGED <<registry, pending, subscribers, seen, paused, changes, conns>>

-----------------------------------------------------------------------------
(* handle_connection.                                                      *)

\* A list that holds a connection already stays as it is.
\* Mutant: every request is entered.
EnterTwice(list, c) == [list EXCEPT ![c] = @ + 1]
Enter(list, c) == [list EXCEPT ![c] = IF @ = 0 THEN 1 ELSE @]

\* Any error of recv ends the task, a lag like a closed connection.
\* Mutant: a lag is nothing to worry about.
OnlyClosed(c) == ring[c] = <<>> /\ ~open[c]
RecvFails(c) == lagged[c] \/ (ring[c] = <<>> /\ ~open[c])
\* Else it returns the oldest message of the ring.
Receive(c, request) ==
  /\ handler[c] = "listening" /\ ~RecvFails(c) /\ ring[c] # <<>> /\ Head(ring[c]).is = request
  /\ ring' = [ring EXCEPT ![c] = Tail(@)] /\ lagged' = [lagged EXCEPT ![c] = FALSE]
  /\ handled' = [handled EXCEPT ![c] = Head(ring[c]).number]
\* The subscriber is entered; the snapshot of the registry comes after.
HandleSubscribe(c) ==
  /\ Receive(c, "states")
  /\ subscribers' = Enter(subscribers, c)
  /\ asked' = [asked EXCEPT ![c] = TRUE]
  /\ handler' = [handler EXCEPT ![c] = "snapshot"]
  /\ UNCHANGED <<registry, pending, logSubscribers, open, chan, burst, seen, sent, rest>>
\* Mutant: the snapshot leaves out the last entity.
SnapshotShort == [i \in 1 .. Len(Order) - 1 |-> State(Order[i], registry[Order[i]])]
InitialStateFrames == [i \in 1 .. Len(Order) |-> State(Order[i], registry[Order[i]])]
Snapshot(c) ==
  /\ handler[c] = "snapshot"
  /\ handler' = [handler EXCEPT ![c] = "sending"]
  /\ burst' = [burst EXCEPT ![c] = InitialStateFrames]
  /\ UNCHANGED <<registry, pending, hub, open, chan, ring, lagged, asked, seen, sent, handled, rest>>
\* send().await: one frame after the other, when there is room.
SendFrame(c) ==
  /\ handler[c] = "sending" /\ burst[c] # <<>> /\ Room(c)
  /\ chan' = [chan EXCEPT ![c] = Append(@, Head(burst[c]))]
  /\ burst' = [burst EXCEPT ![c] = Tail(@)]
  /\ UNCHANGED <<registry, pending, hub, open, ring, lagged, handler, asked, seen, sent, handled, rest>>
BurstDone(c) ==
  /\ handler[c] = "sending" /\ burst[c] = <<>>
  /\ handler' = [handler EXCEPT ![c] = "listening"]
  /\ UNCHANGED <<registry, pending, hub, open, chan, ring, lagged, burst, asked, seen, sent, handled, rest>>
HandleLogs(c) ==
  /\ Receive(c, "logs") /\ logSubscribers' = Enter(logSubscribers, c)
  /\ UNCHANGED <<registry, pending, subscribers, open, chan, handler, burst, asked, seen, sent, rest>>
\* A command goes to the controller's queue.
HandleCommand(c) ==
  /\ Receive(c, "command")
  /\ UNCHANGED <<registry, pending, hub, open, chan, handler, burst, asked, seen, sent, rest>>

\* The guard clears the hub, and dropping the connection closes it.
SendFails(c) == ~open[c] /\ burst[c] # <<>>
HandlerEnds(c) ==
  /\ \/ handler[c] = "listening" /\ RecvFails(c)
     \/ handler[c] = "sending" /\ SendFails(c)
  /\ handler' = [handler EXCEPT ![c] = "absent"]
  /\ subscribers' = [subscribers EXCEPT ![c] = 0]
  /\ logSubscribers' = [logSubscribers EXCEPT ![c] = 0]
  /\ open' = [open EXCEPT ![c] = FALSE] /\ asked' = [asked EXCEPT ![c] = FALSE]
  /\ chan' = [chan EXCEPT ![c] = <<>>] /\ ring' = [ring EXCEPT ![c] = <<>>]
  /\ burst' = [burst EXCEPT ![c] = <<>>] /\ lagged' = [lagged EXCEPT ![c] = FALSE]
  /\ UNCHANGED <<registry, pending, seen, sent, handled, rest>>

-----------------------------------------------------------------------------
(* The clients.                                                            *)

Connect(c) ==
  /\ handler[c] = "absent" /\ ~open[c] /\ sent[c] < MaxRequests
  /\ handler' = [handler EXCEPT ![c] = "listening"] /\ open' = [open EXCEPT ![c] = TRUE]
  /\ handled' = [handled EXCEPT ![c] = sent[c]]
  /\ seen' = [seen EXCEPT ![c] = [e \in Entities |-> None]]
  /\ UNCHANGED <<registry, pending, hub, chan, ring, lagged, burst, asked, sent, rest>>
\* A full ring loses its oldest message.
Request(c, request) ==
  /\ open[c] /\ sent[c] < MaxRequests /\ sent' = [sent EXCEPT ![c] = @ + 1]
  /\ LET r == Append(ring[c], [is |-> request, number |-> sent'[c]])
     IN  /\ ring' = [ring EXCEPT ![c] = IF Len(r) > RingMax THEN Tail(r) ELSE r]
         /\ lagged' = [lagged EXCEPT ![c] = @ \/ Len(r) > RingMax]
  /\ UNCHANGED <<registry, pending, hub, open, chan, handler, burst, asked, seen, handled, rest>>
Read(c) ==
  /\ open[c] /\ chan[c] # <<>>
  /\ chan' = [chan EXCEPT ![c] = Tail(@)]
  /\ LET frame == Head(chan[c]) IN
     seen' = IF frame = Log THEN seen ELSE [seen EXCEPT ![c][frame.entity] = frame.value]
  /\ UNCHANGED <<registry, pending, hub, rest, conns>>
Disconnect(c) ==
  /\ open[c] /\ open' = [open EXCEPT ![c] = FALSE] /\ chan' = [chan EXCEPT ![c] = <<>>]
  /\ UNCHANGED <<registry, pending, hub, ring, lagged, handler, burst, asked, seen, sent, handled, rest>>

Init ==
  /\ registry \in [Entities -> Values] /\ pending = <<>>
  /\ subscribers = [c \in Conns |-> 0] /\ logSubscribers = [c \in Conns |-> 0]
  /\ open = [c \in Conns |-> FALSE] /\ handler = [c \in Conns |-> "absent"]
  /\ chan = [c \in Conns |-> <<>>] /\ ring = [c \in Conns |-> <<>>]
  /\ burst = [c \in Conns |-> <<>>] /\ lagged = [c \in Conns |-> FALSE]
  /\ asked = [c \in Conns |-> FALSE] /\ seen = [c \in Conns |-> [e \in Entities |-> None]]
  /\ sent = [c \in Conns |-> 0] /\ handled = [c \in Conns |-> 0] /\ changes = 0 /\ logged = 0
  /\ paused \in BOOLEAN

Handle(c) ==
  HandleSubscribe(c) \/ Snapshot(c) \/ SendFrame(c) \/ BurstDone(c) \/ HandleLogs(c)
    \/ HandleCommand(c) \/ HandlerEnds(c)
Client(c) ==
  Connect(c) \/ Read(c) \/ Disconnect(c) \/ \E r \in {"states", "logs", "command"} : Request(c, r)
Server == Change \/ Broadcast \/ SendLog \/ Pause \/ \E e \in Repushed : Repush(e)
Next == Server \/ \E c \in Conns : Handle(c) \/ Client(c)
Spec == Init /\ [][Next]_vars
\* The controller pushes every 30 s if its watchdog is not stopped short again
\* and again, the runtime runs every task, a send that waits is given the next
\* free slot, and a client that stays reads in the end.
FairSpec ==
  /\ Spec /\ WF_vars(Broadcast)
  /\ \A e \in Repushed : <>[]~paused => SF_vars(Repush(e))
  /\ \A c \in Conns : WF_vars(Handle(c)) /\ SF_vars(SendFrame(c)) /\ WF_vars(Read(c))
-----------------------------------------------------------------------------
\* Every variable keeps its type, and channels and rings their capacity.
TypeOK ==
  /\ registry \in [Entities -> Values] /\ Len(pending) <= 1
  /\ {subscribers, logSubscribers} \subseteq [Conns -> Nat]
  /\ \A c \in Conns :
       /\ handler[c] \in {"absent", "listening", "snapshot", "sending"}
       /\ Len(chan[c]) <= ChanMax /\ Len(ring[c]) <= RingMax
       /\ ToSet(seen[c]) \subseteq Values \cup {None} /\ handled[c] <= sent[c]

\* A client that subscribed is heard as long as it is connected, and only once;
\* "an eviction here leaves HA connected yet deaf" (server.rs:271).  Whoever is
\* gone leaves nothing behind, and log lines are sent at most once as well.
ConnectedMeansHeard ==
  \A c \in Conns :
    /\ subscribers[c] <= 1 /\ (handler[c] = "absent" => subscribers[c] = 0)
    /\ asked[c] /\ open[c] => subscribers[c] = 1
    /\ logSubscribers[c] <= 1 /\ (handler[c] = "absent" => logSubscribers[c] = 0)

\* A connection handles what it is asked without a gap: when requests were
\* overwritten in the ring, the connection ends, and the client knows.
NoRequestSkipped ==
  [][\A c \in Conns : handler[c] # "absent" => handled'[c] \in {handled[c], handled[c] + 1}]_vars

\* "The missed update self-heals on the next push" (server.rs:275): a client that
\* stays ends up with the present value of every entity each full push holds,
\* however many frames it missed, once the grid power stays fresh and no
\* calibration runs.  While the meter is gone, what was missed stays missed.
Subscribed(c) == asked[c] /\ open[c]
MissedUpdatesHeal ==
  \A c \in Conns :
    <>[](Subscribed(c) /\ ~paused) => \A e \in Repushed : <>[](seen[c][e] = registry[e])

\* And it is shown some value of every entity, pushed again or not.
EveryEntityShown ==
  \A c \in Conns : <>[]Subscribed(c) => <>[](\A e \in Entities : seen[c][e] # None)
=============================================================================
