---------------------------- MODULE ApiHubProofs ----------------------------
(***************************************************************************)
(* A connection handles the requests of its client without a gap, for any  *)
(* number of connections and requests, and any size of the ring: the       *)
(* messages in the ring are the last ones sent, so that without a lag the  *)
(* oldest of them is the one after the last that was handled.              *)
(* A client that asked for the states has its one entry in the hub as long *)
(* as it is connected, one that asked for log lines at most one, and both  *)
(* none afterwards.                                                        *)
(***************************************************************************)
EXTENDS ApiHub, SequenceTheorems, TLAPS

Requests == {"states", "logs", "command"}
Messages == [is : Requests, number : Nat]

Types ==
  /\ ring \in [Conns -> Seq(Messages)] /\ lagged \in [Conns -> BOOLEAN]
  /\ open \in [Conns -> BOOLEAN]
  /\ sent \in [Conns -> Nat] /\ handled \in [Conns -> Nat]
  /\ handler \in [Conns -> {"absent", "listening", "snapshot", "sending"}]

\* A connection that is not served holds nothing.
Absent(c) == handler[c] = "absent" => ~open[c] /\ ring[c] = <<>> /\ ~lagged[c]
\* The ring holds the last messages, and before a lag all that are not handled.
LastSent(c) ==
  \A i \in 1 .. Len(ring[c]) : ring[c][i].number = sent[c] - Len(ring[c]) + i
Unhandled(c) == ~lagged[c] => handled[c] = sent[c] - Len(ring[c])
InStep(c) == Absent(c) /\ (handler[c] # "absent" => LastSent(c) /\ Unhandled(c))

IInv == Types /\ \A c \in Conns : InStep(c)

\* What NoRequestSkipped asks of a connection's step.
NoGap(c) == handler[c] # "absent" => handled'[c] \in {handled[c], handled[c] + 1}

-----------------------------------------------------------------------------
(* The ring.                                                               *)

\* A message at the end of the ring, which may have lost its oldest one.
LEMMA RingGrows ==
  ASSUME NEW s \in Seq(Messages), NEW n \in Nat, NEW m \in Messages, m.number = n + 1,
         \A i \in 1 .. Len(s) : s[i].number = n - Len(s) + i
  PROVE  LET r == Append(s, m) IN
         /\ r \in Seq(Messages) /\ Len(r) = Len(s) + 1
         /\ \A i \in 1 .. Len(r) : r[i].number = (n + 1) - Len(r) + i
         /\ Tail(r) \in Seq(Messages) /\ Len(Tail(r)) = Len(s)
         /\ \A i \in 1 .. Len(Tail(r)) : Tail(r)[i].number = (n + 1) - Len(Tail(r)) + i
<1> DEFINE r == Append(s, m)
<1>1. Len(s) \in Nat
  BY LenProperties
<1>2. /\ r \in Seq(Messages) /\ Len(r) = Len(s) + 1 /\ r # <<>>
      /\ \A i \in 1 .. Len(s) : r[i] = s[i]
      /\ r[Len(s) + 1] = m
  BY AppendProperties
<1>3. ASSUME NEW i \in 1 .. Len(r) PROVE r[i].number = (n + 1) - Len(r) + i
  <2>1. CASE i \in 1 .. Len(s)
    <3>1. r[i].number = n - Len(s) + i
      BY <1>2, <2>1
    <3> QED
      BY <1>1, <1>2, <3>1
  <2>2. CASE i = Len(s) + 1
    BY <1>1, <1>2, <2>2
  <2> QED
    BY <1>1, <1>2, <2>1, <2>2
<1>4. /\ Tail(r) \in Seq(Messages) /\ Len(Tail(r)) = Len(s)
      /\ \A i \in 1 .. Len(Tail(r)) : Tail(r)[i] = r[i + 1]
  BY <1>1, <1>2, HeadTailProperties
<1>5. ASSUME NEW i \in 1 .. Len(Tail(r)) PROVE Tail(r)[i].number = (n + 1) - Len(Tail(r)) + i
  <2>1. i + 1 \in 1 .. Len(r) /\ Tail(r)[i] = r[i + 1]
    BY <1>1, <1>2, <1>4
  <2>2. r[i + 1].number = (n + 1) - Len(r) + (i + 1)
    BY <1>3, <2>1
  <2>3. Len(r) = Len(Tail(r)) + 1 /\ Len(Tail(r)) \in Nat
    BY <1>1, <1>2, <1>4
  <2>4. Tail(r)[i].number = (n + 1) - Len(r) + (i + 1)
    BY <2>1, <2>2, Zenon
  <2>5. i \in Nat
    BY <2>3
  <2>6. \A k \in Nat : (n + 1) - (k + 1) + (i + 1) = (n + 1) - k + i
    BY <2>5
  <2> QED
    BY <2>3, <2>4, <2>6, Zenon
<1> QED
  BY <1>2, <1>3, <1>4, <1>5

\* The oldest message leaves the ring.
LEMMA RingShrinks ==
  ASSUME NEW s \in Seq(Messages), s # <<>>, NEW n \in Nat,
         \A i \in 1 .. Len(s) : s[i].number = n - Len(s) + i
  PROVE  /\ Len(s) \in Nat /\ Head(s).number = n - Len(s) + 1 /\ Head(s).number \in Nat
         /\ Tail(s) \in Seq(Messages) /\ Len(Tail(s)) = Len(s) - 1
         /\ \A i \in 1 .. Len(Tail(s)) : Tail(s)[i].number = n - Len(Tail(s)) + i
<1>1. Len(s) \in Nat /\ Len(s) >= 1
  BY EmptySeq, LenProperties
<1>2. /\ Head(s) \in Messages /\ Tail(s) \in Seq(Messages) /\ Len(Tail(s)) = Len(s) - 1
      /\ \A i \in 1 .. Len(Tail(s)) : Tail(s)[i] = s[i + 1]
  BY HeadTailProperties
<1>3. Head(s) = s[1] /\ 1 \in 1 .. Len(s)
  BY <1>1
<1>4. Head(s).number \in Nat
  BY <1>2 DEF Messages
<1>5. ASSUME NEW i \in 1 .. Len(Tail(s)) PROVE Tail(s)[i].number = n - Len(Tail(s)) + i
  <2>1. i + 1 \in 1 .. Len(s) /\ Tail(s)[i] = s[i + 1]
    BY <1>1, <1>2
  <2>2. s[i + 1].number = n - Len(s) + (i + 1)
    BY <2>1
  <2> QED
    BY <1>1, <1>2, <2>1, <2>2
<1> QED
  BY <1>1, <1>2, <1>3, <1>4, <1>5

-----------------------------------------------------------------------------
(* The steps.                                                              *)

LEMMA InitInv == ASSUME Init PROVE IInv
  BY DEF Init, IInv, Types, InStep, Absent

\* What the invariant is about.
About == <<ring, lagged, open, sent, handled, handler>>

LEMMA Unchanged == ASSUME IInv, UNCHANGED About PROVE IInv' /\ \A c \in Conns : NoGap(c)
  BY DEF IInv, Types, InStep, Absent, LastSent, Unhandled, About, NoGap

\* A step of one connection leaves the others alone.
OnlyAt(c) ==
  \A d \in Conns \ {c} :
    /\ ring'[d] = ring[d] /\ lagged'[d] = lagged[d] /\ open'[d] = open[d]
    /\ sent'[d] = sent[d] /\ handled'[d] = handled[d] /\ handler'[d] = handler[d]

LEMMA OneConnection ==
  ASSUME IInv, NEW c \in Conns, OnlyAt(c), Types', InStep(c)', NoGap(c)
  PROVE  IInv' /\ \A d \in Conns : NoGap(d)
<1>1. ASSUME NEW d \in Conns, d # c PROVE InStep(d)' /\ NoGap(d)
  BY <1>1 DEF OnlyAt, IInv, InStep, Absent, LastSent, Unhandled, NoGap
<1> QED
  BY <1>1 DEF IInv

LEMMA ReceiveStep ==
  ASSUME IInv, NEW c \in Conns, NEW request, Receive(c, request),
         UNCHANGED <<open, sent>>, handler'[c] # "absent",
         handler' \in [Conns -> {"absent", "listening", "snapshot", "sending"}],
         \A d \in Conns \ {c} : handler'[d] = handler[d]
  PROVE  IInv' /\ \A d \in Conns : NoGap(d)
<1>1. /\ handler[c] = "listening" /\ ~lagged[c] /\ ring[c] # <<>>
      /\ ring' = [ring EXCEPT ![c] = Tail(ring[c])] /\ lagged' = [lagged EXCEPT ![c] = FALSE]
      /\ handled' = [handled EXCEPT ![c] = Head(ring[c]).number]
  BY DEF Receive, RecvFails
<1>2. Types /\ LastSent(c) /\ Unhandled(c) /\ ring[c] \in Seq(Messages) /\ sent[c] \in Nat
  BY <1>1 DEF IInv, Types, InStep
<1>3. /\ Len(ring[c]) \in Nat /\ Head(ring[c]).number = sent[c] - Len(ring[c]) + 1
      /\ Head(ring[c]).number \in Nat
      /\ Tail(ring[c]) \in Seq(Messages) /\ Len(Tail(ring[c])) = Len(ring[c]) - 1
      /\ \A i \in 1 .. Len(Tail(ring[c])) :
           Tail(ring[c])[i].number = sent[c] - Len(Tail(ring[c])) + i
  BY <1>1, <1>2, RingShrinks DEF LastSent
<1>4. Types'
  BY <1>1, <1>2, <1>3 DEF Types
<1>5. OnlyAt(c)
  BY <1>1, <1>2 DEF OnlyAt, Types
<1>6. ring'[c] = Tail(ring[c]) /\ handled'[c] = sent[c] - Len(ring[c]) + 1 /\ sent'[c] = sent[c]
  BY <1>1, <1>2, <1>3 DEF Types
<1>7. InStep(c)'
  <2>1. LastSent(c)'
    BY <1>3, <1>6 DEF LastSent
  <2>2. Unhandled(c)'
    BY <1>2, <1>3, <1>6 DEF Unhandled
  <2> QED
    BY <2>1, <2>2 DEF InStep, Absent
<1>8. NoGap(c)
  BY <1>1, <1>2, <1>3, <1>6 DEF NoGap, Unhandled, Types
<1> QED
  BY <1>4, <1>5, <1>7, <1>8, OneConnection

LEMMA HandleStep ==
  ASSUME IInv, NEW c \in Conns, Handle(c)
  PROVE  IInv' /\ \A d \in Conns : NoGap(d)
<1>1. Types
  BY DEF IInv
<1>2. CASE HandleSubscribe(c)
  BY <1>1, <1>2, ReceiveStep DEF HandleSubscribe, Types
<1>3. CASE HandleLogs(c)
  BY <1>1, <1>3, ReceiveStep DEF HandleLogs, Types, Receive
<1>4. CASE HandleCommand(c)
  BY <1>1, <1>4, ReceiveStep DEF HandleCommand, Types, Receive
<1>5. CASE SendFrame(c)
  BY <1>5, Unchanged DEF SendFrame, About
<1>6. ASSUME UNCHANGED <<ring, lagged, open, sent, handled>>, handler[c] # "absent",
             NEW h \in {"listening", "sending"}, handler' = [handler EXCEPT ![c] = h]
      PROVE  IInv' /\ \A d \in Conns : NoGap(d)
  BY <1>1, <1>6 DEF IInv, Types, InStep, Absent, LastSent, Unhandled, NoGap
<1>7. CASE Snapshot(c)
  BY <1>6, <1>7 DEF Snapshot
<1>8. CASE BurstDone(c)
  BY <1>6, <1>8 DEF BurstDone
<1>9. CASE HandlerEnds(c)
  <2>1. /\ handler' = [handler EXCEPT ![c] = "absent"] /\ open' = [open EXCEPT ![c] = FALSE]
        /\ ring' = [ring EXCEPT ![c] = <<>>] /\ lagged' = [lagged EXCEPT ![c] = FALSE]
        /\ UNCHANGED <<sent, handled>>
    BY <1>9 DEF HandlerEnds
  <2>2. Types' /\ OnlyAt(c) /\ NoGap(c)
    BY <1>1, <2>1 DEF Types, OnlyAt, NoGap
  <2>3. InStep(c)'
    BY <1>1, <2>1 DEF Types, InStep, Absent
  <2> QED
    BY <2>2, <2>3, OneConnection
<1> QED
  BY <1>2, <1>3, <1>4, <1>5, <1>7, <1>8, <1>9 DEF Handle

LEMMA RequestStep ==
  ASSUME IInv, NEW c \in Conns, NEW request \in Requests, Request(c, request)
  PROVE  IInv' /\ \A d \in Conns : NoGap(d)
<1> DEFINE m == [is |-> request, number |-> sent[c] + 1]
           r == Append(ring[c], m)
<1>1. Types /\ InStep(c) /\ open[c]
  BY DEF IInv, Request
<1>2. handler[c] # "absent" /\ LastSent(c) /\ Unhandled(c)
  BY <1>1 DEF InStep, Absent
<1>3. sent' = [sent EXCEPT ![c] = sent[c] + 1] /\ sent'[c] = sent[c] + 1 /\ sent[c] \in Nat
  BY <1>1 DEF Request, Types
<1>4. /\ ring' = [ring EXCEPT ![c] = IF Len(r) > RingMax THEN Tail(r) ELSE r]
      /\ lagged' = [lagged EXCEPT ![c] = lagged[c] \/ Len(r) > RingMax]
      /\ UNCHANGED <<open, handler, handled>>
  BY <1>3 DEF Request
<1>5. m \in Messages /\ m.number = sent[c] + 1 /\ ring[c] \in Seq(Messages)
  <2>1. ring[c] \in Seq(Messages)
    BY <1>1 DEF Types
  <2>2. m \in Messages /\ m.number = sent[c] + 1
    BY <1>3 DEF Messages
  <2> QED
    BY <2>1, <2>2
<1>6. /\ r \in Seq(Messages) /\ Len(r) = Len(ring[c]) + 1
      /\ \A i \in 1 .. Len(r) : r[i].number = (sent[c] + 1) - Len(r) + i
      /\ Tail(r) \in Seq(Messages) /\ Len(Tail(r)) = Len(ring[c])
      /\ \A i \in 1 .. Len(Tail(r)) : Tail(r)[i].number = (sent[c] + 1) - Len(Tail(r)) + i
  <2>1. \A i \in 1 .. Len(ring[c]) : ring[c][i].number = sent[c] - Len(ring[c]) + i
    BY <1>2 DEF LastSent
  <2> HIDE DEF m
  <2> QED
    BY <1>3, <1>5, <2>1, RingGrows
<1>7. Len(ring[c]) \in Nat
  BY <1>5, LenProperties
<1> HIDE DEF r
<1>8. Types'
  BY <1>1, <1>3, <1>4, <1>6 DEF Types
<1>9. OnlyAt(c)
  BY <1>1, <1>3, <1>4 DEF Types, OnlyAt
<1>10. LastSent(c)'
  <2>1. ring'[c] \in {r, Tail(r)}
    BY <1>1, <1>4 DEF Types
  <2> QED
    BY <1>3, <1>6, <2>1 DEF LastSent
<1>11. Unhandled(c)'
  <2> SUFFICES ASSUME ~lagged'[c] PROVE handled'[c] = sent'[c] - Len(ring'[c])
    BY DEF Unhandled
  <2>1. ~lagged[c] /\ ring'[c] = r
    BY <1>1, <1>4 DEF Types
  <2>2. handled'[c] = sent[c] - Len(ring[c])
    BY <1>2, <1>4, <2>1 DEF Unhandled
  <2> QED
    BY <1>3, <1>6, <1>7, <2>1, <2>2
<1>12. InStep(c)'
  BY <1>2, <1>4, <1>10, <1>11 DEF InStep, Absent
<1>13. NoGap(c)
  BY <1>4 DEF NoGap
<1> QED
  BY <1>8, <1>9, <1>12, <1>13, OneConnection

LEMMA ClientStep ==
  ASSUME IInv, NEW c \in Conns, Client(c)
  PROVE  IInv' /\ \A d \in Conns : NoGap(d)
<1>1. Types /\ InStep(c)
  BY DEF IInv
<1>2. CASE Connect(c)
  <2>1. /\ handler[c] = "absent" /\ handler' = [handler EXCEPT ![c] = "listening"]
        /\ open' = [open EXCEPT ![c] = TRUE] /\ handled' = [handled EXCEPT ![c] = sent[c]]
        /\ UNCHANGED <<ring, lagged, sent>>
    BY <1>2 DEF Connect
  <2>2. Types' /\ OnlyAt(c) /\ NoGap(c)
    BY <1>1, <2>1 DEF Types, OnlyAt, NoGap
  <2>3. ring'[c] = <<>> /\ handled'[c] = sent'[c] /\ sent'[c] \in Nat /\ handler'[c] # "absent"
    BY <1>1, <2>1 DEF Types, InStep, Absent
  <2>4. Len(ring'[c]) = 0
    BY <2>3
  <2>5. InStep(c)'
    BY <2>3, <2>4 DEF InStep, Absent, LastSent, Unhandled
  <2> QED
    BY <2>2, <2>5, OneConnection
<1>3. CASE Read(c)
  BY <1>3, Unchanged DEF Read, About, conns
<1>4. CASE Disconnect(c)
  BY <1>1, <1>4 DEF Disconnect, IInv, Types, InStep, Absent, LastSent, Unhandled, NoGap
<1>5. CASE \E request \in {"states", "logs", "command"} : Request(c, request)
  BY <1>5, RequestStep DEF Requests
<1> QED
  BY <1>2, <1>3, <1>4, <1>5 DEF Client

LEMMA StepInv == ASSUME IInv, [Next]_vars PROVE IInv' /\ \A c \in Conns : NoGap(c)
<1>1. CASE Server
  BY <1>1, Unchanged DEF Server, Change, Repush, Update, Broadcast, SendLog, Pause, conns, About
<1>2. CASE \E c \in Conns : Handle(c) \/ Client(c)
  BY <1>2, HandleStep, ClientStep
<1>3. CASE UNCHANGED vars
  BY <1>3, Unchanged DEF vars, conns, About
<1> QED
  BY <1>1, <1>2, <1>3 DEF Next

\* No request is skipped: one that was overwritten in the ring ends the
\* connection before any later one is handled.
THEOREM RequestsWithoutAGap == Spec => NoRequestSkipped
<1>1. Init => IInv
  BY InitInv
<1>2. IInv /\ [Next]_vars => IInv'
  BY StepInv
<1>3. Spec => []IInv
  BY <1>1, <1>2, PTL DEF Spec
<1>4. IInv /\ [Next]_vars => [\A c \in Conns : NoGap(c)]_vars
  BY StepInv
<1>5. Spec => [][\A c \in Conns : NoGap(c)]_vars
  BY <1>3, <1>4, PTL DEF Spec
<1> QED
  BY <1>5 DEF NoRequestSkipped, NoGap

-----------------------------------------------------------------------------
(* What the rest of the state holds, and who is heard.                     *)

Frames == {Log} \cup [entity : Entities, value : Values]

Contents ==
  /\ registry \in [Entities -> Values]
  /\ pending = <<>> \/ \E frame \in Frames : pending = <<frame>>
  /\ subscribers \in [Conns -> Nat] /\ logSubscribers \in [Conns -> Nat]
  /\ asked \in [Conns -> BOOLEAN]
  /\ chan \in [Conns -> Seq(Frames)] /\ burst \in [Conns -> Seq(Frames)]
  /\ seen \in [Conns -> [Entities -> Values \cup {None}]]

Bounded(c) == Len(chan[c]) <= ChanMax /\ Len(ring[c]) <= RingMax /\ handled[c] <= sent[c]

\* ConnectedMeansHeard, and that a request is forgotten with its connection.
Heard(c) ==
  /\ subscribers[c] \in {0, 1}
  /\ handler[c] = "absent" => subscribers[c] = 0 /\ ~asked[c]
  /\ asked[c] /\ open[c] => subscribers[c] = 1
  /\ logSubscribers[c] \in {0, 1} /\ (handler[c] = "absent" => logSubscribers[c] = 0)

HInv == IInv /\ Contents /\ \A c \in Conns : Bounded(c) /\ Heard(c)

LEMMA StateIsFrame ==
  ASSUME NEW e \in Entities, NEW v \in Values PROVE State(e, v) \in Frames
  BY DEF State, Frames

LEMMA SnapshotIsFrames ==
  ASSUME registry \in [Entities -> Values] PROVE InitialStateFrames \in Seq(Frames)
<1>1. Order \in Seq(Entities) /\ Len(Order) \in Nat
  BY EntitiesAssumption
<1>2. \A i \in 1 .. Len(Order) : Order[i] \in Entities
  BY <1>1
<1>3. \A i \in 1 .. Len(Order) : State(Order[i], registry[Order[i]]) \in Frames
  BY <1>2, StateIsFrame
<1> QED
  BY <1>1, <1>3 DEF InitialStateFrames

LEMMA InitH == ASSUME Init PROVE HInv
<1>1. IInv
  BY InitInv
<1>2. Contents
  BY DEF Init, Contents
<1>3. ASSUME NEW c \in Conns PROVE Bounded(c) /\ Heard(c)
  BY BoundsAssumption DEF Init, Bounded, Heard
<1> QED
  BY <1>1, <1>2, <1>3 DEF HInv

\* A frame for everyone in a list, and the list without those who are gone.
LEMMA Pushed ==
  ASSUME HInv, NEW list \in [Conns -> Nat], NEW frame \in Frames, Told(list, frame)
  PROVE  /\ chan' \in [Conns -> Seq(Frames)] /\ \A c \in Conns : Len(chan'[c]) <= ChanMax
         /\ Keep(list) \in [Conns -> Nat]
<1>1. chan \in [Conns -> Seq(Frames)] /\ ChanMax \in Nat /\ \A c \in Conns : Len(chan[c]) <= ChanMax
  BY BoundsAssumption DEF HInv, Contents, Bounded
<1>2. ASSUME NEW c \in Conns
      PROVE  chan'[c] \in Seq(Frames) /\ Len(chan'[c]) <= ChanMax
  <2>1. chan[c] \in Seq(Frames) /\ Len(chan[c]) \in Nat /\ Len(chan[c]) <= ChanMax
    BY <1>1
  <2>2. /\ Append(chan[c], frame) \in Seq(Frames)
        /\ Len(Append(chan[c], frame)) = Len(chan[c]) + 1
    BY <2>1, AppendProperties
  <2>3. chan'[c] = IF list[c] > 0 /\ Room(c) THEN Append(chan[c], frame) ELSE chan[c]
    BY DEF Told
  <2> QED
    BY <1>1, <2>1, <2>2, <2>3 DEF Room
<1>3. chan' = [c \in Conns |-> chan'[c]]
  BY DEF Told
<1> QED
  BY <1>2, <1>3 DEF Keep

LEMMA ServerH == ASSUME HInv, Server, IInv' PROVE HInv'
<1>1. Contents /\ \A c \in Conns : Bounded(c) /\ Heard(c)
  BY DEF HInv
<1>2. ASSUME NEW e \in Entities, NEW v \in Values, Update(e, v) PROVE HInv'
  <2>1. registry' \in [Entities -> Values] /\ pending' = <<State(e, v)>> /\ State(e, v) \in Frames
    BY <1>1, <1>2, StateIsFrame DEF Update, Contents
  <2>2. UNCHANGED <<hub, chan, burst, asked, seen, ring, sent, handled, handler, open>>
    BY <1>2 DEF Update, conns
  <2>3. Contents'
    BY <1>1, <2>1, <2>2 DEF Contents, hub
  <2>4. \A c \in Conns : Bounded(c)' /\ Heard(c)'
    BY <1>1, <2>2 DEF Bounded, Heard, hub
  <2> QED
    BY <2>3, <2>4 DEF HInv
<1>3. CASE Change
  BY <1>2, <1>3 DEF Change
<1>4. CASE \E e \in Repushed : Repush(e)
  BY <1>1, <1>2, <1>4, EntitiesAssumption DEF Repush, Contents
<1>5. CASE Broadcast
  <2>1. PICK frame \in Frames : pending = <<frame>>
    BY <1>1, <1>5 DEF Contents, Broadcast
  <2>2. /\ Told(subscribers, frame) /\ subscribers' = Keep(subscribers) /\ pending' = <<>>
        /\ UNCHANGED <<registry, logSubscribers, seen, burst, asked, ring, sent, handled, handler, open>>
    BY <1>5, <2>1 DEF Broadcast, conns
  <2>3. /\ chan' \in [Conns -> Seq(Frames)] /\ \A c \in Conns : Len(chan'[c]) <= ChanMax
        /\ subscribers' \in [Conns -> Nat]
    BY <1>1, <2>2, Pushed DEF Contents
  <2>4. Contents'
    BY <1>1, <2>2, <2>3 DEF Contents
  <2>5. \A c \in Conns : subscribers'[c] = IF open[c] THEN subscribers[c] ELSE 0
    BY <2>2 DEF Keep
  <2>6. \A c \in Conns : Bounded(c)' /\ Heard(c)'
    BY <1>1, <2>2, <2>3, <2>5 DEF Bounded, Heard
  <2> QED
    BY <2>4, <2>6 DEF HInv
<1>6. CASE SendLog
  <2>1. /\ Told(logSubscribers, Log) /\ logSubscribers' = Keep(logSubscribers)
        /\ UNCHANGED <<registry, pending, subscribers, seen, burst, asked, ring, sent, handled,
                       handler, open>>
    BY <1>6 DEF SendLog, conns
  <2>2. /\ chan' \in [Conns -> Seq(Frames)] /\ \A c \in Conns : Len(chan'[c]) <= ChanMax
        /\ logSubscribers' \in [Conns -> Nat]
    BY <1>1, <2>1, Pushed DEF Contents, Frames
  <2>3. Contents'
    BY <1>1, <2>1, <2>2 DEF Contents
  <2>4. \A c \in Conns : logSubscribers'[c] = IF open[c] THEN logSubscribers[c] ELSE 0
    BY <2>1 DEF Keep
  <2>5. \A c \in Conns : Bounded(c)' /\ Heard(c)'
    BY <1>1, <2>1, <2>2, <2>4 DEF Bounded, Heard
  <2> QED
    BY <2>3, <2>5 DEF HInv
<1>7. CASE Pause
  BY <1>1, <1>7 DEF Pause, conns, hub, HInv, Contents, Bounded, Heard
<1> QED
  BY <1>3, <1>4, <1>5, <1>6, <1>7 DEF Server

\* A message that is taken shortens the ring, and was sent.
LEMMA ReceiveH ==
  ASSUME HInv, NEW c \in Conns, NEW request, Receive(c, request), UNCHANGED <<chan, sent>>
  PROVE  handler[c] = "listening" /\ \A d \in Conns : Bounded(d)'
<1>1. Types /\ LastSent(c) /\ handler[c] = "listening" /\ ring[c] # <<>>
  BY DEF HInv, IInv, InStep, Receive
<1>2. ring[c] \in Seq(Messages) /\ sent[c] \in Nat
  BY <1>1 DEF Types
<1>3. /\ Len(ring[c]) \in Nat /\ Head(ring[c]).number = sent[c] - Len(ring[c]) + 1
      /\ Len(Tail(ring[c])) = Len(ring[c]) - 1
  BY <1>1, <1>2, RingShrinks DEF LastSent
<1>4. /\ ring'[c] = Tail(ring[c]) /\ handled'[c] = Head(ring[c]).number
      /\ \A d \in Conns \ {c} : ring'[d] = ring[d] /\ handled'[d] = handled[d]
  BY <1>1 DEF Receive, Types
<1>5. Len(ring[c]) >= 1 /\ RingMax \in Nat
  BY <1>1, <1>2, EmptySeq, LenProperties, BoundsAssumption
<1>6. Bounded(c)'
  BY <1>2, <1>3, <1>4, <1>5 DEF HInv, Bounded
<1> QED
  BY <1>1, <1>4, <1>6 DEF HInv, Bounded

LEMMA HandleH == ASSUME HInv, NEW c \in Conns, Handle(c), IInv' PROVE HInv'
<1>1. Types /\ Contents /\ \A d \in Conns : Bounded(d) /\ Heard(d)
  BY DEF HInv, IInv
<1>2. CASE HandleSubscribe(c)
  <2>1. handler[c] = "listening" /\ \A d \in Conns : Bounded(d)'
    BY <1>2, ReceiveH DEF HandleSubscribe
  <2>2. /\ subscribers' = [subscribers EXCEPT ![c] = IF subscribers[c] = 0 THEN 1 ELSE subscribers[c]]
        /\ asked' = [asked EXCEPT ![c] = TRUE] /\ handler' = [handler EXCEPT ![c] = "snapshot"]
        /\ UNCHANGED <<registry, pending, logSubscribers, open, chan, burst, seen>>
    BY <1>2 DEF HandleSubscribe, Enter
  <2>3. Contents'
    BY <1>1, <2>2 DEF Contents
  <2>4. \A d \in Conns : Heard(d)'
    BY <1>1, <2>2 DEF Contents, Heard, Types
  <2> QED
    BY <2>1, <2>3, <2>4 DEF HInv
<1>3. CASE HandleLogs(c)
  <2>1. handler[c] = "listening" /\ \A d \in Conns : Bounded(d)'
    BY <1>3, ReceiveH DEF HandleLogs
  <2>2. /\ logSubscribers' = [logSubscribers EXCEPT ![c] = IF @ = 0 THEN 1 ELSE @]
        /\ UNCHANGED <<registry, pending, subscribers, open, chan, handler, burst, asked, seen>>
    BY <1>3 DEF HandleLogs, Enter
  <2>3. Contents' /\ \A d \in Conns : Heard(d)'
    BY <1>1, <2>1, <2>2 DEF Contents, Heard
  <2> QED
    BY <2>1, <2>3 DEF HInv
<1>4. CASE HandleCommand(c)
  <2>1. \A d \in Conns : Bounded(d)'
    BY <1>4, ReceiveH DEF HandleCommand
  <2>2. Contents' /\ \A d \in Conns : Heard(d)'
    BY <1>1, <1>4 DEF HandleCommand, hub, Contents, Heard
  <2> QED
    BY <2>1, <2>2 DEF HInv
<1>5. CASE Snapshot(c)
  <2>1. InitialStateFrames \in Seq(Frames)
    BY <1>1, SnapshotIsFrames DEF Contents
  <2>2. Contents'
    BY <1>1, <1>5, <2>1 DEF Snapshot, hub, Contents
  <2>3. \A d \in Conns : Bounded(d)' /\ Heard(d)'
    BY <1>1, <1>5 DEF Snapshot, hub, Types, Bounded, Heard
  <2> QED
    BY <2>2, <2>3 DEF HInv
<1>6. CASE SendFrame(c)
  <2>1. /\ chan' = [chan EXCEPT ![c] = Append(chan[c], Head(burst[c]))]
        /\ burst' = [burst EXCEPT ![c] = Tail(burst[c])]
        /\ burst[c] # <<>> /\ Len(chan[c]) < ChanMax
        /\ UNCHANGED <<registry, pending, hub, open, ring, handler, asked, seen, sent, handled>>
    BY <1>6 DEF SendFrame, Room
  <2>2. chan[c] \in Seq(Frames) /\ burst[c] \in Seq(Frames) /\ ChanMax \in Nat
    BY <1>1, BoundsAssumption DEF Contents
  <2>3. Head(burst[c]) \in Frames /\ Tail(burst[c]) \in Seq(Frames)
    BY <2>1, <2>2, HeadTailProperties
  <2>4. /\ Append(chan[c], Head(burst[c])) \in Seq(Frames)
        /\ Len(Append(chan[c], Head(burst[c]))) = Len(chan[c]) + 1 /\ Len(chan[c]) \in Nat
    BY <2>2, <2>3, AppendProperties, LenProperties
  <2>5. Contents'
    BY <1>1, <2>1, <2>3, <2>4 DEF Contents, hub
  <2>6. \A d \in Conns : Len(chan'[d]) <= ChanMax
    BY <1>1, <2>1, <2>2, <2>4 DEF Contents, Bounded
  <2>7. \A d \in Conns : Bounded(d)' /\ Heard(d)'
    BY <1>1, <2>1, <2>6 DEF Bounded, Heard, hub
  <2> QED
    BY <2>5, <2>7 DEF HInv
<1>7. CASE BurstDone(c)
  BY <1>1, <1>7 DEF BurstDone, hub, HInv, Types, Contents, Bounded, Heard
<1>8. CASE HandlerEnds(c)
  <2>1. /\ subscribers' = [subscribers EXCEPT ![c] = 0]
        /\ logSubscribers' = [logSubscribers EXCEPT ![c] = 0]
        /\ handler' = [handler EXCEPT ![c] = "absent"]
        /\ open' = [open EXCEPT ![c] = FALSE] /\ asked' = [asked EXCEPT ![c] = FALSE]
        /\ chan' = [chan EXCEPT ![c] = <<>>] /\ ring' = [ring EXCEPT ![c] = <<>>]
        /\ burst' = [burst EXCEPT ![c] = <<>>]
        /\ UNCHANGED <<registry, pending, seen, sent, handled>>
    BY <1>8 DEF HandlerEnds
  <2>2. Contents'
    BY <1>1, <2>1 DEF Contents
  <2>3. \A d \in Conns : Heard(d)'
    BY <1>1, <2>1 DEF Contents, Types, Heard
  <2>4. \A d \in Conns : Bounded(d)'
    BY <1>1, <2>1, BoundsAssumption DEF Contents, Types, Bounded
  <2> QED
    BY <2>2, <2>3, <2>4 DEF HInv
<1> QED
  BY <1>2, <1>3, <1>4, <1>5, <1>6, <1>7, <1>8 DEF Handle

LEMMA ClientH == ASSUME HInv, NEW c \in Conns, Client(c), IInv' PROVE HInv'
<1>1. IInv /\ Types /\ Contents /\ \A d \in Conns : Bounded(d) /\ Heard(d)
  BY DEF HInv, IInv
<1>2. CASE Connect(c)
  <2>1. /\ handler[c] = "absent"
        /\ handler' = [handler EXCEPT ![c] = "listening"] /\ open' = [open EXCEPT ![c] = TRUE]
        /\ handled' = [handled EXCEPT ![c] = sent[c]]
        /\ seen' = [seen EXCEPT ![c] = [e \in Entities |-> None]]
        /\ UNCHANGED <<registry, pending, hub, chan, ring, burst, asked, sent>>
    BY <1>2 DEF Connect
  <2>2. Contents'
    BY <1>1, <2>1 DEF Contents, hub
  <2>3. \A d \in Conns : Bounded(d)' /\ Heard(d)'
    BY <1>1, <2>1 DEF Types, Contents, Bounded, Heard, hub
  <2> QED
    BY <2>2, <2>3 DEF HInv
<1>3. CASE Read(c)
  <2> DEFINE frame == Head(chan[c])
  <2>1. /\ chan[c] # <<>> /\ chan' = [chan EXCEPT ![c] = Tail(chan[c])]
        /\ seen' = IF frame = Log THEN seen ELSE [seen EXCEPT ![c][frame.entity] = frame.value]
        /\ UNCHANGED <<registry, pending, hub, open, ring, handler, burst, asked, sent, handled>>
    BY <1>3 DEF Read, conns
  <2>2. chan[c] \in Seq(Frames) /\ seen[c] \in [Entities -> Values \cup {None}]
    BY <1>1 DEF Contents
  <2>3. /\ frame \in Frames /\ Tail(chan[c]) \in Seq(Frames) /\ Len(chan[c]) \in Nat
        /\ Len(Tail(chan[c])) = Len(chan[c]) - 1
    BY <2>1, <2>2, HeadTailProperties, LenProperties
  <2> HIDE DEF frame
  <2>4. seen' \in [Conns -> [Entities -> Values \cup {None}]]
    <3>1. CASE frame = Log
      BY <1>1, <2>1, <3>1 DEF Contents
    <3>2. CASE frame # Log
      <4>1. frame.entity \in Entities /\ frame.value \in Values
        BY <2>3, <3>2 DEF Frames
      <4>2. [seen[c] EXCEPT ![frame.entity] = frame.value] \in [Entities -> Values \cup {None}]
        BY <2>2, <4>1
      <4>3. seen' = [seen EXCEPT ![c] = [seen[c] EXCEPT ![frame.entity] = frame.value]]
        BY <2>1, <3>2
      <4> QED
        BY <1>1, <4>2, <4>3 DEF Contents
    <3> QED
      BY <3>1, <3>2
  <2>5. Contents'
    BY <1>1, <2>1, <2>3, <2>4 DEF Contents, hub
  <2>6. \A d \in Conns : Len(chan'[d]) <= ChanMax
    <3>1. ChanMax \in Nat /\ Len(chan[c]) <= ChanMax
      BY <1>1, BoundsAssumption DEF Bounded
    <3> QED
      BY <1>1, <2>1, <2>3, <3>1 DEF Contents, Bounded
  <2>7. \A d \in Conns : Bounded(d)' /\ Heard(d)'
    BY <1>1, <2>1, <2>6 DEF Bounded, Heard, hub
  <2> QED
    BY <2>5, <2>7 DEF HInv
<1>4. CASE Disconnect(c)
  <2>1. /\ open' = [open EXCEPT ![c] = FALSE] /\ chan' = [chan EXCEPT ![c] = <<>>]
        /\ UNCHANGED <<registry, pending, hub, ring, handler, burst, asked, seen, sent, handled>>
    BY <1>4 DEF Disconnect
  <2>2. Contents'
    BY <1>1, <2>1 DEF Contents, hub
  <2>3. \A d \in Conns : Bounded(d)' /\ Heard(d)'
    BY <1>1, <2>1, BoundsAssumption DEF Types, Contents, Bounded, Heard, hub
  <2> QED
    BY <2>2, <2>3 DEF HInv
<1>5. ASSUME NEW request \in Requests, Request(c, request) PROVE HInv'
  <2> DEFINE m == [is |-> request, number |-> sent'[c]]
             r == Append(ring[c], m)
  <2>1. /\ sent' = [sent EXCEPT ![c] = sent[c] + 1]
        /\ ring' = [ring EXCEPT ![c] = IF Len(r) > RingMax THEN Tail(r) ELSE r]
        /\ UNCHANGED <<registry, pending, hub, open, chan, handler, burst, asked, seen, handled>>
    BY <1>5 DEF Request
  <2>2. ring[c] \in Seq(Messages) /\ sent[c] \in Nat /\ sent'[c] = sent[c] + 1
    BY <1>1, <2>1 DEF Types
  <2>3. m \in Messages
    BY <2>2 DEF Messages
  <2> HIDE DEF m
  <2>4. r \in Seq(Messages) /\ Len(r) = Len(ring[c]) + 1 /\ Len(ring[c]) \in Nat
    BY <2>2, <2>3, AppendProperties, LenProperties
  <2> HIDE DEF r
  <2>5. Len(Tail(r)) = Len(ring[c])
    BY <2>4, EmptySeq, HeadTailProperties
  <2>6. RingMax \in Nat /\ Len(ring[c]) <= RingMax /\ handled[c] <= sent[c] /\ handled[c] \in Nat
    BY <1>1, BoundsAssumption DEF Types, Bounded
  <2>7. ring'[c] = IF Len(r) > RingMax THEN Tail(r) ELSE r
    BY <1>1, <2>1 DEF Types
  <2>8. Bounded(c)'
    BY <1>1, <2>1, <2>2, <2>4, <2>5, <2>6, <2>7 DEF Bounded
  <2>9. \A d \in Conns : Bounded(d)'
    BY <1>1, <2>1, <2>8 DEF Types, Bounded
  <2>10. Contents' /\ \A d \in Conns : Heard(d)'
    BY <1>1, <2>1 DEF Contents, Heard, hub
  <2> QED
    BY <2>9, <2>10 DEF HInv
<1> QED
  BY <1>2, <1>3, <1>4, <1>5 DEF Client, Requests

LEMMA StepH == ASSUME HInv, [Next]_vars PROVE HInv'
<1>1. IInv'
  BY StepInv DEF HInv
<1>2. CASE UNCHANGED vars
  BY <1>1, <1>2 DEF HInv, vars, conns, Contents, Bounded, Heard
<1> QED
  BY <1>1, <1>2, ServerH, HandleH, ClientH DEF Next

LEMMA HeardIsKept == Spec => []HInv
<1>1. Init => HInv
  BY InitH
<1>2. HInv /\ [Next]_vars => HInv'
  BY StepH
<1> QED
  BY <1>1, <1>2, PTL DEF Spec

\* Every variable keeps its type, and every channel and ring its capacity:
\* nobody pushes into a full channel, and a full ring loses its oldest message.
THEOREM TypeCorrect == Spec => []TypeOK
<1>1. HInv => TypeOK
  <2> SUFFICES ASSUME HInv PROVE TypeOK
    OBVIOUS
  <2>1. Types /\ Contents /\ \A c \in Conns : Bounded(c)
    BY DEF HInv, IInv
  <2>2. Len(pending) <= 1
    <3>1. CASE pending = <<>>
      BY <3>1
    <3>2. CASE \E frame \in Frames : pending = <<frame>>
      <4>1. PICK frame \in Frames : pending = <<frame>>
        BY <3>2
      <4>2. Len(<<frame>>) = 1
        OBVIOUS
      <4> QED
        BY <4>1, <4>2
    <3> QED
      BY <2>1, <3>1, <3>2 DEF Contents
  <2>3. ASSUME NEW c \in Conns PROVE ToSet(seen[c]) \subseteq Values \cup {None}
    <3>1. seen[c] \in [Entities -> Values \cup {None}]
      BY <2>1 DEF Contents
    <3> QED
      BY <3>1 DEF ToSet
  <2> QED
    BY <2>1, <2>2, <2>3 DEF TypeOK, Types, Contents, Bounded
<1> QED
  BY <1>1, HeardIsKept, PTL

\* A client that subscribed has exactly one entry in the hub as long as it is
\* connected, however slow it is, and none once its handler is gone; for log
\* lines it never has a second one.
THEOREM ConnectedIsHeard == Spec => []ConnectedMeansHeard
<1>1. HInv => ConnectedMeansHeard
  BY DEF HInv, IInv, Types, Heard, ConnectedMeansHeard
<1> QED
  BY <1>1, HeardIsKept, PTL
=============================================================================
