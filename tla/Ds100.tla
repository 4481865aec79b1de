-------------------------------- MODULE Ds100 --------------------------------
(***************************************************************************)
(* The DS100 thread: it looks for the power meter of the rod at one baud   *)
(* rate after the other, moves it to the target rate and polls it until    *)
(* the port breaks.  Meter and adapter fail at any step: a request or its  *)
(* answer is lost, the port cannot be opened, the adapter is unplugged.    *)
(*                                                                         *)
(* An answer that arrives is taken to be the meter's answer to the request *)
(* before it; the CRC, which the code does not check, is left out.         *)
(***************************************************************************)
EXTENDS Integers, Sequences

CONSTANTS
  Bauds,      \* the rates in the order they are tried, the target rate first
  Supported,  \* the rates the meter has an index for
  None        \* no port

Target == Bauds[1]
Rates == {Bauds[i] : i \in 1 .. Len(Bauds)}
ASSUME BaudsAssumption ==
  Bauds \in Seq(Nat) /\ Bauds # <<>> /\ Supported \subseteq Rates /\ None \notin Rates

VARIABLES
  meter,    \* the rate the meter listens at
  port,     \* the rate the serial port is open at, or None
  plugged,  \* the device file is there
  calm,     \* from now on nothing fails
  pc,       \* what the thread does next
  try,      \* the rate being tried, an index of Bauds
  fresh     \* the last poll gave a power

vars == <<meter, port, plugged, calm, pc, try, fresh>>
world == <<plugged, calm>>

-----------------------------------------------------------------------------
(* The serial port.                                                        *)

\* client.open closes the port first.
Open(baud) ==
  \/ plugged /\ port' = baud
  \/ ~(calm /\ plugged) /\ port' = None

\* How a request ends: an answer, no answer in time, or an error of the port.
\* Only a meter at the port's rate answers.
Outcomes ==
  IF port = None THEN {"error"}
  ELSE IF ~plugged THEN {"error"}
  ELSE IF ~calm THEN {"timeout", "error"} \cup (IF port = meter THEN {"answer"} ELSE {})
  ELSE IF port = meter THEN {"answer"} ELSE {"timeout"}

\* read_input_registers: a timeout keeps the port open.
Read(outcome) == port' = IF outcome = "error" THEN None ELSE port
\* Mutant: a write that is not answered leaves the port open.
WriteKeepsPort(outcome) == Read(outcome)
\* write_register closes it whenever the answer is missing.  The meter may have
\* obeyed all the same.
Write(outcome) == port' = IF outcome = "answer" THEN port ELSE None
Obeys(baud, outcome) ==
  \/ outcome = "answer" /\ meter' = baud
  \/ outcome # "answer" /\ port = meter /\ meter' \in {meter, baud}
  \/ outcome # "answer" /\ port # meter /\ UNCHANGED meter

-----------------------------------------------------------------------------
(* run_ds100_thread and connect_with_baud_detection.                       *)

Look ==
  /\ pc = "look"
  /\ IF plugged THEN pc' = "open" /\ try' = 1 ELSE UNCHANGED <<pc, try>>
  /\ UNCHANGED <<meter, port, fresh, world>>

\* Mutant: the search goes on at the same rate.
SameBaud == pc' = "open" /\ UNCHANGED try
\* Mutant: the search runs past the last rate.
NextBaudPastEnd ==
  IF try <= Len(Bauds) THEN pc' = "open" /\ try' = try + 1 ELSE pc' = "look" /\ try' = 1
\* The next rate, or a pause and the search from the start.
NextBaud ==
  IF try < Len(Bauds) THEN pc' = "open" /\ try' = try + 1 ELSE pc' = "look" /\ try' = 1

OpenPort ==
  /\ pc = "open" /\ Open(Bauds[try])
  /\ IF port' = None THEN NextBaud ELSE pc' = "probe" /\ UNCHANGED try
  /\ UNCHANGED <<meter, fresh, world>>

\* Read the baud register: the meter is at this rate, or it is not.
Probe ==
  /\ pc = "probe"
  /\ \E outcome \in Outcomes :
       IF outcome # "answer" THEN port' = None /\ NextBaud
       ELSE /\ Read(outcome) /\ UNCHANGED try
            /\ pc' = IF Bauds[try] = Target \/ Target \notin Supported THEN "poll" ELSE "switch"
  /\ UNCHANGED <<meter, fresh, world>>

\* A switch that failed "stays at the current baud".
Switched(outcome) ==
  IF outcome = "answer" THEN pc' = "reopen" /\ port' = None ELSE pc' = "poll" /\ Write(outcome)
SwitchBaud ==
  /\ pc = "switch"
  /\ \E outcome \in Outcomes : Obeys(Target, outcome) /\ Switched(outcome)
  /\ UNCHANGED <<try, fresh, world>>

Reopen ==
  /\ pc = "reopen" /\ Open(Target) /\ pc' = IF port' = None THEN "back" ELSE "verify"
  /\ UNCHANGED <<meter, try, fresh, world>>

\* The port does not open at the target rate: back to the rate of before, and
\* the meter with it.
GoBack ==
  /\ pc = "back" /\ Open(Bauds[try])
  /\ IF port' = None THEN pc' = "look" /\ try' = 1 ELSE pc' = "restore" /\ UNCHANGED try
  /\ UNCHANGED <<meter, fresh, world>>
Restore ==
  /\ pc = "restore" /\ pc' = "poll"
  /\ \E outcome \in Outcomes : Obeys(Bauds[try], outcome) /\ Write(outcome)
  /\ UNCHANGED <<try, fresh, world>>

Verify ==
  /\ pc = "verify"
  /\ \E outcome \in Outcomes :
       IF outcome = "answer" THEN pc' = "poll" /\ Read(outcome) /\ UNCHANGED try
       ELSE port' = None /\ NextBaud
  /\ UNCHANGED <<meter, fresh, world>>

\* The polls, and the device info before the first of them.
Poll ==
  /\ pc = "poll" /\ port # None
  /\ \E outcome \in Outcomes : Read(outcome) /\ fresh' = (outcome = "answer")
  /\ UNCHANGED <<meter, pc, try, world>>
Reconnect ==
  /\ pc = "poll" /\ port = None /\ pc' = "look" /\ fresh' = FALSE
  /\ UNCHANGED <<meter, port, try, world>>

Plug ==
  /\ ~calm /\ plugged' = ~plugged
  /\ UNCHANGED <<meter, port, calm, pc, try, fresh>>
CalmComes ==
  /\ plugged /\ ~calm /\ calm' = TRUE
  /\ UNCHANGED <<meter, port, plugged, pc, try, fresh>>

Init ==
  /\ meter \in Rates /\ port = None /\ plugged \in BOOLEAN /\ calm = FALSE
  /\ pc = "look" /\ try = 1 /\ fresh = FALSE

Thread ==
  Look \/ OpenPort \/ Probe \/ SwitchBaud \/ Reopen \/ GoBack \/ Restore \/ Verify \/ Poll
    \/ Reconnect
Next == Thread \/ Plug \/ CalmComes
Spec == Init /\ [][Next]_vars
\* The thread goes on until the process ends.
FairSpec == Spec /\ WF_vars(Thread)
-----------------------------------------------------------------------------
\* Every variable keeps its type.
TypeOK ==
  /\ meter \in Rates /\ port \in Rates \cup {None} /\ try \in 1 .. Len(Bauds)
  /\ pc \in {"look", "open", "probe", "switch", "reopen", "back", "restore", "verify", "poll"}
  /\ plugged \in BOOLEAN /\ calm \in BOOLEAN /\ fresh \in BOOLEAN

\* The thread polls at the rate of the meter: a timeout does not end a session
\* ("keep the port open"), so a session at any other rate would never end and
\* the rod would be without its meter for good.
PollsAtTheMetersRate == pc = "poll" /\ port # None => port = meter

\* However the search and the switch were interrupted, and wherever the meter
\* was left, its power is read again once nothing fails any more, and a meter
\* that can do so ends at the target rate.
PowerComesBack ==
  <>[]calm => <>[](fresh /\ (Target \in Supported => meter = Target))
=============================================================================
