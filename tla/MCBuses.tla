------------------------------- MODULE MCBuses -------------------------------
(***************************************************************************)
(* The threads of the three buses, model-checked together: the DS100       *)
(* meter, the 1-Wire sensors, and the CAN bus with its serial line.  They  *)
(* share only the bridge they push to, so a behaviour is the life of one   *)
(* of them and not an interleaving of all.                                 *)
(***************************************************************************)
EXTENDS Ds100, OneWire, Canbus

CONSTANTS Frames, MaxLine, MaxWire   \* Slcan

VARIABLES
  mode, command, live, wire, line, frame, spoiled,
  which      \* whose life this is

serial == <<mode, command, live, wire, line, frame, spoiled>>

L == INSTANCE Slcan

MCBauds == <<38400, 115200, 19200, 9600>>

ASSUME SerialAssumption == L!SlcanAssumption

-----------------------------------------------------------------------------
\* A component that is not looked at stays in one of its initial states.
ds100Still == meter = Target /\ plugged
oneWireStill == bus = Sensors
canStill == limit = [enabled |-> FALSE, max_on |-> Longest] /\ ~tame
slcanStill == ~live

BusesInit ==
  /\ which \in {"ds100", "onewire", "can", "slcan"}
  /\ Init /\ OneWireInit /\ CanInit /\ L!Init
  /\ which # "ds100" => ds100Still
  /\ which # "onewire" => oneWireStill
  /\ which # "can" => canStill
  /\ which # "slcan" => slcanStill

Ds100Thread == which = "ds100" /\ Thread /\ UNCHANGED <<oneWireVars, canVars, serial, which>>
PollerThread == which = "onewire" /\ OneWireThread /\ UNCHANGED <<vars, canVars, serial, which>>
BusesNext ==
  \/ which = "ds100" /\ Next /\ UNCHANGED <<oneWireVars, canVars, serial, which>>
  \/ which = "onewire" /\ OneWireNext /\ UNCHANGED <<vars, canVars, serial, which>>
  \/ which = "can" /\ CanNext /\ UNCHANGED <<vars, oneWireVars, serial, which>>
  \/ which = "slcan" /\ L!Next /\ UNCHANGED <<vars, oneWireVars, canVars, which>>

busesVars == <<vars, oneWireVars, canVars, serial, which>>
\* The threads go on until the process ends.
BusesSpec ==
  BusesInit /\ [][BusesNext]_busesVars
    /\ WF_busesVars(Ds100Thread) /\ WF_busesVars(PollerThread)
-----------------------------------------------------------------------------
\* Every variable of every component keeps its type.
BusesTypeOK == TypeOK /\ OneWireTypeOK /\ CanTypeOK /\ L!TypeOK

\* Slcan: the reader finds its way back with the next line.
ReaderFindsBack == L!ReaderFindsBack
=============================================================================
