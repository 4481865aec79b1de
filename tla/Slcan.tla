-------------------------------- MODULE Slcan --------------------------------
(***************************************************************************)
(* The serial line to the CAN adapter.  Frames arrive as lines, between    *)
(* them the answers to what was written: an empty line for a command, "Z"  *)
(* for a frame, and a bell, with no end of line, for a refusal.  The line  *)
(* has no other framing, so a reader that starts in the middle, gives up   *)
(* in the middle or eats a byte has to find its way back.                  *)
(*                                                                         *)
(* A byte is kept with the frame it belongs to, so that a frame put        *)
(* together from two can be told from one that was sent.                   *)
(***************************************************************************)
EXTENDS Integers, Sequences

CONSTANTS
  Frames,   \* names of frames
  MaxLine,  \* bytes of a line before the reader gives it up
  MaxWire   \* bound: bytes on the line

NoFrame == "no frame"
SlcanAssumption ==
  \* A line of a frame fits.
  /\ MaxLine \in Nat /\ MaxLine >= 3 /\ MaxWire \in Nat
  /\ NoFrame \notin Frames

Byte(frame, kind) == [frame |-> frame, kind |-> kind]
FrameLine(n) == <<Byte(n, "t"), Byte(n, "hex"), Byte(n, "hex"), Byte(n, "cr")>>
Ack == Byte(NoFrame, "cr")
Nak == Byte(NoFrame, "bel")
Written == <<Byte(NoFrame, "Z"), Byte(NoFrame, "cr")>>
Noise == Byte(NoFrame, "noise")  \* no character at all

VARIABLES
  mode,     \* closed, command or answer (of the opening), read, or handle (a frame)
  command,  \* the command of the opening sequence to send next
  live,     \* the adapter forwards frames
  wire,     \* bytes on their way to the host
  line,     \* the line being read
  frame,    \* the frame read_frame returned last
  spoiled   \* history: the line now on the wire or being read lost or gained a byte

slcanVars == <<mode, command, live, wire, line, frame, spoiled>>

-----------------------------------------------------------------------------
(* The adapter.                                                            *)

\* Names a frame on the line has.
OnTheLine == {(wire \o line)[i].frame : i \in 1 .. Len(wire \o line)}

Forward ==
  /\ live /\ mode # "closed" /\ Len(wire) + 4 <= MaxWire
  /\ \E n \in Frames \ OnTheLine : wire' = wire \o FrameLine(n)
  /\ UNCHANGED <<mode, command, live, line, frame, spoiled>>

\* A wedged adapter may say anything.
Babble ==
  /\ mode = "read" /\ Len(wire) < MaxWire /\ wire' = Append(wire, Noise)
  /\ UNCHANGED <<mode, command, live, line, frame, spoiled>>

\* What it answers, and whether it then forwards frames.
Commands == <<"C", "S", "O">>
Effect(name) == CASE name = "C" -> FALSE [] name = "S" -> live [] name = "O" -> TRUE
Answer(name) ==
  \/ wire' = Append(wire, Ack) /\ live' = Effect(name)
  \/ wire' \in {wire, Append(wire, Nak)} /\ UNCHANGED live

-----------------------------------------------------------------------------
(* SlcanTransport.                                                         *)

\* open: what is left of the adapter's last line arrives first.
Open ==
  /\ mode = "closed" /\ mode' = "command" /\ command' = 1 /\ line' = << >>
  /\ wire' \in {<< >>} \cup
       (IF live THEN {SubSeq(FrameLine(n), first, 4) : n \in Frames, first \in 1 .. 4} ELSE {})
  /\ spoiled' = (Len(wire') \in 1 .. 3)
  /\ UNCHANGED <<live, frame>>

SendCommand ==
  /\ mode = "command" /\ mode' = "answer" /\ Answer(Commands[command])
  /\ UNCHANGED <<command, line, frame, spoiled>>

\* One byte is read, whatever it is; an answer that comes too late stays on the
\* line.  The opening goes on in any case.
Answered ==
  IF command = Len(Commands) THEN mode' = "read" /\ UNCHANGED command
  ELSE mode' = "command" /\ command' = command + 1
ReadAnswer ==
  /\ mode = "answer" /\ Answered
  /\ \/ UNCHANGED <<wire, spoiled>>
     \/ wire # << >> /\ wire' = Tail(wire) /\ spoiled' = (Head(wire).kind # "cr")
  /\ UNCHANGED <<live, line, frame>>

\* Mutant: a line without the letter of a frame is taken for one.
ParseAnything(text) == IF Len(text) >= 3 THEN SubSeq(text, 1, 3) ELSE << >>
\* parse_frame_line: the letter, then as many digits as the length says; what
\* follows them is not looked at.
ParseFrameLine(text) ==
  IF /\ Len(text) >= 3 /\ text[1].kind = "t"
     /\ text[2].kind = "hex" /\ text[3].kind = "hex"
  THEN SubSeq(text, 1, 3) ELSE << >>

\* split_at and the slices of a line with a byte that is no character in it panic
\* where they fall within the replacement.
Panics(text) == \E i \in 1 .. Len(text) : text[i] = Noise

\* read_frame: one byte.
ReadByte ==
  /\ mode = "read" /\ wire # << >> /\ wire' = Tail(wire)
  /\ LET byte == Head(wire)
     IN IF byte.kind # "cr"
        THEN /\ line' = IF Len(line) >= MaxLine THEN << >> ELSE Append(line, byte)
             /\ spoiled' = (spoiled \/ byte.frame = NoFrame)
             /\ UNCHANGED <<mode, frame>>
        ELSE /\ line' = << >> /\ spoiled' = FALSE
             /\ \/ /\ line = << >> \/ ParseFrameLine(line) = << >>
                   /\ UNCHANGED <<mode, frame>>
                \/ /\ line # << >> /\ ParseFrameLine(line) # << >>
                   /\ mode' = "handle" /\ frame' = ParseFrameLine(line)
                \/ Panics(line) /\ mode' = "closed" /\ UNCHANGED frame
  /\ UNCHANGED <<command, live>>

\* Nothing came for a second: what was read of a line is gone.
Timeout ==
  /\ mode = "read" /\ line' = << >> /\ spoiled' = (spoiled \/ line # << >>)
  /\ UNCHANGED <<mode, command, live, wire, frame>>

\* The thread deals with a frame and may write one, which the adapter takes or
\* refuses; nobody waits for the answer.
Handle ==
  /\ mode = "handle" /\ mode' = "read"
  /\ wire' \in {wire, wire \o Written, Append(wire, Nak)}
  /\ UNCHANGED <<command, live, line, frame, spoiled>>

\* The adapter is unplugged, or the process dies and leaves it as it is.
Break ==
  /\ mode # "closed" /\ mode' = "closed" /\ live' \in BOOLEAN
  /\ UNCHANGED <<command, wire, line, frame, spoiled>>

Init ==
  /\ mode = "closed" /\ command = 1 /\ live \in BOOLEAN
  /\ wire = << >> /\ line = << >> /\ frame = << >> /\ spoiled = FALSE

Next ==
  \/ Forward \/ Babble \/ Open \/ SendCommand \/ ReadAnswer \/ ReadByte \/ Timeout
  \/ Handle \/ Break
Spec == Init /\ [][Next]_slcanVars
-----------------------------------------------------------------------------
\* Every variable keeps its type.
Bytes == [frame : Frames \cup {NoFrame}, kind : {"t", "hex", "cr", "bel", "Z", "noise"}]
TypeOK ==
  /\ mode \in {"closed", "command", "answer", "read", "handle"}
  /\ command \in 1 .. Len(Commands) /\ live \in BOOLEAN /\ spoiled \in BOOLEAN
  /\ wire \in Seq(Bytes) /\ line \in Seq(Bytes) /\ frame \in Seq(Bytes)
  /\ Len(line) <= MaxLine

\* The reader finds its way back with the next line: what it returns is a frame
\* that was sent, never one put together from the rests of two or from an
\* answer, and the first line that was not hit itself is returned.
ReaderFindsBack ==
  [][\A n \in Frames :
       mode = "read" /\ wire # << >> /\ wire' = Tail(wire) /\ Head(wire) = Byte(n, "cr") =>
         /\ mode' = "handle" => frame' = SubSeq(FrameLine(n), 1, 3)
         /\ ~spoiled => mode' = "handle"]_slcanVars
=============================================================================
