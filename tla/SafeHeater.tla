----------------------------- MODULE SafeHeater -----------------------------
(***************************************************************************)
(* What the heating-rod controller promises of its output CH0: the rod is  *)
(* driven only in a period that was started, every period ends at 0 V,     *)
(* nothing heats while an internal cutoff is latched, and nothing follows  *)
(* the end of the thread.                                                  *)
(***************************************************************************)
EXTENDS Naturals

CONSTANT Volts

VARIABLES mode,  \* "idle", "heat", "sweep", "locked" or "halted"
          ch0    \* the voltage on CH0

Modes == {"idle", "heat", "sweep", "locked", "halted"}
Init == mode = "idle" /\ ch0 = 0

\* A period starts, from a latched cutoff once that has been released.
Start == mode \in {"idle", "locked"} /\ mode' = "heat" /\ ch0' \in Volts
Adjust == mode = "heat" /\ ch0' \in Volts /\ UNCHANGED mode

\* A sweep takes over the output as it finds it and drives it step by step.
BeginSweep == mode \in {"idle", "heat", "locked"} /\ mode' = "sweep" /\ UNCHANGED ch0
Sweep == mode = "sweep" /\ ch0' \in Volts /\ UNCHANGED mode

Stop == mode \in {"heat", "sweep", "locked"} /\ mode' = "idle" /\ ch0' = 0
Lock == mode = "heat" /\ mode' = "locked" /\ ch0' = 0
Halt == mode \in {"idle", "heat", "locked"} /\ mode' = "halted" /\ ch0' = 0

Next == Start \/ Adjust \/ BeginSweep \/ Sweep \/ Stop \/ Lock \/ Halt
Spec == Init /\ [][Next]_<<mode, ch0>>
=============================================================================
