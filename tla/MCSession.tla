----------------------------- MODULE MCSession -----------------------------
(***************************************************************************)
(* Constants for model-checking Session.                                   *)
(***************************************************************************)
EXTENDS Session

MCBound == [powerlogger |-> 44, kaskade |-> 20]

\* The table of the pauses is 5 s * min(1.8^tries, 60).
ASSUME DelaysAssumption ==
  /\ \A t \in 0 .. TriesMax - 1 :
       PowerloggerDelay(t) = (5 * 18 ^ t + 10 ^ t - 1) \div 10 ^ t
  /\ 18 ^ TriesMax > 60 * 10 ^ TriesMax /\ PowerloggerDelay(TriesMax) = 5 * 60
=============================================================================
