---------------------------- MODULE MCCalibration ----------------------------
(***************************************************************************)
(* Constants for model-checking Calibration.  A unit is 0.5 V and 500 W.   *)
(***************************************************************************)
EXTENDS Calibration

MCDraws == [v \in Voltages |-> IF v <= Meaningful THEN {0} ELSE {0, 3, 8}]
=============================================================================
