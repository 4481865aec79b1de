---------------------------- MODULE MCController ----------------------------
(***************************************************************************)
(* Constants for model-checking Controller.  One unit of time stands for   *)
(* ten seconds, one step of voltage for a third of the DAC range.          *)
(***************************************************************************)
EXTENDS Controller, TLC

MCCurve == (0 :> 0) @@ (1 :> 0) @@ (2 :> 1500) @@ (3 :> 4000)
MCStart == -800
MCStop == -600

Export == {-5000}                  \* more than a sweep needs
ExportOrImport == {-5000, 700}     \* and a draw above the stop threshold
Band == {-2500, -700, 700}         \* a draw, and export between the thresholds
=============================================================================
