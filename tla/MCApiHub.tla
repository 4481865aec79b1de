------------------------------ MODULE MCApiHub ------------------------------
(***************************************************************************)
(* Constants for model-checking ApiHub.                                    *)
(***************************************************************************)
EXTENDS ApiHub

CONSTANTS dac_level, climate
MCOrder == <<dac_level, climate>>
=============================================================================
