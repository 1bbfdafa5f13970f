------------------------------ MODULE MCLogger ------------------------------
(***************************************************************************)
(* Instance of AsyncJsonLogger for TLC.  The cfg files choose the drop     *)
(* policy and the bounds.                                                  *)
(***************************************************************************)
EXTENDS AsyncJsonLogger
=============================================================================
