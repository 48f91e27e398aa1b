------------------------------- MODULE MCApp -------------------------------
(***************************************************************************)
(* Words of four values, so that the low word of the counter wraps every   *)
(* four ticks and cnt within four turns of the loop.                       *)
(***************************************************************************)
EXTENDS RiscvApp

MCLoadImage == <<2>>
=============================================================================
