------------------------------ MODULE MCTiming ------------------------------
(***************************************************************************)
(* The core with the history of its timing, on the memory, instructions    *)
(* and programs of MCCore.                                                 *)
(***************************************************************************)
EXTENDS MCCore, RiscvTiming
=============================================================================
