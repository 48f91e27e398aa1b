------------------------------ MODULE MCHandler ------------------------------
(***************************************************************************)
(* The handler on the memory of MCCode.                                    *)
(***************************************************************************)
EXTENDS RiscvHandler, MCCode
=============================================================================
