------------------------------ MODULE MCSystem ------------------------------
(***************************************************************************)
(* The pipeline running the code of MCCode.                                *)
(***************************************************************************)
EXTENDS RiscvSystem, MCCode

(* The code is what RiscvSystem_proof asks for (HandlerProgram).           *)
ASSUME ProgramAssumption ==
  /\ Handler!HandlerAssumption
  /\ VECTOR_INT_TABLE_SIZE # 0
  /\ EndKept
=============================================================================
