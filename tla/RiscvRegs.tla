------------------------------ MODULE RiscvRegs ------------------------------
(***************************************************************************)
(* The register file with registered reads (PRE_ADDR_REG_OUTS "TRUE",      *)
(* reg.v 69-83), beside the one the core is modelled with, which reads     *)
(* when asked.  It is given the register numbers of the word on its way    *)
(* into the latch, and answers one edge later with what it read then or,   *)
(* if that edge wrote the same register, with what was written.            *)
(***************************************************************************)
EXTENDS RiscvCoreSafety

VARIABLES rs1a_del, rs2a_del, rs1_int, rs2_int,  \* what was asked for and read
          rda_del, rd_del, rdw_del               \* what was written meanwhile

ports    == <<rs1a_del, rs2a_del, rs1_int, rs2_int, rda_del, rd_del, rdw_del>>
regsvars == <<vars, ports>>

RegsInit ==
  /\ Init
  /\ rs1a_del = 0 /\ rs2a_del = 0 /\ rs1_int = 0 /\ rs2_int = 0
  /\ rda_del = 0 /\ rd_del = 0 /\ rdw_del = FALSE

rs1a == Decode(Fetched).rs1
rs2a == Decode(Fetched).rs2

ReadPorts ==
  /\ rs1a_del' = rs1a /\ rs2a_del' = rs2a
  /\ rs1_int' = REG[rs1a] /\ rs2_int' = REG[rs2a]
  /\ rda_del' = I.rd /\ rdw_del' = rdw
  /\ rd_del' = IF rdw THEN rd ELSE 0   \* not looked at when rdw is low

WrongPort(a, read) == IF a = 0 THEN 0 ELSE read

Port(a, read) ==
  IF a = 0 THEN 0 ELSE IF a = rda_del /\ rdw_del THEN rd_del ELSE read

RegsNext == Next /\ ReadPorts

RegsSpec == RegsInit /\ [][RegsNext]_regsvars

-----------------------------------------------------------------------------
(* The core looks at its operands, for a result, a jump or an address. *)
UsesOperands ==
  /\ Drives
  /\ \/ I.op = "OP" /\ stage_cnt_latch = 0
     \/ I.op \in {"JALR", "BRANCH", "LOAD"} /\ stage_cnt = 1
     \/ I.op = "STORE" /\ stage_cnt = StorePhase

(***************************************************************************)
(* Whenever the core looks at its operands, registered reads give it the   *)
(* values that reads on demand would: whatever was written at that edge or *)
(* the one before, behind loads, jumps, interrupts and resets.             *)
(***************************************************************************)
OperandsAgree ==
  UsesOperands => Port(rs1a_del, rs1_int) = rs1 /\ Port(rs2a_del, rs2_int) = rs2
=============================================================================
