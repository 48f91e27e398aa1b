------------------------------ MODULE RiscvCore ------------------------------
(***************************************************************************)
(* The core, clock edge by clock edge: module risc_v of risc-v-v2.v with   *)
(* its register file, between a synchronous memory and devices that hold   *)
(* an interrupt request until it is acknowledged.                          *)
(*                                                                         *)
(* Variables keep the names of the code's registers.  put_int_table_addr   *)
(* always equals enter_interrupt and is not kept twice.  The outputs of    *)
(* always @ * blocks are operators of the current state; every action is   *)
(* one rising edge, at which all registers take their next value at once.  *)
(*                                                                         *)
(* SINGLE_BUS = TRUE is the configuration of both examples: instructions   *)
(* and data share data_addr_o / data_i.  With FALSE instructions come from *)
(* pgm_inst_i and data_addr_o keeps its last value between accesses.       *)
(***************************************************************************)
EXTENDS RiscvArch

CONSTANTS
  SINGLE_BUS,
  Programs,     \* the memories the system may be started with
  RESET_HOLD    \* least number of edges the board keeps rst_i high

ASSUME CoreAssumption ==
  /\ SINGLE_BUS \in BOOLEAN
  /\ Programs \subseteq Memories
  /\ RESET_HOLD \in Nat /\ RESET_HOLD >= 2

(***************************************************************************)
(* The first instruction is a jump without link, "j _entry" of entry.S,    *)
(* and no store can replace it.                                            *)
(***************************************************************************)
ASSUME EntryAssumption ==
  /\ WordOf(RESET_VECTOR) \notin RamWords
  /\ \A m \in Programs : LET i == Decode(m[WordOf(RESET_VECTOR)])
                         IN i.op = "JAL" /\ i.rd = 0

VARIABLES
  rst_i, rst_cnt,         \* the reset input; edges seen in this reset, capped
  int_sig, int_ack_o,     \* requests held by the devices; acknowledged by the core
  PC, pc_latch_1,
  instruction_latch, stage_cnt, stage_cnt_latch,
  skip_execution, skip_execution_latch, enter_interrupt, after_reset,
  RIP, reg_mstatus, reg_mcause,
  REG,                    \* the register file, cell 0 included
  sysreg_rd, data_sysreg_int,
  mem,                    \* what the memories hold; 0 where none is selected
  data_i, pgm_inst_i, data_addr_latch

control  == <<PC, pc_latch_1, instruction_latch, stage_cnt, stage_cnt_latch,
              skip_execution, skip_execution_latch, enter_interrupt, after_reset>>
sysregs  == <<RIP, reg_mstatus, reg_mcause>>
datapath == <<REG, sysreg_rd, data_sysreg_int, mem, data_i, pgm_inst_i, data_addr_latch>>
env      == <<rst_i, rst_cnt, int_sig, int_ack_o>>
vars     == <<env, control, sysregs, datapath>>

(***************************************************************************)
(* The state after the first edge of the power-up reset: what reset does   *)
(* not load is zero, as the memories and the FPGA configuration leave it.  *)
(***************************************************************************)
Init ==
  /\ rst_i = TRUE /\ rst_cnt = 1 /\ int_sig = {} /\ int_ack_o = {}
  /\ PC = RESET_VECTOR /\ pc_latch_1 = 0
  /\ instruction_latch = 0 /\ stage_cnt = 0 /\ stage_cnt_latch = 0
  /\ skip_execution = FALSE /\ skip_execution_latch = FALSE
  /\ enter_interrupt = FALSE /\ after_reset = TRUE
  /\ RIP = 0 /\ reg_mstatus = MIE_bit /\ reg_mcause = 0
  /\ REG = [r \in Regs |-> 0]
  /\ sysreg_rd = FALSE /\ data_sysreg_int = 0
  /\ mem \in Programs
  /\ data_i = 0 /\ pgm_inst_i = 0 /\ data_addr_latch = 0

-----------------------------------------------------------------------------
(***************************************************************************)
(* Combinational logic: what the latched instruction drives this cycle.    *)
(***************************************************************************)
I   == Decode(instruction_latch)
rs1 == X(REG, I.rs1)
rs2 == X(REG, I.rs2)

WrongDrives == ~enter_interrupt

Drives == ~enter_interrupt /\ ~skip_execution_latch

StorePhase == IF SINGLE_BUS THEN 1 ELSE 0

DrivesDataAddr ==
  /\ Drives
  /\ \/ I.op = "LOAD"  /\ stage_cnt = 1
     \/ I.op = "STORE" /\ stage_cnt = StorePhase

data_addr_o == IF DrivesDataAddr THEN EffAddr(REG, I)
               ELSE IF SINGLE_BUS THEN PC ELSE data_addr_latch

Wrongdata_wr == Drives /\ I.op = "STORE"

data_wr == Drives /\ I.op = "STORE" /\ (SINGLE_BUS => stage_cnt = 1)

data_rd_w == Drives /\ I.op = "LOAD" /\ I.f = "LW" /\ stage_cnt_latch = 0

(* One write to the register file, in the cycle after the instruction. *)
rdw ==
  /\ Drives
  /\ \/ I.op = "LOAD" /\ stage_cnt_latch = 1
     \/ I.op \in {"LUI", "AUIPC", "JAL", "JALR"} /\ stage_cnt_latch % 2 = 0
     \/ I.op = "OP" /\ stage_cnt_latch = 0

rd == CASE I.op = "LOAD"           -> Narrow(I.f, IF sysreg_rd THEN data_sysreg_int ELSE data_i)
        [] I.op = "LUI"            -> I.imm % WordSize
        [] I.op = "AUIPC"          -> (pc_latch_1 + I.imm - 4) % WordSize
        [] I.op \in {"JAL", "JALR"} -> pc_latch_1
        [] OTHER                   -> Alu(I, rs1, rs2)

SysRegRead == CASE WordOf(data_addr_o) = REG_MSTATUS -> reg_mstatus
                [] WordOf(data_addr_o) = REG_RIP     -> RIP
                [] WordOf(data_addr_o) = REG_MCAUSE  -> reg_mcause
                [] OTHER                             -> data_i

(***************************************************************************)
(* Every edge moves the datapath, reset or not: the register file and the  *)
(* memories are not reset.                                                 *)
(***************************************************************************)
Datapath ==
  /\ skip_execution_latch' = skip_execution
  /\ pc_latch_1' = PC
  /\ stage_cnt_latch' = stage_cnt
  /\ REG' = IF rdw THEN [REG EXCEPT ![I.rd] = rd] ELSE REG
  /\ sysreg_rd' = (~rst_i /\ IsSysAddr(data_addr_o) /\ data_rd_w)
  /\ data_sysreg_int' = IF ~rst_i /\ IsSysAddr(data_addr_o) /\ data_rd_w THEN SysRegRead ELSE data_i
  /\ mem' = IF data_wr THEN StoreAt(mem, data_addr_o, I.f, rs2) ELSE mem
  /\ data_i' = mem[WordOf(data_addr_o)]
  /\ IF SINGLE_BUS
       THEN UNCHANGED <<pgm_inst_i, data_addr_latch>>
       ELSE /\ pgm_inst_i' = mem[WordOf(PC)]
            /\ data_addr_latch' = data_addr_o

(***************************************************************************)
(* A word store to a system register.  It is the later assignment of the   *)
(* edge, so it overrides what interrupt entry assigns.                     *)
(***************************************************************************)
SysStore(a) == data_wr /\ I.f = "SW" /\ data_addr_o = a
StoredRIP(otherwise)     == IF SysStore(REG_RIP) THEN rs2 % AddrSize ELSE otherwise
WrongStoredMstatus(otherwise) ==
  IF data_wr /\ I.f = "SW" /\ IsSysAddr(data_addr_o) THEN rs2 % 256 ELSE otherwise
StoredMstatus(otherwise) == IF SysStore(REG_MSTATUS) THEN rs2 % 256 ELSE otherwise

(***************************************************************************)
(* The world outside the core.  A device holds its request until it is     *)
(* acknowledged and is held in reset with the core; rst_i stays high for   *)
(* at least RESET_HOLD edges.                                              *)
(***************************************************************************)
WrongDevices == int_sig' \in SUBSET IF rst_i THEN {} ELSE Sources

Devices ==
  IF rst_i THEN int_sig' = {}
  ELSE \E raised \in SUBSET Sources : int_sig' = (int_sig \ int_ack_o) \cup raised

ResetInput ==
  /\ rst_i' \in BOOLEAN
  /\ IF rst_i
       THEN /\ rst_cnt' = IF rst_cnt < RESET_HOLD THEN rst_cnt + 1 ELSE rst_cnt
            /\ rst_cnt' < RESET_HOLD => rst_i'
       ELSE rst_cnt' = 0

Edge == Datapath /\ Devices /\ ResetInput

-----------------------------------------------------------------------------
(***************************************************************************)
(* Control.                                                                *)
(***************************************************************************)
Sequence(pc, stage, skip) == PC' = pc /\ stage_cnt' = stage /\ skip_execution' = skip

(* The same where nothing but a store touches mstatus. *)
Proceed(pc, stage, skip) ==
  /\ Sequence(pc, stage, skip)
  /\ reg_mstatus' = StoredMstatus(reg_mstatus)

(* Edges that neither reset nor enter an interrupt. *)
Running ==
  /\ ~rst_i
  /\ after_reset' = FALSE
  /\ enter_interrupt' = FALSE
  /\ int_ack_o' = {}
  /\ RIP' = StoredRIP(RIP)
  /\ UNCHANGED reg_mcause
  /\ Edge

Fetched == IF SINGLE_BUS THEN data_i ELSE pgm_inst_i

WrongInterruptTaken ==
  ~skip_execution /\ ~skip_execution_latch /\ int_sig # {} /\ MIE(reg_mstatus)

InterruptTaken == ~skip_execution /\ int_sig # {} /\ MIE(reg_mstatus)

(* An edge that latches a new instruction and executes it. *)
Issue(ops) ==
  /\ Running
  /\ stage_cnt = 0 /\ ~skip_execution /\ ~InterruptTaken
  /\ Decode(Fetched).op \in ops
  /\ instruction_latch' = Fetched

(* An edge in the middle of a multi-cycle instruction. *)
Continue(ops) ==
  /\ Running
  /\ stage_cnt = 1 /\ ~skip_execution
  /\ I.op \in ops
  /\ UNCHANGED instruction_latch

WrongResetEdge ==
  /\ rst_i
  /\ after_reset' = TRUE
  /\ enter_interrupt' = FALSE
  /\ int_ack_o' = {}
  /\ Sequence(RESET_VECTOR, 0, FALSE)
  /\ reg_mstatus' = SetMIE(reg_mstatus)
  /\ UNCHANGED <<instruction_latch, RIP, reg_mcause>>
  /\ Edge

ResetEdge ==
  /\ rst_i
  /\ after_reset' = TRUE
  /\ enter_interrupt' = FALSE
  /\ int_ack_o' = {}
  /\ instruction_latch' = 0
  /\ Sequence(RESET_VECTOR, 0, FALSE)
  /\ reg_mstatus' = SetMIE(reg_mstatus)
  /\ UNCHANGED <<RIP, reg_mcause>>
  /\ Edge

WrongEnterInterrupt ==
  /\ ~rst_i
  /\ stage_cnt = 0 /\ InterruptTaken
  /\ instruction_latch' = Fetched
  /\ after_reset' = FALSE
  /\ enter_interrupt' = TRUE
  /\ int_ack_o' = {Lowest(int_sig)}
  /\ reg_mcause' = Lowest(int_sig)
  /\ RIP' = StoredRIP(PC)
  /\ reg_mstatus' = StoredMstatus(ClearMIE(reg_mstatus))
  /\ Sequence(Plus(RESET_VECTOR, 4), 1, TRUE)
  /\ Edge

(***************************************************************************)
(* The instruction just fetched is dropped, and the next fetch is from the *)
(* interrupt vector, the word after the reset vector.                      *)
(***************************************************************************)
EnterInterrupt ==
  /\ ~rst_i
  /\ stage_cnt = 0 /\ InterruptTaken
  /\ instruction_latch' = Fetched
  /\ after_reset' = FALSE
  /\ enter_interrupt' = TRUE
  /\ int_ack_o' = {Lowest(int_sig)}
  /\ reg_mcause' = Lowest(int_sig)
  /\ RIP' = StoredRIP(Plus(PC, -4))
  /\ reg_mstatus' = StoredMstatus(ClearMIE(reg_mstatus))
  /\ Sequence(Plus(RESET_VECTOR, 4), 1, TRUE)
  /\ Edge

(* The word fetched behind a jump is latched but not executed. *)
Skip ==
  /\ Running
  /\ stage_cnt = 0 /\ skip_execution
  /\ instruction_latch' = Fetched
  /\ Proceed(Plus(PC, 4), 0, FALSE)

(* One-cycle instructions: with two buses a store is one of them. *)
IssueSimple ==
  /\ Issue({"OP", "LUI", "AUIPC", "NOP"}
           \cup (IF SINGLE_BUS THEN {} ELSE {"STORE"})
           \cup (IF VECTOR_INT_TABLE_SIZE = 0 THEN {"MRET"} ELSE {}))
  /\ Proceed(Plus(PC, 4), 0, FALSE)

WrongIssueMret ==
  /\ VECTOR_INT_TABLE_SIZE # 0
  /\ Issue({"MRET"})
  /\ Proceed(RIP, 0, TRUE)

IssueMret ==
  /\ VECTOR_INT_TABLE_SIZE # 0
  /\ Issue({"MRET"})
  /\ reg_mstatus' = SetMIE(StoredMstatus(reg_mstatus))
  /\ Sequence(RIP, 0, TRUE)

WrongIssueJal ==
  /\ Issue({"JAL"})
  /\ Proceed(Plus(Plus(PC, -4), Decode(Fetched).imm), 0, TRUE)

IssueJal ==
  /\ Issue({"JAL"})
  /\ Proceed(Plus(IF after_reset THEN pc_latch_1 ELSE Plus(PC, -4), Decode(Fetched).imm), 0, TRUE)

WrongIssueHoldStore ==
  /\ Issue({"LOAD", "JALR", "BRANCH", "STORE"})
  /\ Proceed(PC, 1, FALSE)

WrongIssueHoldMoves ==
  /\ Issue({"LOAD", "JALR", "BRANCH"} \cup (IF SINGLE_BUS THEN {"STORE"} ELSE {}))
  /\ Proceed(Plus(PC, 4), 1, FALSE)

(* The first cycle of a multi-cycle instruction holds the program counter. *)
IssueHold ==
  /\ Issue({"LOAD", "JALR", "BRANCH"} \cup (IF SINGLE_BUS THEN {"STORE"} ELSE {}))
  /\ Proceed(PC, 1, FALSE)

JalrJump ==
  /\ Continue({"JALR"})
  /\ Proceed(JalrTarget(REG, I), 0, TRUE)

ResolveBranch ==
  /\ Continue({"BRANCH"})
  /\ IF Taken(REG, I)
       THEN Proceed(Plus(Plus(PC, -4), I.imm), 0, TRUE)
       ELSE Proceed(Plus(PC, 4), 0, FALSE)

WrongAccessMemory ==
  /\ SINGLE_BUS
  /\ Continue({"LOAD", "STORE"})
  /\ Proceed(Plus(PC, 4), 0, FALSE)

(* One bus: the access takes the bus, the next fetch waits a cycle more. *)
AccessMemory ==
  /\ SINGLE_BUS
  /\ Continue({"LOAD", "STORE"})
  /\ Proceed(PC, 2, FALSE)

(* Every other edge in the middle of something moves on to the next word. *)
Advance ==
  /\ Running
  /\ stage_cnt # 0
  /\ ~ (/\ stage_cnt = 1
        /\ ~skip_execution
        /\ \/ I.op \in {"JALR", "BRANCH"}
           \/ SINGLE_BUS /\ I.op \in {"LOAD", "STORE"})
  /\ UNCHANGED instruction_latch
  /\ Proceed(Plus(PC, 4), 0, FALSE)

Next ==
  \/ ResetEdge \/ EnterInterrupt \/ Skip
  \/ IssueSimple \/ IssueMret \/ IssueJal \/ IssueHold
  \/ JalrJump \/ ResolveBranch \/ AccessMemory \/ Advance

(* The clock runs for as long as the core is not held in reset. *)
Fairness == WF_vars(~rst_i /\ Next)

Spec == Init /\ [][Next]_vars /\ Fairness
=============================================================================
