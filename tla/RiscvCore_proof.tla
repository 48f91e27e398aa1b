--------------------------- MODULE RiscvCore_proof ---------------------------
(***************************************************************************)
(* Proofs about the clock-level core, for every size of word, memory and   *)
(* interrupt table, every program, one bus or two: its invariants, and     *)
(* that it implements the instruction-level machine, with one bus for      *)
(* every program, and with two for every program that keeps to what        *)
(* Disciplined says.                                                       *)
(***************************************************************************)
EXTENDS RiscvCoreSafety, TLAPS, WellFoundedInduction

-----------------------------------------------------------------------------
(* Arithmetic of the address adders and of the MIE bit.                    *)

LEMMA SizesPositive ==
  /\ WordSize \in Nat /\ AddrSize \in Nat /\ SysSize \in Nat
  /\ AddrSize >= 32 /\ WordSize >= 256 /\ AddrSize <= WordSize /\ AddrSize % 4 = 0
  /\ RESET_VECTOR \in Addr /\ RESET_VECTOR + 4 \in Addr
  /\ Addr \subseteq Word /\ Byte \subseteq Word /\ 0 \in Addr /\ 0 \in Word
  BY SizesAssumption DEF Addr, Word, Byte

LEMMA PlusType ==
  ASSUME NEW a \in Int, NEW d \in Int
  PROVE  Plus(a, d) \in Addr
  BY SizesPositive DEF Plus, Addr

(* What was added can be taken away again: PC - 4 undoes PC + 4. *)
LEMMA PlusMinus4 ==
  ASSUME NEW a \in Addr
  PROVE  Plus(Plus(a, 4), -4) = a /\ Plus(Plus(a, -4), 4) = a
  BY SizesPositive DEF Plus, Addr

LEMMA WordOfType ==
  ASSUME NEW a \in Addr
  PROVE  WordOf(a) \in WordIdx
  BY SizesPositive DEF WordOf, WordIdx, NWords, Addr

LEMMA MIEBit ==
  ASSUME NEW m \in Byte
  PROVE  /\ SetMIE(m) \in Byte /\ MIE(SetMIE(m))
         /\ ClearMIE(m) \in Byte /\ ~MIE(ClearMIE(m))
<1>1. CASE (m \div 8) % 2 = 1
  BY <1>1 DEF Byte, SetMIE, ClearMIE, MIE, MIE_bit
<1>2. CASE (m \div 8) % 2 # 1
  BY <1>2 DEF Byte, SetMIE, ClearMIE, MIE, MIE_bit
<1> QED BY <1>1, <1>2

(* The priority encoder names a pending input, and the lowest. *)
LEMMA LowestPending ==
  ASSUME NEW s \in SUBSET Nat, s # {}
  PROVE  Lowest(s) \in s /\ \A j \in s : Lowest(s) <= j
<1>1. \E x \in s : \A y \in s : ~ (<<y, x>> \in OpToRel(<, Nat))
  BY NatLessThanWellFounded, WFMin
<1>2. PICK x \in s : \A y \in s : ~ (<<y, x>> \in OpToRel(<, Nat))
  BY <1>1
<1>3. ASSUME NEW y \in s
      PROVE  x <= y
  <2>1. ~ (y < x)
    BY <1>2 DEF OpToRel
  <2> QED BY <2>1
<1> QED BY <1>2, <1>3 DEF Lowest

LEMMA SourcesType == Sources \subseteq Nat /\ Sources \subseteq Byte
  BY SizesAssumption DEF Sources, Byte

-----------------------------------------------------------------------------
(* Types of the operators the two machines share.                          *)

LEMMA DecodeType ==
  ASSUME NEW w \in Word
  PROVE  Decode(w) \in Inst /\ Decode(w) \in Instructions
  BY OperatorsAssumption DEF Instructions

LEMMA XType ==
  ASSUME NEW R \in [Regs -> Word], NEW r \in Regs
  PROVE  X(R, r) \in Word
  BY SizesPositive DEF X

LEMMA TargetType ==
  ASSUME NEW R \in [Regs -> Word], NEW i \in Inst
  PROVE  EffAddr(R, i) \in Addr /\ JalrTarget(R, i) \in Addr
<1>1. i.rs1 \in Regs /\ i.imm \in Int
  BY DEF Inst
<1>2. X(R, i.rs1) \in Int
  BY <1>1, XType DEF Word
<1>3. X(R, i.rs1) - (X(R, i.rs1) % 2) \in Int
  BY <1>2
<1> QED BY <1>1, <1>2, <1>3, PlusType DEF EffAddr, JalrTarget

LEMMA StoreAtType ==
  ASSUME NEW m \in Memories, NEW a \in Addr, NEW w \in Word, NEW v \in Word,
         Decode(w).op = "STORE"
  PROVE  /\ StoreAt(m, a, Decode(w).f, v) \in Memories
         /\ \A u \in WordIdx \ RamWords : StoreAt(m, a, Decode(w).f, v)[u] = m[u]
<1>1. WordOf(a) \in WordIdx /\ m[WordOf(a)] \in Word
  BY WordOfType DEF Memories
<1>2. a % 4 \in 0 .. 3
  BY SizesPositive DEF Addr
<1>3. Merge(Decode(w).f, a % 4, m[WordOf(a)], v) \in Word
  BY <1>1, <1>2, DecodeType, OperatorsAssumption
<1> QED BY <1>1, <1>3 DEF StoreAt, Memories

-----------------------------------------------------------------------------
(* Types of the combinational outputs.                                     *)

LEMMA LatchType ==
  ASSUME TypeOK
  PROVE  /\ I \in Inst /\ I \in Instructions
         /\ rs1 \in Word /\ rs2 \in Word
         /\ I.rd \in Regs /\ I.imm \in Int
         /\ data_addr_o \in Addr
         /\ WordOf(data_addr_o) \in WordIdx /\ WordOf(PC) \in WordIdx
         /\ Fetched \in Word
<1>1. I \in Inst /\ I \in Instructions
  BY DecodeType DEF TypeOK, I
<1>2. I.rd \in Regs /\ I.imm \in Int /\ I.rs1 \in Regs /\ I.rs2 \in Regs
  BY <1>1 DEF Inst
<1>3. rs1 \in Word /\ rs2 \in Word
  BY <1>2, XType DEF TypeOK, rs1, rs2
<1>4. data_addr_o \in Addr
  BY <1>1, TargetType DEF TypeOK, data_addr_o
<1>5. WordOf(data_addr_o) \in WordIdx /\ WordOf(PC) \in WordIdx
  BY <1>4, WordOfType DEF TypeOK
<1> QED BY <1>1, <1>2, <1>3, <1>4, <1>5 DEF Fetched, TypeOK

LEMMA RdType ==
  ASSUME TypeOK, rdw
  PROVE  rd \in Word
<1>1. data_i \in Word /\ data_sysreg_int \in Word /\ pc_latch_1 \in Addr
  BY DEF TypeOK
<1>2. I.op \in {"LOAD", "LUI", "AUIPC", "JAL", "JALR", "OP"}
  BY DEF rdw
<1>3. CASE I.op = "LOAD"
  <2>1. rd = Narrow(I.f, IF sysreg_rd THEN data_sysreg_int ELSE data_i)
    BY <1>3 DEF rd
  <2> QED BY <1>1, <1>3, <2>1, LatchType, OperatorsAssumption
<1>4. CASE I.op = "LUI"
  <2>1. rd = I.imm % WordSize
    BY <1>4 DEF rd
  <2> QED BY <2>1, LatchType, SizesPositive DEF Word
<1>5. CASE I.op = "AUIPC"
  <2>1. rd = (pc_latch_1 + I.imm - 4) % WordSize
    BY <1>5 DEF rd
  <2>2. pc_latch_1 + I.imm - 4 \in Int
    BY <1>1, LatchType DEF Addr
  <2> QED BY <2>1, <2>2, SizesPositive DEF Word
<1>6. CASE I.op \in {"JAL", "JALR"}
  <2>1. rd = pc_latch_1
    BY <1>6 DEF rd
  <2> QED BY <1>1, <2>1, SizesPositive
<1>7. CASE I.op = "OP"
  <2>1. rd = Alu(I, rs1, rs2)
    BY <1>7 DEF rd
  <2> QED BY <1>7, <2>1, LatchType, OperatorsAssumption
<1> QED BY <1>2, <1>3, <1>4, <1>5, <1>6, <1>7

LEMMA SysRegReadType ==
  ASSUME TypeOK
  PROVE  SysRegRead \in Word
<1>1. /\ reg_mstatus \in Word /\ reg_mcause \in Word /\ RIP \in Word /\ data_i \in Word
  BY SizesPositive DEF TypeOK
<1> QED BY <1>1 DEF SysRegRead

LEMMA StoredType ==
  ASSUME TypeOK
  PROVE  /\ \A a \in Addr : StoredRIP(a) \in Addr
         /\ \A m \in Byte : StoredMstatus(m) \in Byte
<1>1. rs2 \in Nat
  BY LatchType, SizesPositive DEF Word
<1>2. rs2 % AddrSize \in Addr /\ rs2 % 256 \in Byte
  BY <1>1, SizesPositive DEF Addr, Byte
<1> QED BY <1>2 DEF StoredRIP, StoredMstatus

-----------------------------------------------------------------------------
(* Type correctness.                                                       *)

DatapathTypeOK ==
  /\ pc_latch_1 \in Addr /\ data_addr_latch \in Addr
  /\ stage_cnt_latch \in 0 .. 2 /\ skip_execution_latch \in BOOLEAN /\ sysreg_rd \in BOOLEAN
  /\ REG \in [Regs -> Word]
  /\ mem \in Memories
  /\ data_sysreg_int \in Word /\ data_i \in Word /\ pgm_inst_i \in Word

ControlTypeOK ==
  /\ PC \in Addr /\ RIP \in Addr
  /\ instruction_latch \in Word /\ stage_cnt \in 0 .. 2
  /\ reg_mstatus \in Byte /\ reg_mcause \in Byte
  /\ int_ack_o \subseteq Sources

FlagsTypeOK ==
  skip_execution \in BOOLEAN /\ enter_interrupt \in BOOLEAN /\ after_reset \in BOOLEAN

EnvTypeOK ==
  /\ rst_i \in BOOLEAN /\ rst_cnt \in 0 .. RESET_HOLD
  /\ int_sig \subseteq Sources

LEMMA DatapathType ==
  ASSUME TypeOK, Datapath
  PROVE  DatapathTypeOK'
<1>1. REG' \in [Regs -> Word]
  <2>1. CASE rdw
    BY <2>1, RdType, LatchType DEF Datapath, TypeOK
  <2>2. CASE ~rdw
    BY <2>2 DEF Datapath, TypeOK
  <2> QED BY <2>1, <2>2
<1>2. mem' \in Memories
  <2>1. CASE data_wr
    <3>1. Decode(instruction_latch).op = "STORE"
      BY <2>1 DEF data_wr, I
    <3>2. mem' = StoreAt(mem, data_addr_o, Decode(instruction_latch).f, rs2)
      BY <2>1 DEF Datapath, I
    <3>3. mem \in Memories /\ instruction_latch \in Word
      BY DEF TypeOK
    <3> QED BY <3>1, <3>2, <3>3, LatchType, StoreAtType
  <2>2. CASE ~data_wr
    BY <2>2 DEF Datapath, TypeOK
  <2> QED BY <2>1, <2>2
<1>3. data_i' \in Word
  BY LatchType DEF Datapath, TypeOK, Memories
<1>4. data_sysreg_int' \in Word
  BY SysRegReadType DEF Datapath, TypeOK
<1>5. pgm_inst_i' \in Word /\ data_addr_latch' \in Addr
  BY LatchType DEF Datapath, TypeOK, Memories
<1>6. /\ pc_latch_1' \in Addr /\ stage_cnt_latch' \in 0 .. 2
      /\ skip_execution_latch' \in BOOLEAN /\ sysreg_rd' \in BOOLEAN
  BY DEF Datapath, TypeOK
<1> QED BY <1>1, <1>2, <1>3, <1>4, <1>5, <1>6 DEF DatapathTypeOK

LEMMA EnvType ==
  ASSUME TypeOK, Devices, ResetInput
  PROVE  EnvTypeOK'
<1>1. int_sig' \subseteq Sources
  BY DEF Devices, TypeOK
<1>2. rst_i' \in BOOLEAN /\ rst_cnt' \in 0 .. RESET_HOLD
  BY CoreAssumption DEF ResetInput, TypeOK
<1> QED BY <1>1, <1>2 DEF EnvTypeOK

LEMMA FlagsType ==
  ASSUME Next
  PROVE  FlagsTypeOK'
  BY DEF Next, FlagsTypeOK, ResetEdge, EnterInterrupt, Skip, IssueSimple, IssueMret, IssueJal,
         IssueHold, JalrJump, ResolveBranch, AccessMemory, Advance, Issue, Continue, Running,
         Proceed, Sequence

LEMMA ControlType ==
  ASSUME TypeOK, Next
  PROVE  ControlTypeOK'
<1>0. /\ PC \in Addr /\ pc_latch_1 \in Addr /\ RIP \in Addr /\ instruction_latch \in Word
      /\ reg_mstatus \in Byte /\ reg_mcause \in Byte /\ int_sig \subseteq Sources
      /\ REG \in [Regs -> Word]
  BY DEF TypeOK
<1>a. /\ Plus(PC, 4) \in Addr /\ Plus(PC, -4) \in Addr
      /\ Plus(RESET_VECTOR, 4) \in Addr /\ RESET_VECTOR \in Addr /\ 0 \in Word
      /\ Fetched \in Word
  <2>1. PC \in Int /\ RESET_VECTOR \in Int
    BY <1>0, SizesPositive DEF Addr
  <2> QED BY <2>1, PlusType, SizesPositive, LatchType
<1>b. /\ StoredRIP(RIP) \in Addr /\ StoredRIP(Plus(PC, -4)) \in Addr
      /\ StoredMstatus(reg_mstatus) \in Byte /\ SetMIE(reg_mstatus) \in Byte
      /\ SetMIE(StoredMstatus(reg_mstatus)) \in Byte
      /\ StoredMstatus(ClearMIE(reg_mstatus)) \in Byte
  BY <1>0, <1>a, StoredType, MIEBit
<1>c. Decode(Fetched).imm \in Int /\ I.imm \in Int
  BY <1>a, DecodeType, LatchType DEF Inst
<1>1. CASE ResetEdge
  BY <1>1, <1>0, <1>a, <1>b DEF ResetEdge, Sequence, ControlTypeOK
<1>2. CASE EnterInterrupt
  <2>1. int_sig # {}
    BY <1>2 DEF EnterInterrupt, InterruptTaken
  <2>2. Lowest(int_sig) \in Sources /\ Lowest(int_sig) \in Byte
    BY <1>0, <2>1, LowestPending, SourcesType
  <2> QED BY <1>2, <1>0, <1>a, <1>b, <2>2 DEF EnterInterrupt, Sequence, ControlTypeOK
<1>3. CASE Skip
  BY <1>3, <1>0, <1>a, <1>b DEF Skip, Running, Proceed, Sequence, ControlTypeOK
<1>4. CASE IssueSimple
  BY <1>4, <1>0, <1>a, <1>b DEF IssueSimple, Issue, Running, Proceed, Sequence, ControlTypeOK
<1>5. CASE IssueMret
  BY <1>5, <1>0, <1>a, <1>b DEF IssueMret, Issue, Running, Sequence, ControlTypeOK
<1>6. CASE IssueJal
  <2>1. (IF after_reset THEN pc_latch_1 ELSE Plus(PC, -4)) \in Int
    BY <1>0, <1>a DEF Addr
  <2>2. Plus(IF after_reset THEN pc_latch_1 ELSE Plus(PC, -4), Decode(Fetched).imm) \in Addr
    BY <1>c, <2>1, PlusType
  <2> QED BY <1>6, <1>0, <1>a, <1>b, <2>2
         DEF IssueJal, Issue, Running, Proceed, Sequence, ControlTypeOK
<1>7. CASE IssueHold
  BY <1>7, <1>0, <1>a, <1>b DEF IssueHold, Issue, Running, Proceed, Sequence, ControlTypeOK
<1>8. CASE JalrJump
  <2>1. JalrTarget(REG, I) \in Addr
    BY <1>0, LatchType, TargetType
  <2> QED BY <1>8, <1>0, <1>b, <2>1
         DEF JalrJump, Continue, Running, Proceed, Sequence, ControlTypeOK
<1>9. CASE ResolveBranch
  <2>1. Plus(PC, -4) \in Int
    BY <1>a DEF Addr
  <2>2. Plus(Plus(PC, -4), I.imm) \in Addr
    BY <1>c, <2>1, PlusType
  <2> QED BY <1>9, <1>0, <1>a, <1>b, <2>2
         DEF ResolveBranch, Continue, Running, Proceed, Sequence, ControlTypeOK
<1>10. CASE AccessMemory
  BY <1>10, <1>0, <1>b DEF AccessMemory, Continue, Running, Proceed, Sequence, ControlTypeOK
<1>11. CASE Advance
  BY <1>11, <1>0, <1>a, <1>b DEF Advance, Running, Proceed, Sequence, ControlTypeOK
<1> QED BY <1>1, <1>2, <1>3, <1>4, <1>5, <1>6, <1>7, <1>8, <1>9, <1>10, <1>11 DEF Next

(* Every action is one edge of the clock. *)
LEMMA EveryStepIsAnEdge ==
  ASSUME Next
  PROVE  Edge
  BY DEF Next, ResetEdge, EnterInterrupt, Skip, IssueSimple, IssueMret, IssueJal, IssueHold,
         JalrJump, ResolveBranch, AccessMemory, Advance, Issue, Continue, Running

LEMMA TypeInit == Init => TypeOK
<1> SUFFICES ASSUME Init PROVE TypeOK
  OBVIOUS
<1>1. mem \in Memories
  BY CoreAssumption DEF Init
<1>2. REG \in [Regs -> Word]
  BY SizesPositive DEF Init
<1>3. FlagsTypeOK
  BY DEF Init, FlagsTypeOK
<1>4. EnvTypeOK
  <2>1. rst_i \in BOOLEAN /\ int_sig \subseteq Sources
    BY DEF Init
  <2>2. rst_cnt \in 0 .. RESET_HOLD
    BY CoreAssumption DEF Init
  <2> QED BY <2>1, <2>2 DEF EnvTypeOK
<1>5. ControlTypeOK
  BY SizesPositive DEF Init, ControlTypeOK, MIE_bit, Byte
<1>6. DatapathTypeOK
  <2>1. skip_execution_latch \in BOOLEAN /\ sysreg_rd \in BOOLEAN
    BY DEF Init
  <2>2. /\ pc_latch_1 \in Addr /\ data_addr_latch \in Addr /\ stage_cnt_latch \in 0 .. 2
        /\ data_sysreg_int \in Word /\ data_i \in Word /\ pgm_inst_i \in Word
    BY SizesPositive DEF Init
  <2> QED BY <1>1, <1>2, <2>1, <2>2 DEF DatapathTypeOK
<1> QED BY <1>3, <1>4, <1>5, <1>6 DEF DatapathTypeOK, ControlTypeOK, FlagsTypeOK, EnvTypeOK, TypeOK

LEMMA TypeStep == TypeOK /\ [Next]_vars => TypeOK'
<1> SUFFICES ASSUME TypeOK, [Next]_vars PROVE TypeOK'
  OBVIOUS
<1>1. CASE Next
  <2>1. Datapath /\ Devices /\ ResetInput
    BY <1>1, EveryStepIsAnEdge DEF Edge
  <2>2. DatapathTypeOK' /\ ControlTypeOK' /\ FlagsTypeOK' /\ EnvTypeOK'
    BY <1>1, <2>1, DatapathType, ControlType, FlagsType, EnvType
  <2> QED BY <2>2 DEF DatapathTypeOK, ControlTypeOK, FlagsTypeOK, EnvTypeOK, TypeOK
<1>2. CASE UNCHANGED vars
  BY <1>2 DEF vars, env, control, sysregs, datapath, TypeOK
<1> QED BY <1>1, <1>2

(***************************************************************************)
(* Every register of the core keeps its width, for every program: the type *)
(* invariant of the clock-level core (risc-v-v2.v 118-156).                *)
(***************************************************************************)
THEOREM TypeCorrect == Spec => []TypeOK
<1>1. Init => TypeOK
  BY TypeInit
<1>2. TypeOK /\ [Next]_vars => TypeOK'
  BY TypeStep
<1> QED BY <1>1, <1>2, PTL DEF Spec

-----------------------------------------------------------------------------
(* The shape of the pipeline.                                              *)

LEMMA LatchesMove ==
  ASSUME Next
  PROVE  skip_execution_latch' = skip_execution /\ stage_cnt_latch' = stage_cnt /\ pc_latch_1' = PC
  BY EveryStepIsAnEdge DEF Edge, Datapath

(* Edges after which no instruction is in the middle of anything. *)
AtRest == stage_cnt = 0 /\ ~enter_interrupt

LEMMA AtRestShape ==
  ASSUME AtRest'
  PROVE  PipelineShape'
  BY DEF AtRest, PipelineShape, data_wr, DrivesDataAddr, Drives, StorePhase

LEMMA RestingSteps ==
  ASSUME \/ ResetEdge \/ Skip \/ IssueSimple \/ IssueMret \/ IssueJal
         \/ JalrJump \/ ResolveBranch \/ Advance
  PROVE  AtRest'
  BY DEF AtRest, ResetEdge, Skip, IssueSimple, IssueMret, IssueJal, JalrJump, ResolveBranch,
         Advance, Issue, Continue, Running, Proceed, Sequence

LEMMA PipelineStep ==
  ASSUME TypeOK, PipelineShape, Next
  PROVE  PipelineShape'
<1>1. skip_execution_latch' = skip_execution /\ stage_cnt_latch' = stage_cnt
  BY LatchesMove
<1>2. CASE \/ ResetEdge \/ Skip \/ IssueSimple \/ IssueMret \/ IssueJal
           \/ JalrJump \/ ResolveBranch \/ Advance
  BY <1>2, RestingSteps, AtRestShape
<1>3. CASE EnterInterrupt
  <2>1. enter_interrupt' /\ stage_cnt' = 1 /\ skip_execution' /\ stage_cnt = 0
    BY <1>3 DEF EnterInterrupt, Sequence
  <2>2. SINGLE_BUS => ~MIE(reg_mstatus')
    <3>1. SUFFICES ASSUME SINGLE_BUS PROVE ~MIE(reg_mstatus')
      OBVIOUS
    <3>2. ~SysStore(REG_MSTATUS)
      BY <2>1, <3>1 DEF SysStore, data_wr
    <3>3. reg_mstatus' = ClearMIE(reg_mstatus)
      BY <1>3, <3>2 DEF EnterInterrupt, StoredMstatus
    <3> QED BY <3>3, MIEBit DEF TypeOK
  <2> QED BY <1>1, <2>1, <2>2 DEF PipelineShape, data_wr, DrivesDataAddr, Drives
<1>4. CASE IssueHold
  <2>1. /\ ~enter_interrupt' /\ stage_cnt' = 1 /\ ~skip_execution' /\ stage_cnt = 0
        /\ ~skip_execution
    BY <1>4 DEF IssueHold, Issue, Running, Proceed, Sequence
  <2>2. I'.op \in {"LOAD", "JALR", "BRANCH", "STORE"} /\ (I'.op = "STORE" => SINGLE_BUS)
    BY <1>4 DEF IssueHold, Issue, I
  <2> QED BY <1>1, <2>1, <2>2 DEF PipelineShape, data_wr, DrivesDataAddr, Drives, StorePhase
<1>5. CASE AccessMemory
  <2>1. /\ ~enter_interrupt' /\ stage_cnt' = 2 /\ ~skip_execution' /\ stage_cnt = 1
        /\ ~skip_execution /\ SINGLE_BUS
    BY <1>5 DEF AccessMemory, Continue, Running, Proceed, Sequence
  <2>2. I'.op \in {"LOAD", "STORE"}
    BY <1>5 DEF AccessMemory, Continue, I
  <2> QED BY <1>1, <2>1, <2>2 DEF PipelineShape, data_wr, DrivesDataAddr, Drives
<1> QED BY <1>2, <1>3, <1>4, <1>5 DEF Next

-----------------------------------------------------------------------------
(* One acknowledge per request.                                            *)

LEMMA ServedOnceStep ==
  ASSUME TypeOK, PipelineShape, ServedOnce, Next
  PROVE  ServedOnce'
<1>1. CASE EnterInterrupt
  <2>1. /\ int_ack_o' = {Lowest(int_sig)} /\ reg_mcause' = Lowest(int_sig) /\ enter_interrupt'
        /\ int_sig # {} /\ stage_cnt = 0 /\ ~rst_i
    BY <1>1 DEF EnterInterrupt, InterruptTaken
  <2>2. int_sig \in SUBSET Nat
    BY SourcesType DEF TypeOK
  <2>3. Lowest(int_sig) \in int_sig
    BY <2>1, <2>2, LowestPending
  <2>4. int_ack_o = {}
    BY <2>1 DEF ServedOnce, PipelineShape
  <2>5. int_sig \subseteq int_sig'
    BY <2>1, <2>4, <1>1 DEF EnterInterrupt, Edge, Devices
  <2> QED BY <2>1, <2>3, <2>5 DEF ServedOnce
<1>2. CASE ~EnterInterrupt
  <2>1. int_ack_o' = {}
    BY <1>2 DEF Next, ResetEdge, Skip, IssueSimple, IssueMret, IssueJal, IssueHold, JalrJump,
                ResolveBranch, AccessMemory, Advance, Issue, Continue, Running
  <2> QED BY <2>1 DEF ServedOnce
<1> QED BY <1>1, <1>2

-----------------------------------------------------------------------------
(* Reset and fetch.                                                        *)

LEMMA ResetOrRun ==
  ASSUME Next
  PROVE  \/ rst_i /\ ResetEdge
         \/ ~rst_i /\ ~after_reset'
  BY DEF Next, ResetEdge, EnterInterrupt, Skip, IssueSimple, IssueMret, IssueJal, IssueHold,
         JalrJump, ResolveBranch, AccessMemory, Advance, Issue, Continue, Running

(* With one bus, the fetch has the bus. *)
BusFetches == SINGLE_BUS => data_addr_o = PC /\ ~data_wr

(* A fetch that has the bus brings the word at the program counter. *)
LEMMA FetchBrings ==
  ASSUME TypeOK, PipelineShape, Next, BusFetches, NEW a \in Addr, PC = a
  PROVE  Fetched' = mem'[WordOf(a)] \/ (~SINGLE_BUS /\ WordOf(a) \in RamWords)
<1>1. Datapath
  BY EveryStepIsAnEdge DEF Edge
<1>2. CASE SINGLE_BUS
  <2>1. data_i' = mem[WordOf(a)] /\ mem' = mem
    BY <1>1, <1>2 DEF Datapath, BusFetches
  <2> QED BY <1>2, <2>1 DEF Fetched
<1>3. CASE ~SINGLE_BUS
  <2>1. pgm_inst_i' = mem[WordOf(a)]
    BY <1>1, <1>3 DEF Datapath
  <2>2. WordOf(a) \in WordIdx
    BY WordOfType
  <2>3. CASE data_wr
    <3>1. Decode(instruction_latch).op = "STORE"
      BY <2>3 DEF data_wr, I
    <3>2. mem' = StoreAt(mem, data_addr_o, Decode(instruction_latch).f, rs2)
      BY <1>1, <2>3 DEF Datapath, I
    <3>3. mem \in Memories /\ instruction_latch \in Word
      BY DEF TypeOK
    <3>4. \A u \in WordIdx \ RamWords : mem'[u] = mem[u]
      BY <3>1, <3>2, <3>3, LatchType, StoreAtType
    <3> QED BY <1>3, <2>1, <2>2, <3>4 DEF Fetched
  <2>4. CASE ~data_wr
    BY <1>1, <1>3, <2>1, <2>4 DEF Datapath, Fetched
  <2> QED BY <2>3, <2>4
<1> QED BY <1>2, <1>3

(* A core with no instruction latched leaves the bus to the fetch. *)
LEMMA EmptyLatchIdles ==
  ASSUME instruction_latch = 0
  PROVE  BusFetches
<1>1. I.op = "NOP"
  BY OperatorsAssumption DEF I
<1>2. ~data_wr /\ ~DrivesDataAddr
  BY <1>1 DEF data_wr, DrivesDataAddr
<1> QED BY <1>2 DEF BusFetches, data_addr_o

LEMMA ResetShapeStep ==
  ASSUME TypeOK, PipelineShape, ResetShape, Next
  PROVE  ResetShape'
<1>0. rst_cnt \in Nat /\ ResetInput
  BY EveryStepIsAnEdge DEF Edge, TypeOK
<1>1. CASE rst_i /\ ResetEdge
  <2>1. /\ PC' = RESET_VECTOR /\ instruction_latch' = 0 /\ stage_cnt' = 0
        /\ ~skip_execution' /\ ~enter_interrupt' /\ after_reset'
    BY <1>1 DEF ResetEdge, Sequence
  <2>2. ASSUME rst_cnt' >= 2
        PROVE  Fetches(RESET_VECTOR)' /\ pc_latch_1' = RESET_VECTOR
    <3>1. rst_cnt >= 1
      BY <1>0, <1>1, <2>2, CoreAssumption DEF ResetInput
    <3>2. PC = RESET_VECTOR /\ instruction_latch = 0
      BY <3>1 DEF ResetShape
    <3>3. BusFetches
      BY <3>2, EmptyLatchIdles
    <3>4. Fetches(RESET_VECTOR)'
      BY <3>2, <3>3, SizesPositive, FetchBrings DEF Fetches
    <3> QED BY <3>2, <3>4, LatchesMove
  <2>3. ~rst_i' => rst_cnt' >= 2
    BY <1>0, <1>1, CoreAssumption DEF ResetInput
  <2> QED BY <2>1, <2>2, <2>3 DEF ResetShape
<1>2. CASE ~rst_i /\ ~after_reset'
  <2>1. rst_cnt' = 0
    BY <1>0, <1>2 DEF ResetInput
  <2> QED BY <1>2, <2>1 DEF ResetShape
<1> QED BY <1>1, <1>2, ResetOrRun
(* Edges after which no slot latches an instruction to execute. *)
LEMMA NoSlotNext ==
  ASSUME \/ EnterInterrupt \/ IssueMret \/ IssueJal \/ IssueHold \/ JalrJump \/ AccessMemory
         \/ ResolveBranch /\ Taken(REG, I)
  PROVE  stage_cnt' # 0 \/ skip_execution'
  BY DEF EnterInterrupt, IssueMret, IssueJal, IssueHold, JalrJump, AccessMemory, ResolveBranch,
         Proceed, Sequence

(* The other edges fetch the word that the next slot latches. *)
LEMMA SlotNext ==
  ASSUME TypeOK, PipelineShape,
         Skip \/ IssueSimple \/ Advance \/ (ResolveBranch /\ ~Taken(REG, I))
  PROVE  /\ PC' = Plus(PC, 4) /\ stage_cnt' = 0 /\ ~skip_execution' /\ ~after_reset'
         /\ BusFetches
<1>1. PC' = Plus(PC, 4) /\ stage_cnt' = 0 /\ ~skip_execution' /\ ~after_reset'
  BY DEF Skip, IssueSimple, Advance, ResolveBranch, Issue, Continue, Running, Proceed, Sequence
<1>2. ASSUME SINGLE_BUS
      PROVE  ~(Drives /\ stage_cnt = 1 /\ I.op \in {"LOAD", "STORE"})
  <2>1. CASE Skip \/ IssueSimple
    <3>1. stage_cnt = 0
      BY <2>1 DEF Skip, IssueSimple, Issue
    <3> QED BY <3>1
  <2>2. CASE ResolveBranch
    BY <2>2 DEF ResolveBranch, Continue
  <2>3. CASE Advance
    BY <1>2, <2>3 DEF Advance, PipelineShape, Drives
  <2> QED BY <2>1, <2>2, <2>3
<1>3. BusFetches
  BY <1>2 DEF BusFetches, data_addr_o, data_wr, DrivesDataAddr, StorePhase
<1> QED BY <1>1, <1>3

LEMMA FetchAlignedStep ==
  ASSUME TypeOK, PipelineShape, ResetShape, Next
  PROVE  FetchAligned'
<1>1. CASE ResetEdge
  <2>1. after_reset' /\ PC' = RESET_VECTOR
    BY <1>1 DEF ResetEdge, Sequence
  <2>2. PcAbs' = RESET_VECTOR
    BY <2>1 DEF PcAbs, FetchAhead
  <2>3. ~rst_i' => Fetches(RESET_VECTOR)'
    BY <2>1, ResetShapeStep DEF ResetShape
  <2>4. ~rst_i' => Fetches(PcAbs)'
    BY <2>2, <2>3 DEF Fetches
  <2> QED BY <2>1, <2>4 DEF FetchAligned
<1>2. CASE \/ EnterInterrupt \/ IssueMret \/ IssueJal \/ IssueHold \/ JalrJump \/ AccessMemory
           \/ ResolveBranch /\ Taken(REG, I)
  BY <1>2, NoSlotNext DEF FetchAligned
<1>3. CASE Skip \/ IssueSimple \/ Advance \/ (ResolveBranch /\ ~Taken(REG, I))
  <2>1. /\ PC' = Plus(PC, 4) /\ stage_cnt' = 0 /\ ~skip_execution' /\ ~after_reset'
        /\ BusFetches
    BY <1>3, SlotNext
  <2>2. PC \in Addr
    BY DEF TypeOK
  <2>3. PcAbs' = Plus(PC', -4)
    BY <2>1 DEF PcAbs, FetchAhead
  <2>4. PcAbs' = PC
    BY <2>1, <2>2, <2>3, PlusMinus4
  <2>5. \A a \in Addr :
          PC = a => (Fetched' = mem'[WordOf(a)] \/ (~SINGLE_BUS /\ WordOf(a) \in RamWords))
    BY <2>1, FetchBrings
  <2>6. Fetches(PcAbs)'
    BY <2>2, <2>4, <2>5 DEF Fetches
  <2> QED BY <2>6 DEF FetchAligned
<1> QED BY <1>1, <1>2, <1>3 DEF Next

-----------------------------------------------------------------------------
(* The inductive invariant.                                                *)

LEMMA InvInit == Init => IInv
<1> SUFFICES ASSUME Init PROVE IInv
  OBVIOUS
<1>1. I.op = "NOP"
  BY OperatorsAssumption DEF Init, I
<1>2. PipelineShape
  BY <1>1 DEF Init, PipelineShape, data_wr
<1>3. ResetShape
  BY DEF Init, ResetShape
<1>4. FetchAligned
  BY DEF Init, FetchAligned
<1>5. ServedOnce
  BY DEF Init, ServedOnce
<1> QED BY <1>2, <1>3, <1>4, <1>5, TypeInit DEF IInv

LEMMA InvStep == IInv /\ [Next]_vars => IInv'
<1> SUFFICES ASSUME IInv, [Next]_vars PROVE IInv'
  OBVIOUS
<1>1. CASE Next
  BY <1>1, TypeStep, PipelineStep, ResetShapeStep, FetchAlignedStep, ServedOnceStep DEF IInv
<1>2. CASE UNCHANGED vars
  <2>1. TypeOK'
    BY TypeStep DEF IInv
  <2>2. PipelineShape'
    BY <1>2 DEF vars, env, control, sysregs, IInv, PipelineShape, data_wr, DrivesDataAddr, Drives, I
  <2>3. ResetShape' /\ FetchAligned' /\ ServedOnce'
    BY <1>2 DEF vars, env, control, sysregs, datapath, IInv, ResetShape, FetchAligned, ServedOnce,
                Fetches, Fetched, PcAbs, FetchAhead
  <2> QED BY <2>1, <2>2, <2>3 DEF IInv
<1> QED BY <1>1, <1>2

(***************************************************************************)
(* The conjunction of the five invariants is inductive.                    *)
(***************************************************************************)
THEOREM InvCorrect == Spec => []IInv
  BY InvInit, InvStep, PTL DEF Spec

(***************************************************************************)
(* No instruction is ever in a stage it does not need, no store asserts    *)
(* its strobe without its address, and a core with one bus never enters an *)
(* interrupt with interrupts left enabled (risc-v-v2.v 192-388).           *)
(***************************************************************************)
THEOREM PipelineShapeHolds == Spec => []PipelineShape
<1>1. IInv => PipelineShape
  BY DEF IInv
<1> QED BY <1>1, InvCorrect, PTL

(***************************************************************************)
(* A core that leaves reset starts at the reset vector, provided the board *)
(* holds reset for two edges (risc-v-v2.v 288-293 and CoreAssumption).     *)
(***************************************************************************)
THEOREM ResetShapeHolds == Spec => []ResetShape
<1>1. IInv => ResetShape
  BY DEF IInv
<1> QED BY <1>1, InvCorrect, PTL

(***************************************************************************)
(* The word the core latches to execute is the word at the address that    *)
(* jumps, links and the return pointer take it to have (risc-v-v2.v 153),  *)
(* on every path: behind loads, stores, jumps, interrupts and reset.       *)
(***************************************************************************)
THEOREM FetchAlignedHolds == Spec => []FetchAligned
<1>1. IInv => FetchAligned
  BY DEF IInv
<1> QED BY <1>1, InvCorrect, PTL

(***************************************************************************)
(* One acknowledge serves one request, and the cause register names it     *)
(* (risc-v-v2.v 299-309).                                                  *)
(***************************************************************************)
THEOREM ServedOnceHolds == Spec => []ServedOnce
<1>1. IInv => ServedOnce
  BY DEF IInv
<1> QED BY <1>1, InvCorrect, PTL

(***************************************************************************)
(* Only an mret that is executed, a store to mstatus or a reset sets MIE:  *)
(* a handler is interrupted only if it asks for it (risc-v-v2.v 288-327).  *)
(***************************************************************************)
THEOREM MaskKeptHolds == Spec => MaskKept
<1> DEFINE Unmasks == ~MIE(reg_mstatus) /\ MIE(reg_mstatus')
           Entitled == rst_i \/ SysStore(REG_MSTATUS)
                       \/ (AtSlot /\ ~InterruptTaken /\ Decode(Fetched).op = "MRET")
<1>1. ASSUME TypeOK, Next, Unmasks
      PROVE  Entitled
  <2>1. CASE ResetEdge
    BY <2>1 DEF ResetEdge
  <2>2. CASE EnterInterrupt
    <3>1. CASE ~SysStore(REG_MSTATUS)
      <4>1. reg_mstatus' = ClearMIE(reg_mstatus)
        BY <2>2, <3>1 DEF EnterInterrupt, StoredMstatus
      <4> QED BY <1>1, <4>1, MIEBit DEF TypeOK
    <3> QED BY <3>1
  <2>3. CASE IssueMret
    BY <2>3 DEF IssueMret, Issue, Running, AtSlot
  <2>4. CASE \/ Skip \/ IssueSimple \/ IssueJal \/ IssueHold \/ JalrJump \/ ResolveBranch
             \/ AccessMemory \/ Advance
    <3>1. reg_mstatus' = StoredMstatus(reg_mstatus)
      BY <2>4 DEF Skip, IssueSimple, IssueJal, IssueHold, JalrJump, ResolveBranch, AccessMemory,
                  Advance, Proceed
    <3> QED BY <1>1, <3>1 DEF StoredMstatus
  <2> QED BY <1>1, <2>1, <2>2, <2>3, <2>4 DEF Next
<1>2. TypeOK /\ [Next]_vars => [Unmasks => Entitled]_vars
  BY <1>1
<1> QED BY <1>2, TypeCorrect, PTL DEF Spec, MaskKept
-----------------------------------------------------------------------------
(* What an edge does to the place in the pipeline. *)
Resting(skip) == stage_cnt' = 0 /\ skip_execution' = skip /\ ~enter_interrupt'
Holding(stage) == stage_cnt' = stage /\ ~skip_execution' /\ ~enter_interrupt'
Latched(ops) == AtSlot /\ ~InterruptTaken /\ Decode(Fetched).op \in ops /\ I'.op = Decode(Fetched).op
Midway(ops) == /\ ~rst_i /\ stage_cnt = 1 /\ ~skip_execution /\ ~enter_interrupt
               /\ I.op \in ops /\ I' = I

OneCycle == {"OP", "LUI", "AUIPC", "NOP"}
            \cup (IF SINGLE_BUS THEN {} ELSE {"STORE"})
            \cup (IF VECTOR_INT_TABLE_SIZE = 0 THEN {"MRET"} ELSE {})
Held == {"LOAD", "JALR", "BRANCH"} \cup (IF SINGLE_BUS THEN {"STORE"} ELSE {})

LEMMA Edges ==
  ASSUME IInv, Next
  PROVE
    \/ rst_i /\ Resting(FALSE)
    \/ AtSlot /\ InterruptTaken /\ stage_cnt' = 1 /\ skip_execution' /\ enter_interrupt'
    \/ ~rst_i /\ stage_cnt = 0 /\ skip_execution /\ Resting(FALSE)
    \/ Latched(OneCycle) /\ Resting(FALSE)
    \/ Latched({"MRET"}) /\ VECTOR_INT_TABLE_SIZE # 0 /\ Resting(TRUE)
    \/ Latched({"JAL"}) /\ Resting(TRUE)
    \/ Latched(Held) /\ Holding(1)
    \/ Midway({"JALR"}) /\ Resting(TRUE)
    \/ Midway({"BRANCH"}) /\ Taken(REG, I) /\ Resting(TRUE)
    \/ Midway({"BRANCH"}) /\ ~Taken(REG, I) /\ Resting(FALSE)
    \/ SINGLE_BUS /\ Midway({"LOAD", "STORE"}) /\ Holding(2)
    \/ ~SINGLE_BUS /\ Midway({"LOAD"}) /\ Resting(FALSE)
    \/ ~rst_i /\ stage_cnt = 1 /\ enter_interrupt /\ Resting(FALSE)
    \/ ~rst_i /\ stage_cnt = 2 /\ I.op \in {"LOAD", "STORE"} /\ SINGLE_BUS /\ Resting(FALSE)
<1> USE DEF Resting, Holding, Latched, Midway, Sequence, Proceed, AtSlot
<1>a. /\ enter_interrupt => stage_cnt = 1 /\ skip_execution
      /\ stage_cnt = 1 /\ ~enter_interrupt =>
           /\ I.op \in {"LOAD", "STORE", "JALR", "BRANCH"}
           /\ I.op = "STORE" => SINGLE_BUS
           /\ ~skip_execution
      /\ stage_cnt = 2 => SINGLE_BUS /\ I.op \in {"LOAD", "STORE"} /\ ~skip_execution
      /\ stage_cnt \in 0 .. 2
  BY DEF IInv, PipelineShape, TypeOK
<1>1. CASE ResetEdge
  BY <1>1 DEF ResetEdge
<1>2. CASE EnterInterrupt
  BY <1>2 DEF EnterInterrupt, InterruptTaken
<1>3. CASE Skip
  BY <1>3 DEF Skip, Running
<1>4. CASE IssueSimple
  BY <1>4 DEF IssueSimple, Issue, Running, I, OneCycle
<1>5. CASE IssueMret
  BY <1>5 DEF IssueMret, Issue, Running, I
<1>6. CASE IssueJal
  BY <1>6 DEF IssueJal, Issue, Running, I
<1>7. CASE IssueHold
  BY <1>7 DEF IssueHold, Issue, Running, I, Held
<1>8. CASE JalrJump
  BY <1>8, <1>a DEF JalrJump, Continue, Running, I
<1>9. CASE ResolveBranch
  <2>1. Midway({"BRANCH"}) /\ ~enter_interrupt'
    BY <1>9, <1>a DEF ResolveBranch, Continue, Running, I
  <2>2. CASE Taken(REG, I)
    BY <1>9, <2>1, <2>2 DEF ResolveBranch
  <2>3. CASE ~Taken(REG, I)
    BY <1>9, <2>1, <2>3 DEF ResolveBranch
  <2> QED BY <2>2, <2>3
<1>10. CASE AccessMemory
  BY <1>10, <1>a DEF AccessMemory, Continue, Running, I
<1>11. CASE Advance
  <2>1. ~rst_i /\ Resting(FALSE) /\ stage_cnt # 0 /\ I' = I
    BY <1>11 DEF Advance, Running, I
  <2>2. CASE stage_cnt = 1 /\ ~enter_interrupt
    BY <1>11, <2>1, <2>2, <1>a DEF Advance
  <2>3. CASE stage_cnt = 1 /\ enter_interrupt
    BY <2>1, <2>3
  <2>4. CASE stage_cnt = 2
    BY <2>1, <2>4, <1>a
  <2>5. stage_cnt = 1 \/ stage_cnt = 2
    BY <2>1, <1>a
  <2> QED BY <2>2, <2>3, <2>4, <2>5
<1> QED BY <1>1, <1>2, <1>3, <1>4, <1>5, <1>6, <1>7, <1>8, <1>9, <1>10, <1>11 DEF Next

-----------------------------------------------------------------------------
(* Refinement.                                                             *)

(* With Disciplined, a held instruction is the one the programmer sees.    *)
Unstale == stage_cnt = 1 /\ ~enter_interrupt => instruction_latch = mem[WordOf(PcAbs)]

(* The program every memory starts with survives at the reset vector. *)
EntryKept == LET i == Decode(mem[WordOf(RESET_VECTOR)]) IN i.op = "JAL" /\ i.rd = 0

(* What the refinement needs of the state of the core. *)
RInv == IInv /\ HeldAligned /\ EntryKept

-----------------------------------------------------------------------------
(* The operators of the instruction-level machine are those of the core.   *)

LEMMA IsaOperators ==
  /\ \A a, d : ISA!Plus(a, d) = Plus(a, d)
  /\ \A a : ISA!WordOf(a) = WordOf(a) /\ ISA!IsSysAddr(a) = IsSysAddr(a)
  /\ \A R, r : ISA!X(R, r) = X(R, r)
  /\ \A R, i : ISA!EffAddr(R, i) = EffAddr(R, i) /\ ISA!JalrTarget(R, i) = JalrTarget(R, i)
  /\ \A R, i : ISA!Taken(R, i) <=> Taken(R, i)
  /\ \A m, a, f, v : ISA!StoreAt(m, a, f, v) = StoreAt(m, a, f, v)
  /\ \A m : (ISA!MIE(m) <=> MIE(m)) /\ ISA!SetMIE(m) = SetMIE(m) /\ ISA!ClearMIE(m) = ClearMIE(m)
  /\ ISA!REG_MSTATUS = REG_MSTATUS /\ ISA!REG_RIP = REG_RIP /\ ISA!REG_MCAUSE = REG_MCAUSE
  /\ ISA!Word = Word /\ ISA!Sources = Sources
<1>1. \A a, d : ISA!Plus(a, d) = Plus(a, d)
  BY DEF ISA!Plus, Plus
<1>2. \A a : ISA!WordOf(a) = WordOf(a) /\ ISA!IsSysAddr(a) = IsSysAddr(a)
  BY DEF ISA!WordOf, WordOf, ISA!IsSysAddr, IsSysAddr
<1>3. \A R, r : ISA!X(R, r) = X(R, r)
  BY DEF ISA!X, X
<1>4. \A R, i : ISA!EffAddr(R, i) = EffAddr(R, i) /\ ISA!JalrTarget(R, i) = JalrTarget(R, i)
  BY <1>1, <1>3 DEF ISA!EffAddr, EffAddr, ISA!JalrTarget, JalrTarget
<1>5. \A w : ISA!Signed(w) = Signed(w)
  BY DEF ISA!Signed, Signed
<1>6. \A R, i : ISA!Taken(R, i) <=> Taken(R, i)
  BY <1>3, <1>5 DEF ISA!Taken, Taken
<1>7. \A m, a, f, v : ISA!StoreAt(m, a, f, v) = StoreAt(m, a, f, v)
  BY <1>2 DEF ISA!StoreAt, StoreAt
<1>8. \A m : (ISA!MIE(m) <=> MIE(m)) /\ ISA!SetMIE(m) = SetMIE(m) /\ ISA!ClearMIE(m) = ClearMIE(m)
  BY DEF ISA!MIE, MIE, ISA!SetMIE, SetMIE, ISA!ClearMIE, ClearMIE, ISA!MIE_bit, MIE_bit
<1>9. /\ ISA!REG_MSTATUS = REG_MSTATUS /\ ISA!REG_RIP = REG_RIP /\ ISA!REG_MCAUSE = REG_MCAUSE
      /\ ISA!Word = Word /\ ISA!Sources = Sources
  BY DEF ISA!REG_MSTATUS, REG_MSTATUS, ISA!REG_RIP, REG_RIP, ISA!REG_MCAUSE, REG_MCAUSE,
         ISA!Word, Word, ISA!Sources, Sources
<1> QED BY <1>1, <1>2, <1>3, <1>4, <1>6, <1>7, <1>8, <1>9

-----------------------------------------------------------------------------
(* The invariant of the refinement.                                        *)

(* Only a store changes memory, and only the words that can be written.    *)
LEMMA OtherWordsKept ==
  ASSUME TypeOK, Datapath
  PROVE  /\ mem' = IF data_wr THEN StoreAt(mem, data_addr_o, I.f, rs2) ELSE mem
         /\ \A u \in WordIdx \ RamWords : mem'[u] = mem[u]
<1>1. mem' = IF data_wr THEN StoreAt(mem, data_addr_o, I.f, rs2) ELSE mem
  BY DEF Datapath
<1>2. CASE data_wr
  <2>1. Decode(instruction_latch).op = "STORE"
    BY <1>2 DEF data_wr, I
  <2>2. mem' = StoreAt(mem, data_addr_o, Decode(instruction_latch).f, rs2)
    BY <1>1, <1>2 DEF I
  <2>3. mem \in Memories /\ instruction_latch \in Word
    BY DEF TypeOK
  <2> QED BY <1>1, <2>1, <2>2, <2>3, LatchType, StoreAtType
<1>3. CASE ~data_wr
  BY <1>1, <1>3
<1> QED BY <1>2, <1>3

(* The first slot out of reset executes the entry jump. *)
LEMMA EntryIsJump ==
  ASSUME IInv, EntryKept, AtSlot, after_reset
  PROVE  /\ PC = RESET_VECTOR /\ pc_latch_1 = RESET_VECTOR
         /\ Decode(Fetched).op = "JAL" /\ Decode(Fetched).rd = 0
<1>1. rst_cnt \in Nat /\ rst_cnt >= 2
  BY DEF IInv, ResetShape, TypeOK, AtSlot
<1>2. PC = RESET_VECTOR /\ pc_latch_1 = RESET_VECTOR /\ Fetches(RESET_VECTOR)
  BY <1>1 DEF IInv, ResetShape
<1>3. Fetched = mem[WordOf(RESET_VECTOR)]
  BY <1>2, EntryAssumption DEF Fetches
<1> QED BY <1>2, <1>3 DEF EntryKept

(* An edge that holds an instruction is the one that latched it. *)
LEMMA HoldingEdge ==
  ASSUME IInv, Next, stage_cnt' = 1, ~enter_interrupt'
  PROVE  IssueHold /\ AtSlot
<1>1. \/ EnterInterrupt \/ IssueHold \/ AccessMemory
  BY DEF Next, ResetEdge, Skip, IssueSimple, IssueMret, IssueJal, JalrJump, ResolveBranch,
         Advance, Proceed, Sequence
<1>2. ~EnterInterrupt /\ ~AccessMemory
  BY DEF EnterInterrupt, AccessMemory, Proceed, Sequence
<1> QED BY <1>1, <1>2 DEF IssueHold, Issue, Running, AtSlot

LEMMA HeldAlignedStep ==
  ASSUME RInv, Next
  PROVE  HeldAligned'
<1>1. Edge /\ Datapath /\ TypeOK
  BY EveryStepIsAnEdge DEF Edge, RInv, IInv
<1>2. ASSUME stage_cnt' = 1, ~enter_interrupt'
      PROVE  /\ ~after_reset' /\ pc_latch_1' = PC'
             /\ \/ instruction_latch' = mem'[WordOf(PcAbs')]
                \/ ~SINGLE_BUS /\ WordOf(PcAbs') \in RamWords
  <2>1. IssueHold /\ AtSlot
    BY <1>2, HoldingEdge DEF RInv
  <2>2. ~after_reset
    <3>1. Decode(Fetched).op # "JAL"
      BY <2>1 DEF IssueHold, Issue
    <3> QED BY <2>1, <3>1, EntryIsJump DEF RInv
  <2>3. /\ PC' = PC /\ pc_latch_1' = PC /\ ~after_reset' /\ ~skip_execution'
        /\ instruction_latch' = Fetched
    BY <2>1, LatchesMove DEF IssueHold, Issue, Running, Proceed, Sequence
  <2>4. PcAbs' = PcAbs /\ PcAbs = Plus(PC, -4)
    BY <1>2, <2>1, <2>2, <2>3 DEF PcAbs, FetchAhead, AtSlot
  <2>5. Fetches(PcAbs)
    BY <2>1 DEF AtSlot, RInv, IInv, FetchAligned
  <2>6. WordOf(PcAbs) \in WordIdx
    BY <1>1, <2>4, PlusType, WordOfType DEF TypeOK, Addr
  <2>7. CASE SINGLE_BUS
    <3>1. ~data_wr
      BY <2>1, <2>7 DEF AtSlot, data_wr
    <3> QED BY <1>1, <2>3, <2>4, <2>5, <2>7, <3>1 DEF Fetches, Datapath
  <2>8. CASE ~SINGLE_BUS
    BY <1>1, <2>3, <2>4, <2>5, <2>6, <2>8, OtherWordsKept DEF Fetches
  <2> QED BY <2>3, <2>7, <2>8
<1>3. after_reset' => int_sig' = {}
  BY <1>1, ResetOrRun DEF Edge, Devices
<1> QED BY <1>2, <1>3 DEF HeldAligned

LEMMA EntryKeptStep ==
  ASSUME RInv, Next
  PROVE  EntryKept'
<1>1. WordOf(RESET_VECTOR) \in WordIdx \ RamWords
  BY EntryAssumption, SizesPositive, WordOfType
<1>2. mem'[WordOf(RESET_VECTOR)] = mem[WordOf(RESET_VECTOR)]
  BY <1>1, EveryStepIsAnEdge, OtherWordsKept DEF Edge, RInv, IInv
<1> QED BY <1>2 DEF RInv, EntryKept

LEMMA UnstaleStep ==
  ASSUME RInv, Disciplined, Next
  PROVE  Unstale'
<1> SUFFICES ASSUME stage_cnt' = 1, ~enter_interrupt'
             PROVE  instruction_latch' = mem'[WordOf(PcAbs')]
  BY DEF Unstale
<1>1. IssueHold /\ AtSlot
  BY HoldingEdge DEF RInv
<1>2. ~after_reset /\ Datapath
  <2>1. Decode(Fetched).op # "JAL"
    BY <1>1 DEF IssueHold, Issue
  <2> QED BY <1>1, <2>1, EntryIsJump, EveryStepIsAnEdge DEF RInv, Edge
<1>3. PC' = PC /\ instruction_latch' = Fetched /\ ~after_reset' /\ ~skip_execution'
  BY <1>1 DEF IssueHold, Issue, Running, Proceed, Sequence
<1>4. PcAbs' = PcAbs
  BY <1>1, <1>2, <1>3 DEF PcAbs, FetchAhead, AtSlot
<1>5. CASE SINGLE_BUS
  <2>1. mem' = mem
    BY <1>1, <1>2, <1>5 DEF AtSlot, data_wr, Datapath
  <2>2. Fetched = mem[WordOf(PcAbs)]
    BY <1>1, <1>2, <1>5 DEF RInv, IInv, FetchAligned, AtSlot, Fetches
  <2> QED BY <1>3, <1>4, <2>1, <2>2
<1>6. CASE ~SINGLE_BUS
  <2>1. mem' = MemAbs
    BY <1>2, <1>6 DEF Datapath, MemAbs, StoreInFlight
  <2>2. Fetched = MemAbs[WordOf(PcAbs)]
    BY <1>1, <1>6 DEF Disciplined
  <2> QED BY <1>3, <1>4, <2>1, <2>2
<1> QED BY <1>5, <1>6

LEMMA RInvInit == Init => RInv
<1> SUFFICES ASSUME Init PROVE RInv
  OBVIOUS
<1>1. HeldAligned
  BY DEF Init, HeldAligned
<1>2. EntryKept
  BY EntryAssumption DEF Init, EntryKept
<1> QED BY <1>1, <1>2, InvInit DEF RInv

LEMMA RInvStep == RInv /\ [Next]_vars => RInv'
<1> SUFFICES ASSUME RInv, [Next]_vars PROVE RInv'
  OBVIOUS
<1>1. CASE Next
  BY <1>1, InvStep, HeldAlignedStep, EntryKeptStep DEF RInv
<1>2. CASE UNCHANGED vars
  <2>1. IInv'
    BY InvStep DEF RInv
  <2>2. HeldAligned' /\ EntryKept'
    BY <1>2 DEF vars, env, control, sysregs, datapath, RInv, HeldAligned, EntryKept, PcAbs, FetchAhead
  <2> QED BY <2>1, <2>2 DEF RInv
<1> QED BY <1>1, <1>2

LEMMA RInvCorrect == Spec => []RInv
  BY RInvInit, RInvStep, PTL DEF Spec

(***************************************************************************)
(* An instruction held over several cycles is still the one memory holds   *)
(* at the address it was fetched from, and what JALR links is the address  *)
(* behind it (risc-v-v2.v 253-256, 281), whatever stores, interrupts and   *)
(* resets surround it.                                                     *)
(***************************************************************************)
THEOREM HeldAlignedHolds == Spec => []HeldAligned
<1>1. RInv => HeldAligned
  BY DEF RInv
<1> QED BY <1>1, RInvCorrect, PTL

-----------------------------------------------------------------------------
(* What the programmer sees, in each part of the pipeline.                 *)

(* No instruction is held. *)
Between == stage_cnt # 1 \/ enter_interrupt

(* Then what is in flight is what the edge writes. *)
LEMMA BetweenState ==
  ASSUME IInv, Disciplined, Datapath, Between
  PROVE  /\ RegsAbs = [r \in Regs |-> X(REG', r)]
         /\ mem' = MemAbs
         /\ RipAbs = RIP /\ MstatusAbs = reg_mstatus
         /\ \A v : StoredRIP(v) = v /\ StoredMstatus(v) = v
<1>1. Retiring <=> rdw
  BY DEF Between, Retiring, rdw, Drives
<1>2. RegsAbs = [r \in Regs |-> X(REG', r)]
  <2>1. CASE rdw
    <3>1. REG' = [REG EXCEPT ![I.rd] = rd] /\ REG \in [Regs -> Word]
      BY <2>1 DEF Datapath, IInv, TypeOK
    <3>2. \A r \in Regs : X(REG', r) = IF r = 0 THEN 0 ELSE IF r = I.rd THEN rd ELSE REG[r]
      BY <3>1 DEF X
    <3> QED BY <1>1, <2>1, <3>2 DEF RegsAbs
  <2>2. CASE ~rdw
    <3>1. REG' = REG
      BY <2>2 DEF Datapath
    <3> QED BY <1>1, <2>2, <3>1 DEF RegsAbs, X
  <2> QED BY <2>1, <2>2
<1>3. SINGLE_BUS => ~data_wr
  BY DEF Between, data_wr, Drives
<1>4. mem' = MemAbs
  BY <1>3 DEF Datapath, MemAbs, StoreInFlight
<1>5. ~SysStore(REG_MSTATUS) /\ ~SysStore(REG_RIP)
  BY <1>3 DEF Disciplined, SysStore
<1>6. \A v : StoredRIP(v) = v /\ StoredMstatus(v) = v
  BY <1>5 DEF StoredRIP, StoredMstatus
<1> QED BY <1>2, <1>4, <1>6 DEF RipAbs, MstatusAbs

(* With nothing about to be written the programmer sees the registers. *)
LEMMA NothingInFlight ==
  ASSUME ~Retiring, ~StoreInFlight
  PROVE  /\ RegsAbs = [r \in Regs |-> X(REG, r)]
         /\ MemAbs = mem /\ RipAbs = RIP /\ MstatusAbs = reg_mstatus
  BY DEF RegsAbs, X, MemAbs, RipAbs, MstatusAbs

(* The program counter is four bytes ahead of a fetched instruction. *)
LEMMA PcAhead ==
  ASSUME TypeOK, FetchAhead
  PROVE  PcAbs = Plus(PC, -4) /\ Plus(PcAbs, 4) = PC /\ PcAbs \in Addr
<1>1. PC \in Addr /\ PC \in Int /\ -4 \in Int
  BY DEF TypeOK, Addr
<1>2. Plus(PC, -4) \in Addr
  BY <1>1, PlusType
<1> QED BY <1>1, <1>2, PlusMinus4 DEF PcAbs

LEMMA HeldState ==
  ASSUME RInv, Unstale, Disciplined, stage_cnt = 1, ~enter_interrupt
  PROVE  /\ RegsAbs = [r \in Regs |-> X(REG, r)]
         /\ MemAbs = mem /\ RipAbs = RIP /\ MstatusAbs = reg_mstatus
         /\ PcAbs = Plus(PC, -4) /\ Plus(PcAbs, 4) = PC /\ pc_latch_1 = PC
         /\ ISA!Inst_ = I
         /\ ~skip_execution /\ Drives /\ stage_cnt_latch = 0
         /\ I.op \in {"LOAD", "STORE", "JALR", "BRANCH"}
<1>1. /\ ~skip_execution /\ Drives /\ stage_cnt_latch = 0
      /\ I.op \in {"LOAD", "STORE", "JALR", "BRANCH"} /\ (I.op = "STORE" => SINGLE_BUS)
  BY DEF RInv, IInv, PipelineShape, Drives
<1>2. ~Retiring /\ ~StoreInFlight
  BY <1>1 DEF Retiring, StoreInFlight, data_wr
<1>3. ~after_reset /\ pc_latch_1 = PC
  BY DEF RInv, HeldAligned
<1>4. FetchAhead
  BY <1>1, <1>3 DEF FetchAhead
<1>5. instruction_latch = mem[WordOf(PcAbs)]
  BY DEF Unstale
<1>6. ISA!Inst_ = I
  BY <1>2, <1>5, IsaOperators, NothingInFlight DEF ISA!Inst_, I
<1> QED BY <1>1, <1>2, <1>3, <1>4, <1>6, NothingInFlight, PcAhead DEF RInv, IInv

LEMMA SlotState ==
  ASSUME RInv, Disciplined, AtSlot, Datapath
  PROVE  /\ ISA!Inst_ = Decode(Fetched)
         /\ ~after_reset => PcAbs = Plus(PC, -4) /\ Plus(PcAbs, 4) = PC
         /\ after_reset => PcAbs = RESET_VECTOR /\ PC = RESET_VECTOR /\ pc_latch_1 = RESET_VECTOR
<1>1. ~after_reset => FetchAhead
  BY DEF AtSlot, FetchAhead
<1>2. /\ ~after_reset => PcAbs = Plus(PC, -4) /\ Plus(PcAbs, 4) = PC /\ PcAbs \in Addr
      /\ after_reset => PcAbs = RESET_VECTOR /\ PC = RESET_VECTOR /\ pc_latch_1 = RESET_VECTOR
  BY <1>1, PcAhead, EntryIsJump DEF RInv, IInv, PcAbs, FetchAhead
<1>3. Fetched = MemAbs[WordOf(PcAbs)]
  BY DEF RInv, IInv, FetchAligned, AtSlot, Fetches, Disciplined, MemAbs, StoreInFlight
<1>4. ISA!Inst_ = Decode(Fetched)
  BY <1>3, IsaOperators DEF ISA!Inst_
<1> QED BY <1>2, <1>4

-----------------------------------------------------------------------------
(* What an edge does to it.                                                *)

(* The instructions but mret. *)
Ordinary == ISA!Simple \/ ISA!Load \/ ISA!Store \/ ISA!Branch \/ ISA!Jump

(* Operands are the same, read from the cells or as the programmer does. *)
LEMMA Operands ==
  ASSUME NEW R, RegsAbs = [r \in Regs |-> X(R, r)]
  PROVE  /\ \A r \in Regs : X(RegsAbs, r) = X(R, r)
         /\ \A i \in Inst : /\ EffAddr(RegsAbs, i) = EffAddr(R, i)
                            /\ JalrTarget(RegsAbs, i) = JalrTarget(R, i)
                            /\ Taken(RegsAbs, i) <=> Taken(R, i)
<1>1. \A r \in Regs : X(RegsAbs, r) = X(R, r)
  BY DEF X
<1>2. ASSUME NEW i \in Inst
      PROVE  X(RegsAbs, i.rs1) = X(R, i.rs1) /\ X(RegsAbs, i.rs2) = X(R, i.rs2)
  BY <1>1 DEF Inst
<1>3. ASSUME NEW i \in Inst
      PROVE  /\ EffAddr(RegsAbs, i) = EffAddr(R, i)
             /\ JalrTarget(RegsAbs, i) = JalrTarget(R, i)
  BY <1>2 DEF EffAddr, JalrTarget
<1>4. ASSUME NEW i \in Inst
      PROVE  Taken(RegsAbs, i) <=> Taken(R, i)
  BY <1>2 DEF Taken
<1> QED BY <1>1, <1>3, <1>4

(* An edge behind which nothing is about to be written. *)
LEMMA QuietNext ==
  ASSUME ~Retiring', ~StoreInFlight'
  PROVE  /\ RegsAbs' = [r \in Regs |-> X(REG', r)]
         /\ MemAbs' = mem' /\ RipAbs' = RIP' /\ MstatusAbs' = reg_mstatus'
  BY DEF RegsAbs, X, MemAbs, RipAbs, MstatusAbs

(* An edge behind which a register is about to be written. *)
LEMMA RetireNext ==
  ASSUME Retiring', RegsAbs = [r \in Regs |-> X(REG', r)]
  PROVE  ISA!WriteReg(I'.rd, rd')
<1>1. RegsAbs' = [q \in Regs |-> IF q = 0 THEN 0 ELSE IF q = I'.rd THEN rd' ELSE REG'[q]]
  BY DEF RegsAbs
<1>2. \A q \in Regs : RegsAbs[q] = IF q = 0 THEN 0 ELSE REG'[q]
  BY DEF X
<1> QED BY <1>1, <1>2 DEF ISA!WriteReg

(* Between instructions a quiet edge shows the programmer nothing new. *)
LEMMA QuietEdge ==
  ASSUME RInv, Disciplined, Next, Between, ~Retiring', ~StoreInFlight'
  PROVE  /\ RegsAbs' = RegsAbs /\ MemAbs' = MemAbs
         /\ RipAbs = RIP /\ MstatusAbs = reg_mstatus
         /\ RipAbs' = RIP' /\ MstatusAbs' = reg_mstatus'
         /\ \A v : StoredRIP(v) = v /\ StoredMstatus(v) = v
  BY EveryStepIsAnEdge, BetweenState, QuietNext DEF Edge, RInv

LEMMA SkipImplements ==
  ASSUME RInv, Disciplined, Skip
  PROVE  UNCHANGED ISA!vars
<1>0. Next
  BY DEF Next
<1>1. /\ Between /\ PC \in Addr /\ skip_execution_latch' = skip_execution
  BY <1>0, LatchesMove DEF Skip, Between, RInv, IInv, TypeOK
<1>2. ~Retiring' /\ ~StoreInFlight'
  BY <1>1 DEF Skip, Retiring, rdw, StoreInFlight, data_wr, Drives
<1>3. /\ RIP' = StoredRIP(RIP) /\ reg_mstatus' = StoredMstatus(reg_mstatus)
      /\ PC' = Plus(PC, 4) /\ reg_mcause' = reg_mcause
      /\ ~FetchAhead /\ FetchAhead'
  BY DEF Skip, Running, Proceed, Sequence, FetchAhead
<1>4. PcAbs' = PcAbs
  BY <1>1, <1>3, PlusMinus4 DEF PcAbs
<1> QED BY <1>0, <1>1, <1>2, <1>3, <1>4, QuietEdge DEF ISA!vars

LEMMA EnterImplements ==
  ASSUME RInv, Disciplined, EnterInterrupt
  PROVE  reg_mcause' \in Sources /\ ISA!TakeInterrupt(reg_mcause')
<1>0. Next
  BY DEF Next
<1>1. Between /\ AtSlot /\ Datapath
  BY DEF EnterInterrupt, InterruptTaken, AtSlot, Between, Edge
<1>2. ~Retiring' /\ ~StoreInFlight'
  BY DEF EnterInterrupt, Retiring, rdw, StoreInFlight, data_wr, Drives
<1>3. int_sig # {} /\ MIE(reg_mstatus) /\ int_sig \in SUBSET Sources /\ int_sig \in SUBSET Nat
  BY SourcesType DEF EnterInterrupt, InterruptTaken, RInv, IInv, TypeOK
<1>4. PcAbs = Plus(PC, -4)
  BY <1>1, <1>3, SlotState DEF RInv, HeldAligned
<1>5. PcAbs' = RESET_VECTOR + 4
  <2>1. PcAbs' = Plus(RESET_VECTOR, 4)
    BY DEF EnterInterrupt, Sequence, PcAbs, FetchAhead
  <2> QED BY <2>1, SizesPositive DEF Plus, Addr
<1>6. /\ RIP' = StoredRIP(PcAbs) /\ reg_mstatus' = StoredMstatus(ClearMIE(reg_mstatus))
      /\ reg_mcause' = Lowest(int_sig)
  BY <1>4 DEF EnterInterrupt
<1>7. reg_mcause' \in Sources
  BY <1>3, <1>6, LowestPending
<1>8. ISA!TakeInterrupt(reg_mcause')
  BY <1>0, <1>1, <1>2, <1>3, <1>5, <1>6, QuietEdge, IsaOperators DEF ISA!TakeInterrupt
<1> QED BY <1>7, <1>8

(* An edge that issues an instruction other than the entry jump. *)
LEMMA IssueState ==
  ASSUME RInv, Disciplined, NEW ops, Issue(ops), "JAL" \notin ops
  PROVE  /\ Between /\ Datapath /\ ~after_reset
         /\ I' = Decode(Fetched) /\ ISA!Inst_ = Decode(Fetched)
         /\ I' \in Inst /\ I'.op \in ops
         /\ Drives' /\ stage_cnt_latch' = 0 /\ pc_latch_1' = PC
         /\ PcAbs = Plus(PC, -4) /\ Plus(PcAbs, 4) = PC
<1>1. Between /\ AtSlot /\ Datapath
  BY DEF Issue, Running, AtSlot, Between, Edge
<1>2. ~after_reset
  BY <1>1, EntryIsJump DEF Issue, RInv
<1>3. I' = Decode(Fetched)
  BY DEF Issue, I
<1>4. Decode(Fetched) \in Inst
  BY LatchType, DecodeType DEF RInv, IInv
<1>5. Drives' /\ stage_cnt_latch' = 0 /\ pc_latch_1' = PC
  BY <1>1 DEF Issue, Running, Drives, Datapath
<1> QED BY <1>1, <1>2, <1>3, <1>4, <1>5, SlotState DEF Issue

LEMMA IssueSimpleImplements ==
  ASSUME RInv, Disciplined, IssueSimple
  PROVE  Ordinary \/ (VECTOR_INT_TABLE_SIZE = 0 /\ ISA!Mret)
<1>0. Next
  BY DEF Next
<1>1. \E ops : "JAL" \notin ops /\ Issue(ops)
  BY DEF IssueSimple
<1>2. /\ Between /\ Datapath /\ ~after_reset
      /\ I' = Decode(Fetched) /\ ISA!Inst_ = I' /\ I' \in Inst
      /\ Drives' /\ stage_cnt_latch' = 0 /\ pc_latch_1' = PC
      /\ PcAbs = Plus(PC, -4) /\ Plus(PcAbs, 4) = PC
  BY <1>1, IssueState
<1>3. /\ stage_cnt' = 0 /\ PC' = Plus(PC, 4) /\ FetchAhead'
      /\ RIP' = StoredRIP(RIP) /\ reg_mstatus' = StoredMstatus(reg_mstatus)
      /\ reg_mcause' = reg_mcause
  BY DEF IssueSimple, Issue, Running, Proceed, Sequence, FetchAhead
<1>4. PcAbs' = Plus(PcAbs, 4)
  <2>1. PC \in Addr
    BY DEF RInv, IInv, TypeOK
  <2> QED BY <1>2, <1>3, <2>1, PlusMinus4 DEF PcAbs
<1>5. /\ RegsAbs = [r \in Regs |-> X(REG', r)] /\ mem' = MemAbs
      /\ RipAbs = RIP /\ MstatusAbs = reg_mstatus
      /\ RIP' = RIP /\ reg_mstatus' = reg_mstatus
  BY <1>2, <1>3, BetweenState DEF RInv
<1>6. /\ I'.rd \in Regs /\ I'.rs1 \in Regs /\ I'.rs2 \in Regs
      /\ rs1' = X(RegsAbs, I'.rs1) /\ rs2' = X(RegsAbs, I'.rs2)
      /\ EffAddr(REG', I') = EffAddr(RegsAbs, I')
  BY <1>2, <1>5, Operands DEF Inst, rs1, rs2
<1>7. CASE I'.op # "STORE"
  <2>1. ~StoreInFlight'
    BY <1>7 DEF StoreInFlight, data_wr
  <2>2. MemAbs' = MemAbs /\ RipAbs' = RipAbs /\ MstatusAbs' = MstatusAbs
    BY <1>5, <2>1 DEF MemAbs, RipAbs, MstatusAbs
  <2>3. CASE I'.op \in {"OP", "LUI", "AUIPC"}
    <3>1. Retiring'
      BY <1>2, <1>3, <2>3 DEF Retiring, rdw
    <3>2. ISA!WriteReg(I'.rd, rd')
      BY <1>5, <3>1, RetireNext
    <3>3. rd' = CASE I'.op = "LUI" -> I'.imm % WordSize
                  [] I'.op = "AUIPC" -> (Plus(PcAbs, 4) + I'.imm - 4) % WordSize
                  [] OTHER -> Alu(I', X(RegsAbs, I'.rs1), X(RegsAbs, I'.rs2))
      BY <1>2, <1>6, <2>3 DEF rd
    <3>4. ISA!Simple
      BY <1>2, <1>3, <1>4, <2>2, <2>3, <3>2, <3>3, IsaOperators DEF ISA!Simple
    <3> QED BY <3>4 DEF Ordinary
  <2>4. CASE I'.op \in {"NOP", "MRET"}
    <3>1. ~Retiring'
      BY <2>4 DEF Retiring, rdw
    <3>2. RegsAbs' = RegsAbs
      BY <1>5, <2>1, <3>1, QuietNext
    <3>3. CASE I'.op = "NOP"
      <4>1. ISA!Simple
        BY <1>2, <1>3, <1>4, <2>2, <3>2, <3>3, IsaOperators DEF ISA!Simple
      <4> QED BY <4>1 DEF Ordinary
    <3>4. CASE I'.op = "MRET"
      <4>1. VECTOR_INT_TABLE_SIZE = 0
        BY <1>2, <3>4 DEF IssueSimple, Issue
      <4>2. ISA!Mret
        BY <1>2, <1>3, <1>4, <2>2, <3>2, <3>4, <4>1, IsaOperators DEF ISA!Mret
      <4> QED BY <4>1, <4>2
    <3> QED BY <2>4, <3>3, <3>4
  <2> QED BY <1>2, <1>7, <2>3, <2>4 DEF IssueSimple, Issue
<1>8. CASE I'.op = "STORE"
  <2>1. ~SINGLE_BUS
    BY <1>2, <1>8 DEF IssueSimple, Issue
  <2>2. StoreInFlight' /\ ~Retiring' /\ data_wr'
    BY <1>2, <1>8, <2>1 DEF StoreInFlight, data_wr, Retiring, rdw
  <2>3. data_addr_o' = EffAddr(RegsAbs, I')
    BY <1>2, <1>3, <1>6, <1>8, <2>1 DEF data_addr_o, DrivesDataAddr, StorePhase
  <2>4. RegsAbs' = RegsAbs
    BY <1>5, <2>2 DEF RegsAbs, X
  <2>5. MemAbs' = StoreAt(MemAbs, EffAddr(RegsAbs, I'), I'.f, X(RegsAbs, I'.rs2))
    BY <1>5, <1>6, <2>2, <2>3 DEF MemAbs
  <2>6. /\ RipAbs' = IF I'.f = "SW" /\ EffAddr(RegsAbs, I') = REG_RIP
                       THEN X(RegsAbs, I'.rs2) % AddrSize ELSE RipAbs
        /\ MstatusAbs' = IF I'.f = "SW" /\ EffAddr(RegsAbs, I') = REG_MSTATUS
                           THEN X(RegsAbs, I'.rs2) % 256 ELSE MstatusAbs
    BY <1>5, <1>6, <2>2, <2>3 DEF RipAbs, MstatusAbs, StoredRIP, StoredMstatus, SysStore
  <2>7. ISA!Store
    BY <1>2, <1>3, <1>4, <1>8, <2>4, <2>5, <2>6, IsaOperators DEF ISA!Store
  <2> QED BY <2>7 DEF Ordinary
<1> QED BY <1>7, <1>8

LEMMA IssueMretImplements ==
  ASSUME RInv, Disciplined, IssueMret
  PROVE  ISA!Mret
<1>0. Next
  BY DEF Next
<1>1. Issue({"MRET"}) /\ VECTOR_INT_TABLE_SIZE # 0
  BY DEF IssueMret
<1>2. /\ Between /\ I'.op = "MRET" /\ ISA!Inst_ = I'
  BY <1>1, IssueState
<1>3. ~Retiring' /\ ~StoreInFlight'
  BY <1>2 DEF Retiring, rdw, StoreInFlight, data_wr
<1>4. /\ PcAbs' = RIP /\ RIP' = StoredRIP(RIP) /\ reg_mcause' = reg_mcause
      /\ reg_mstatus' = SetMIE(StoredMstatus(reg_mstatus))
  BY DEF IssueMret, Issue, Running, Sequence, PcAbs, FetchAhead
<1> QED
  BY <1>0, <1>1, <1>2, <1>3, <1>4, QuietEdge, IsaOperators DEF ISA!Mret

LEMMA IssueJalImplements ==
  ASSUME RInv, Disciplined, IssueJal
  PROVE  ISA!Jump
<1>1. Between /\ AtSlot /\ Datapath /\ Decode(Fetched).op = "JAL" /\ I' = Decode(Fetched)
  BY DEF IssueJal, Issue, Running, AtSlot, Between, Edge, I
<1>2. /\ ISA!Inst_ = I'
      /\ ~after_reset => PcAbs = Plus(PC, -4) /\ Plus(PcAbs, 4) = PC
      /\ after_reset => PcAbs = pc_latch_1 /\ I'.rd = 0
  BY <1>1, SlotState, EntryIsJump DEF RInv
<1>3. Drives' /\ stage_cnt_latch' = 0 /\ pc_latch_1' = PC /\ stage_cnt' = 0
  BY <1>1 DEF IssueJal, Issue, Running, Proceed, Sequence, Drives, Datapath
<1>4. /\ PC' = Plus(IF after_reset THEN pc_latch_1 ELSE Plus(PC, -4), I'.imm) /\ skip_execution'
      /\ RIP' = StoredRIP(RIP) /\ reg_mstatus' = StoredMstatus(reg_mstatus)
      /\ reg_mcause' = reg_mcause
  BY <1>1 DEF IssueJal, Issue, Running, Proceed, Sequence
<1>5. PcAbs' = Plus(PcAbs, I'.imm)
  BY <1>2, <1>4 DEF PcAbs, FetchAhead
<1>6. /\ RegsAbs = [r \in Regs |-> X(REG', r)] /\ mem' = MemAbs
      /\ RipAbs = RIP /\ MstatusAbs = reg_mstatus
      /\ RIP' = RIP /\ reg_mstatus' = reg_mstatus
  BY <1>1, <1>4, BetweenState DEF RInv
<1>7. Retiring' /\ ~StoreInFlight'
  BY <1>1, <1>3 DEF Retiring, rdw, StoreInFlight, data_wr
<1>8. MemAbs' = MemAbs /\ RipAbs' = RipAbs /\ MstatusAbs' = MstatusAbs
  BY <1>6, <1>7 DEF MemAbs, RipAbs, MstatusAbs
<1>9. ISA!WriteReg(I'.rd, Plus(PcAbs, 4))
  <2>1. ISA!WriteReg(I'.rd, rd')
    BY <1>6, <1>7, RetireNext
  <2>2. rd' = PC
    BY <1>1, <1>3 DEF rd
  <2>3. CASE after_reset
    <3>1. I'.rd = 0
      BY <1>2, <2>3
    <3> QED BY <2>1, <3>1 DEF ISA!WriteReg
  <2>4. CASE ~after_reset
    BY <1>2, <2>1, <2>2, <2>4
  <2> QED BY <2>3, <2>4
<1> QED
  BY <1>1, <1>2, <1>4, <1>5, <1>8, <1>9, IsaOperators DEF ISA!Jump

LEMMA IssueHoldImplements ==
  ASSUME RInv, Disciplined, IssueHold
  PROVE  UNCHANGED ISA!vars
<1>0. Next
  BY DEF Next
<1>1. \E ops : "JAL" \notin ops /\ Issue(ops)
  BY DEF IssueHold
<1>2. Between /\ ~after_reset /\ I' = Decode(Fetched) /\ PcAbs = Plus(PC, -4)
  BY <1>1, IssueState
<1>3. /\ stage_cnt' = 1 /\ PC' = PC /\ FetchAhead'
      /\ RIP' = StoredRIP(RIP) /\ reg_mstatus' = StoredMstatus(reg_mstatus)
      /\ reg_mcause' = reg_mcause
  BY DEF IssueHold, Issue, Running, Proceed, Sequence, FetchAhead
<1>4. ~Retiring' /\ ~StoreInFlight'
  BY <1>2, <1>3 DEF IssueHold, Issue, Retiring, StoreInFlight, data_wr
<1>5. PcAbs' = PcAbs
  BY <1>2, <1>3 DEF PcAbs
<1> QED BY <1>0, <1>2, <1>3, <1>4, <1>5, QuietEdge DEF ISA!vars

(* An edge that completes a held instruction. *)
LEMMA ContinueState ==
  ASSUME RInv, Unstale, Disciplined, Next, ~rst_i, stage_cnt = 1, ~enter_interrupt, I' = I,
         ~enter_interrupt', reg_mstatus' = StoredMstatus(reg_mstatus), RIP' = StoredRIP(RIP)
  PROVE  /\ RegsAbs = [r \in Regs |-> X(REG, r)] /\ I \in Inst
         /\ MemAbs = mem /\ RipAbs = RIP /\ MstatusAbs = reg_mstatus
         /\ PcAbs = Plus(PC, -4) /\ Plus(PcAbs, 4) = PC /\ pc_latch_1 = PC
         /\ ISA!Inst_ = I /\ Drives /\ Drives' /\ stage_cnt_latch = 0 /\ stage_cnt_latch' = 1
         /\ I.op # "STORE" => RIP' = RIP /\ reg_mstatus' = reg_mstatus /\ mem' = mem
<1>1. ~skip_execution /\ Drives
  BY HeldState
<1>2. Drives' /\ stage_cnt_latch' = 1
  BY <1>1, LatchesMove DEF Drives
<1>3. I.op # "STORE" => RIP' = RIP /\ reg_mstatus' = reg_mstatus /\ mem' = mem
  BY EveryStepIsAnEdge DEF Edge, Datapath, data_wr, StoredRIP, StoredMstatus, SysStore
<1>4. I \in Inst
  BY LatchType DEF RInv, IInv
<1> QED BY <1>2, <1>3, <1>4, HeldState

LEMMA JalrImplements ==
  ASSUME RInv, Unstale, Disciplined, JalrJump
  PROVE  ISA!Jump
<1>0. Next
  BY DEF Next
<1>1. /\ ~rst_i /\ stage_cnt = 1 /\ ~skip_execution /\ I.op = "JALR" /\ I' = I /\ ~enter_interrupt'
      /\ reg_mstatus' = StoredMstatus(reg_mstatus) /\ RIP' = StoredRIP(RIP)
      /\ reg_mcause' = reg_mcause
      /\ PC' = JalrTarget(REG, I) /\ skip_execution' /\ Datapath
  BY DEF JalrJump, Continue, Running, Proceed, Sequence, I, Edge
<1>2. ~enter_interrupt
  BY <1>1 DEF RInv, IInv, PipelineShape
<1>3. /\ RegsAbs = [r \in Regs |-> X(REG, r)] /\ I \in Inst
      /\ MemAbs = mem /\ RipAbs = RIP /\ MstatusAbs = reg_mstatus
      /\ Plus(PcAbs, 4) = PC /\ pc_latch_1 = PC
      /\ ISA!Inst_ = I /\ Drives /\ stage_cnt_latch = 0 /\ stage_cnt_latch' = 1
      /\ RIP' = RIP /\ reg_mstatus' = reg_mstatus /\ mem' = mem
  BY <1>0, <1>1, <1>2, ContinueState
<1>4. ~Retiring' /\ ~StoreInFlight'
  BY <1>1, <1>3 DEF Retiring, rdw, StoreInFlight, data_wr
<1>5. ISA!WriteReg(I.rd, Plus(PcAbs, 4))
  <2>1. REG' = [REG EXCEPT ![I.rd] = PC] /\ REG \in [Regs -> Word]
    BY <1>1, <1>3 DEF Datapath, rdw, rd, RInv, IInv, TypeOK
  <2>2. RegsAbs' = [r \in Regs |-> X(REG', r)]
    BY <1>4, QuietNext
  <2> QED BY <1>3, <2>1, <2>2 DEF X, ISA!WriteReg
<1>6. PcAbs' = JalrTarget(RegsAbs, I)
  BY <1>1, <1>3, Operands DEF PcAbs, FetchAhead
<1>7. MemAbs' = MemAbs /\ RipAbs' = RipAbs /\ MstatusAbs' = MstatusAbs
  BY <1>3, <1>4, QuietNext
<1> QED
  BY <1>1, <1>3, <1>5, <1>6, <1>7, IsaOperators DEF ISA!Jump

LEMMA BranchImplements ==
  ASSUME RInv, Unstale, Disciplined, ResolveBranch
  PROVE  ISA!Branch
<1>0. Next
  BY DEF Next
<1>1. /\ ~rst_i /\ stage_cnt = 1 /\ ~skip_execution /\ I.op = "BRANCH" /\ I' = I
      /\ ~enter_interrupt' /\ ~after_reset'
      /\ reg_mstatus' = StoredMstatus(reg_mstatus) /\ RIP' = StoredRIP(RIP)
      /\ reg_mcause' = reg_mcause /\ Datapath
      /\ IF Taken(REG, I) THEN PC' = Plus(Plus(PC, -4), I.imm) /\ skip_execution'
                          ELSE PC' = Plus(PC, 4) /\ stage_cnt' = 0 /\ ~skip_execution'
  BY DEF ResolveBranch, Continue, Running, Proceed, Sequence, I, Edge
<1>2. ~enter_interrupt
  BY <1>1 DEF RInv, IInv, PipelineShape
<1>3. /\ RegsAbs = [r \in Regs |-> X(REG, r)] /\ I \in Inst
      /\ MemAbs = mem /\ RipAbs = RIP /\ MstatusAbs = reg_mstatus
      /\ PcAbs = Plus(PC, -4) /\ Plus(PcAbs, 4) = PC
      /\ ISA!Inst_ = I
      /\ RIP' = RIP /\ reg_mstatus' = reg_mstatus /\ mem' = mem
  BY <1>0, <1>1, <1>2, ContinueState
<1>4. ~Retiring' /\ ~StoreInFlight' /\ ~rdw
  BY <1>1 DEF Retiring, rdw, StoreInFlight, data_wr
<1>5. RegsAbs' = RegsAbs
  BY <1>1, <1>3, <1>4, QuietNext DEF Datapath
<1>6. MemAbs' = MemAbs /\ RipAbs' = RipAbs /\ MstatusAbs' = MstatusAbs
  BY <1>3, <1>4, QuietNext
<1>7. PcAbs' = IF Taken(RegsAbs, I) THEN Plus(PcAbs, I.imm) ELSE Plus(PcAbs, 4)
  <2>1. Taken(RegsAbs, I) <=> Taken(REG, I)
    BY <1>3, Operands
  <2>2. PC \in Addr
    BY DEF RInv, IInv, TypeOK
  <2>3. CASE Taken(REG, I)
    BY <1>1, <1>3, <2>1, <2>3 DEF PcAbs, FetchAhead
  <2>4. CASE ~Taken(REG, I)
    <3>1. PcAbs' = Plus(Plus(PC, 4), -4)
      BY <1>1, <2>4 DEF PcAbs, FetchAhead
    <3> QED BY <1>3, <2>1, <2>2, <2>4, <3>1, PlusMinus4
  <2> QED BY <2>3, <2>4
<1> QED
  BY <1>1, <1>3, <1>5, <1>6, <1>7, IsaOperators DEF ISA!Branch

(* With one bus a load or store completes when it takes the bus, with two  *)
(* a load does so one cycle after it was issued.                           *)
LEMMA AccessState ==
  ASSUME RInv, Unstale, Disciplined, AccessMemory \/ Advance, stage_cnt = 1, ~enter_interrupt
  PROVE  /\ ~rst_i /\ I.op \in {"LOAD", "STORE"} /\ I' = I
         /\ ~enter_interrupt' /\ stage_cnt' # 1 /\ (SINGLE_BUS => AccessMemory)
         /\ reg_mstatus' = StoredMstatus(reg_mstatus) /\ RIP' = StoredRIP(RIP)
         /\ reg_mcause' = reg_mcause /\ Datapath /\ PcAbs' = PC
         /\ data_addr_o = EffAddr(REG, I) /\ (I.op = "STORE" => SINGLE_BUS)
<1>1. /\ I.op \in {"LOAD", "STORE", "JALR", "BRANCH"} /\ ~skip_execution /\ Drives
      /\ I.op = "STORE" => SINGLE_BUS
  BY HeldState DEF RInv, IInv, PipelineShape
<1>2. PC \in Addr
  BY DEF RInv, IInv, TypeOK
<1>3. I.op \in {"LOAD", "STORE"} /\ (SINGLE_BUS => AccessMemory)
  BY <1>1 DEF AccessMemory, Advance, Continue
<1>4. data_addr_o = EffAddr(REG, I)
  BY <1>1, <1>3 DEF data_addr_o, DrivesDataAddr, StorePhase
<1>5. CASE AccessMemory
  BY <1>1, <1>3, <1>4, <1>5 DEF AccessMemory, Continue, Running, Proceed, Sequence, I, Edge, PcAbs, FetchAhead
<1>6. CASE Advance
  <2>1. PcAbs' = Plus(Plus(PC, 4), -4)
    BY <1>6 DEF Advance, Running, Proceed, Sequence, PcAbs, FetchAhead
  <2>2. PcAbs' = PC
    BY <1>2, <2>1, PlusMinus4
  <2> QED BY <1>1, <1>3, <1>4, <1>6, <2>2 DEF Advance, Running, Proceed, Sequence, I, Edge
<1> QED BY <1>5, <1>6

(* What a load returns: the register named, or the word on the bus. *)
LEMMA LoadReturns ==
  ASSUME TypeOK, ~rst_i, I' = I, I.op = "LOAD", stage_cnt_latch = 0, Drives, Datapath,
         data_addr_o = EffAddr(REG, I)
  PROVE  rd' \in (IF IsSysAddr(EffAddr(REG, I)) /\ I.f = "LW"
                    THEN CASE WordOf(EffAddr(REG, I)) = REG_MSTATUS -> {reg_mstatus}
                           [] WordOf(EffAddr(REG, I)) = REG_RIP     -> {RIP}
                           [] WordOf(EffAddr(REG, I)) = REG_MCAUSE  -> {reg_mcause}
                           [] OTHER -> {Narrow("LW", w) : w \in Word}
                    ELSE {Narrow(I.f, mem[WordOf(EffAddr(REG, I))])})
<1>1. rd' = Narrow(I.f, IF sysreg_rd' THEN data_sysreg_int' ELSE data_i')
  BY DEF rd
<1>2. sysreg_rd' <=> IsSysAddr(EffAddr(REG, I)) /\ I.f = "LW"
  BY DEF Datapath, data_rd_w
<1>3. CASE sysreg_rd'
  <2>1. data_sysreg_int' = SysRegRead /\ I.f = "LW"
    BY <1>2, <1>3 DEF Datapath, data_rd_w
  <2>2. /\ reg_mstatus \in Word /\ reg_mcause \in Word /\ RIP \in Word /\ data_i \in Word
    BY SizesPositive DEF TypeOK
  <2>3. rd' = SysRegRead
    BY <1>1, <1>3, <2>1, SysRegReadType, OperatorsAssumption
  <2>4. SysRegRead = CASE WordOf(EffAddr(REG, I)) = REG_MSTATUS -> reg_mstatus
                       [] WordOf(EffAddr(REG, I)) = REG_RIP     -> RIP
                       [] WordOf(EffAddr(REG, I)) = REG_MCAUSE  -> reg_mcause
                       [] OTHER                                 -> data_i
    BY DEF SysRegRead
  <2>5. data_i \in {Narrow("LW", w) : w \in Word}
    BY <2>2, OperatorsAssumption
  <2> QED BY <1>2, <1>3, <2>3, <2>4, <2>5
<1>4. CASE ~sysreg_rd'
  <2>1. data_i' = mem[WordOf(EffAddr(REG, I))]
    BY DEF Datapath
  <2> QED BY <1>1, <1>2, <1>4, <2>1
<1> QED BY <1>3, <1>4

LEMMA LoadImplements ==
  ASSUME RInv, Unstale, Disciplined, AccessMemory \/ Advance, stage_cnt = 1, ~enter_interrupt, I.op = "LOAD"
  PROVE  ISA!Load
<1>0. Next /\ TypeOK
  BY DEF Next, RInv, IInv
<1>1. /\ ~rst_i /\ I' = I /\ ~enter_interrupt' /\ stage_cnt' # 1
      /\ reg_mstatus' = StoredMstatus(reg_mstatus) /\ RIP' = StoredRIP(RIP)
      /\ reg_mcause' = reg_mcause /\ Datapath /\ PcAbs' = PC
      /\ data_addr_o = EffAddr(REG, I)
  BY AccessState
<1>2. /\ RegsAbs = [r \in Regs |-> X(REG, r)] /\ I \in Inst
      /\ MemAbs = mem /\ RipAbs = RIP /\ MstatusAbs = reg_mstatus
      /\ Plus(PcAbs, 4) = PC /\ ISA!Inst_ = I
      /\ Drives /\ Drives' /\ stage_cnt_latch = 0 /\ stage_cnt_latch' = 1
      /\ RIP' = RIP /\ reg_mstatus' = reg_mstatus /\ mem' = mem
  BY <1>0, <1>1, ContinueState
<1>3. Retiring' /\ ~StoreInFlight' /\ ~rdw
  BY <1>1, <1>2 DEF Retiring, rdw, StoreInFlight, data_wr
<1>4. ISA!WriteReg(I.rd, rd')
  <2>1. REG' = REG
    BY <1>1, <1>3 DEF Datapath
  <2> QED BY <1>1, <1>2, <1>3, <2>1, RetireNext
<1>5. MemAbs' = MemAbs /\ RipAbs' = RipAbs /\ MstatusAbs' = MstatusAbs
  BY <1>2, <1>3 DEF MemAbs, RipAbs, MstatusAbs
<1>6. rd' \in ISA!LoadValues(EffAddr(RegsAbs, I))
  <2>1. EffAddr(RegsAbs, I) = EffAddr(REG, I)
    BY <1>2, Operands
  <2> QED BY <1>0, <1>1, <1>2, <2>1, LoadReturns, IsaOperators DEF ISA!LoadValues
<1> QED
  BY <1>1, <1>2, <1>4, <1>5, <1>6, IsaOperators DEF ISA!Load

LEMMA StoreImplements ==
  ASSUME RInv, Unstale, Disciplined, AccessMemory \/ Advance, stage_cnt = 1, ~enter_interrupt, I.op = "STORE"
  PROVE  ISA!Store
<1>0. Next
  BY DEF Next
<1>1. /\ ~rst_i /\ I' = I /\ ~enter_interrupt' /\ stage_cnt' # 1 /\ SINGLE_BUS
      /\ reg_mstatus' = StoredMstatus(reg_mstatus) /\ RIP' = StoredRIP(RIP)
      /\ reg_mcause' = reg_mcause /\ Datapath /\ PcAbs' = PC
      /\ data_addr_o = EffAddr(REG, I)
  BY AccessState
<1>2. /\ RegsAbs = [r \in Regs |-> X(REG, r)] /\ I \in Inst
      /\ MemAbs = mem /\ RipAbs = RIP /\ MstatusAbs = reg_mstatus
      /\ Plus(PcAbs, 4) = PC /\ ISA!Inst_ = I /\ Drives
  BY <1>0, <1>1, ContinueState
<1>3. ~Retiring' /\ ~StoreInFlight' /\ ~rdw /\ data_wr
  BY <1>1, <1>2 DEF Retiring, rdw, StoreInFlight, data_wr
<1>4. RegsAbs' = RegsAbs /\ MemAbs' = mem' /\ RipAbs' = RIP' /\ MstatusAbs' = reg_mstatus'
  BY <1>1, <1>2, <1>3, QuietNext DEF Datapath
<1>5. rs2 = X(RegsAbs, I.rs2) /\ data_addr_o = EffAddr(RegsAbs, I)
  BY <1>1, <1>2, Operands DEF Inst, rs2
<1>6. mem' = StoreAt(mem, EffAddr(RegsAbs, I), I.f, X(RegsAbs, I.rs2))
  BY <1>1, <1>3, <1>5 DEF Datapath
<1>7. /\ RIP' = IF I.f = "SW" /\ EffAddr(RegsAbs, I) = REG_RIP
                  THEN X(RegsAbs, I.rs2) % AddrSize ELSE RIP
      /\ reg_mstatus' = IF I.f = "SW" /\ EffAddr(RegsAbs, I) = REG_MSTATUS
                          THEN X(RegsAbs, I.rs2) % 256 ELSE reg_mstatus
  BY <1>1, <1>3, <1>5 DEF StoredRIP, StoredMstatus, SysStore
<1> QED
  BY <1>1, <1>2, <1>4, <1>6, <1>7, IsaOperators DEF ISA!Store

(* Behind an interrupt entry or a memory access there is nothing to do. *)
LEMMA AdvanceImplements ==
  ASSUME RInv, Disciplined, Advance, Between
  PROVE  UNCHANGED ISA!vars
<1>0. Next
  BY DEF Next
<1>1. /\ PC \in Addr /\ stage_cnt \in 0 .. 2
      /\ enter_interrupt => skip_execution
      /\ stage_cnt = 2 => SINGLE_BUS /\ I.op \in {"LOAD", "STORE"}
  BY DEF RInv, IInv, TypeOK, PipelineShape
<1>2. /\ stage_cnt # 0 /\ I' = I /\ stage_cnt' = 0 /\ ~skip_execution' /\ ~after_reset'
      /\ PC' = Plus(PC, 4) /\ reg_mcause' = reg_mcause
      /\ reg_mstatus' = StoredMstatus(reg_mstatus) /\ RIP' = StoredRIP(RIP)
      /\ skip_execution_latch' = skip_execution /\ stage_cnt_latch' = stage_cnt
  BY <1>0, LatchesMove DEF Advance, Running, Proceed, Sequence, I
<1>3. PcAbs' = Plus(Plus(PC, 4), -4) /\ PcAbs = PC
  BY <1>1, <1>2 DEF PcAbs, FetchAhead, Between
<1>4. ~Retiring' /\ ~StoreInFlight'
  <2>1. CASE enter_interrupt
    BY <1>1, <1>2, <2>1 DEF Retiring, rdw, StoreInFlight, data_wr, Drives
  <2>2. CASE stage_cnt = 2
    BY <1>1, <1>2, <2>2 DEF Retiring, rdw, StoreInFlight, data_wr
  <2> QED BY <1>1, <1>2, <2>1, <2>2 DEF Between
<1> QED BY <1>0, <1>1, <1>2, <1>3, <1>4, QuietEdge, PlusMinus4 DEF ISA!vars

(* A reset may cut a held instruction short at its last edge. *)
LEMMA ResetImplements ==
  ASSUME RInv, Unstale, Disciplined, ResetEdge
  PROVE  ISA!Reset
<1>0. Next /\ Datapath
  BY DEF Next, ResetEdge, Edge
<1>1. I'.op = "NOP"
  BY OperatorsAssumption DEF ResetEdge, I
<1>2. ~Retiring' /\ ~StoreInFlight'
  BY <1>1 DEF Retiring, rdw, StoreInFlight, data_wr
<1>3. /\ PcAbs' = RESET_VECTOR /\ reg_mstatus' = SetMIE(reg_mstatus)
      /\ RIP' = RIP /\ reg_mcause' = reg_mcause
  BY DEF ResetEdge, Sequence, PcAbs, FetchAhead
<1>4. /\ RegsAbs' = [r \in Regs |-> X(REG', r)] /\ MemAbs' = mem'
      /\ RipAbs' = RIP /\ MstatusAbs' = SetMIE(reg_mstatus)
  BY <1>2, <1>3, QuietNext
<1>5. CASE Between
  <2>1. /\ RegsAbs' = RegsAbs /\ MemAbs' = MemAbs /\ RipAbs = RIP /\ MstatusAbs = reg_mstatus
    BY <1>0, <1>2, <1>5, QuietEdge
  <2> QED
    BY <1>3, <1>4, <2>1, IsaOperators DEF ISA!Reset
<1>6. CASE ~Between
  <2>1. stage_cnt = 1 /\ ~enter_interrupt
    BY <1>6 DEF Between
  <2>2. /\ RegsAbs = [r \in Regs |-> X(REG, r)] /\ I \in Inst
        /\ MemAbs = mem /\ RipAbs = RIP /\ MstatusAbs = reg_mstatus
        /\ Plus(PcAbs, 4) = PC /\ pc_latch_1 = PC /\ ISA!Inst_ = I
        /\ Drives /\ stage_cnt_latch = 0 /\ I.op \in {"LOAD", "STORE", "JALR", "BRANCH"}
        /\ I.op = "STORE" => SINGLE_BUS
    BY <2>1, HeldState, LatchType DEF RInv, IInv, PipelineShape
  <2>3. CASE I.op = "STORE"
    <3>1. data_wr /\ data_addr_o = EffAddr(REG, I) /\ ~rdw
      BY <2>1, <2>2, <2>3 DEF data_wr, data_addr_o, DrivesDataAddr, StorePhase, rdw
    <3>2. rs2 = X(RegsAbs, I.rs2) /\ data_addr_o = EffAddr(RegsAbs, I)
      BY <2>2, <3>1, Operands DEF Inst, rs2
    <3>3. mem' = StoreAt(mem, EffAddr(RegsAbs, I), I.f, X(RegsAbs, I.rs2)) /\ REG' = REG
      BY <1>0, <3>1, <3>2 DEF Datapath
    <3> QED
      BY <1>3, <1>4, <2>2, <2>3, <3>3, IsaOperators DEF ISA!Reset
  <2>4. CASE I.op = "JALR"
    <3>1. REG' = [REG EXCEPT ![I.rd] = PC] /\ REG \in [Regs -> Word] /\ mem' = mem
      BY <1>0, <2>2, <2>4 DEF Datapath, rdw, rd, data_wr, RInv, IInv, TypeOK
    <3>2. ISA!WriteReg(I.rd, Plus(PcAbs, 4))
      BY <1>4, <2>2, <3>1 DEF X, ISA!WriteReg
    <3> QED
      BY <1>3, <1>4, <2>2, <2>4, <3>1, <3>2, IsaOperators DEF ISA!Reset
  <2>5. CASE I.op \in {"LOAD", "BRANCH"}
    <3>1. REG' = REG /\ mem' = mem
      BY <1>0, <2>2, <2>5 DEF Datapath, rdw, data_wr
    <3> QED
      BY <1>3, <1>4, <2>2, <3>1, IsaOperators DEF ISA!Reset
  <2> QED BY <2>2, <2>3, <2>4, <2>5
<1> QED BY <1>5, <1>6

(* Every edge that is none of reset, interrupt entry and mret executes     *)
(* another instruction, or nothing.                                        *)
LEMMA WorkImplements ==
  ASSUME RInv, Unstale, Disciplined,
         \/ Skip \/ IssueSimple \/ IssueJal \/ IssueHold
         \/ JalrJump \/ ResolveBranch \/ AccessMemory \/ Advance
  PROVE  Ordinary \/ UNCHANGED ISA!vars \/ (VECTOR_INT_TABLE_SIZE = 0 /\ ISA!Mret)
<1>1. CASE AccessMemory \/ Advance
  <2>1. CASE Between
    <3>1. ~AccessMemory
      BY <2>1 DEF AccessMemory, Continue, Between, RInv, IInv, PipelineShape
    <3> QED BY <1>1, <2>1, <3>1, AdvanceImplements
  <2>2. CASE ~Between
    <3>1. stage_cnt = 1 /\ ~enter_interrupt
      BY <2>2 DEF Between
    <3>2. ISA!Load \/ ISA!Store
      BY <1>1, <3>1, AccessState, LoadImplements, StoreImplements
    <3> QED BY <3>2 DEF Ordinary
  <2> QED BY <2>1, <2>2
<1>2. CASE IssueJal \/ JalrJump \/ ResolveBranch
  BY <1>2, IssueJalImplements, JalrImplements, BranchImplements DEF Ordinary
<1> QED BY <1>1, <1>2, SkipImplements, IssueSimpleImplements, IssueHoldImplements

LEMMA NothingImplements == UNCHANGED vars => UNCHANGED ISA!vars
  BY DEF vars, env, control, sysregs, datapath, ISA!vars, PcAbs, FetchAhead, RegsAbs,
         Retiring, rdw, rd, Drives, I, rs1, rs2, MemAbs, RipAbs, MstatusAbs, StoreInFlight,
         StoredRIP, StoredMstatus, SysStore, data_wr, data_addr_o, DrivesDataAddr

LEMMA NextImplements ==
  ASSUME RInv, Unstale, Disciplined, [Next]_vars
  PROVE  [ISA!Next]_(ISA!vars)
<1>1. CASE UNCHANGED vars
  BY <1>1, NothingImplements
<1>2. CASE ResetEdge
  BY <1>2, ResetImplements DEF ISA!Next
<1>3. CASE EnterInterrupt
  BY <1>3, EnterImplements, IsaOperators DEF ISA!Next
<1>4. CASE IssueMret
  BY <1>4, IssueMretImplements DEF ISA!Next, ISA!Execute
<1>5. CASE \/ Skip \/ IssueSimple \/ IssueJal \/ IssueHold
           \/ JalrJump \/ ResolveBranch \/ AccessMemory \/ Advance
  BY <1>5, WorkImplements DEF Ordinary, ISA!Next, ISA!Execute
<1> QED BY <1>1, <1>2, <1>3, <1>4, <1>5 DEF Next

LEMMA InitImplements == Init => ISA!Init
<1> SUFFICES ASSUME Init PROVE ISA!Init
  OBVIOUS
<1>1. I.op = "NOP"
  BY OperatorsAssumption DEF Init, I
<1>2. ~Retiring /\ ~StoreInFlight
  BY <1>1 DEF Retiring, rdw, StoreInFlight, data_wr
<1>3. PcAbs = RESET_VECTOR
  BY DEF Init, PcAbs, FetchAhead
<1>4. /\ RegsAbs = [r \in Regs |-> 0] /\ MemAbs = mem /\ RipAbs = RIP /\ MstatusAbs = reg_mstatus
  BY <1>2, NothingInFlight DEF Init, X
<1> QED BY <1>3, <1>4 DEF Init, ISA!Init, ISA!MIE_bit, MIE_bit

-----------------------------------------------------------------------------
(***************************************************************************)
(* Two buses: what Disciplined needs to be inductive.  The word fetched is *)
(* the word of memory, and the store in flight leaves the two words that   *)
(* are on their way to the latch, and the system registers that take       *)
(* effect at once, as they are.                                            *)
(***************************************************************************)
Fresh ==
  ~SINGLE_BUS =>
    /\ stage_cnt = 0 /\ ~skip_execution /\ (after_reset => ~rst_i) => Fetched = mem[WordOf(PcAbs)]
    /\ data_wr => /\ FetchAhead
                  /\ MemAbs[WordOf(PC)] = mem[WordOf(PC)]
                  /\ MemAbs[WordOf(PcAbs)] = mem[WordOf(PcAbs)]
                  /\ ~SysStore(REG_MSTATUS) /\ ~SysStore(REG_RIP)

LEMMA FreshDisciplined == Fresh => Disciplined
<1> SUFFICES ASSUME Fresh, ~SINGLE_BUS
             PROVE  /\ AtSlot => Fetched = MemAbs[WordOf(PcAbs)]
                    /\ ~SysStore(REG_MSTATUS) /\ ~SysStore(REG_RIP)
  BY DEF Disciplined
<1>1. CASE data_wr
  BY <1>1 DEF Fresh, AtSlot
<1>2. CASE ~data_wr
  <2>1. MemAbs = mem
    BY <1>2 DEF MemAbs, StoreInFlight
  <2> QED BY <1>2, <2>1 DEF Fresh, AtSlot, SysStore
<1> QED BY <1>1, <1>2

(* With two buses every store is launched by the edge that latches it. *)
LEMMA StoreLaunched ==
  ASSUME IInv, Next, ~SINGLE_BUS, data_wr'
  PROVE  IssueSimple /\ I'.op = "STORE"
<1>1. I'.op = "STORE" /\ ~enter_interrupt' /\ ~skip_execution_latch'
  BY DEF data_wr, Drives
<1>2. skip_execution_latch' = skip_execution
  BY LatchesMove
<1>3. ~ResetEdge
  BY <1>1, OperatorsAssumption DEF ResetEdge, I
<1>4. ~EnterInterrupt /\ ~Skip
  BY <1>1, <1>2 DEF EnterInterrupt, Skip
<1>5. ~IssueMret /\ ~IssueJal /\ ~IssueHold
  BY <1>1 DEF IssueMret, IssueJal, IssueHold, Issue, I
<1>6. ~JalrJump /\ ~ResolveBranch /\ ~AccessMemory
  BY <1>1 DEF JalrJump, ResolveBranch, AccessMemory, Continue, I
<1>7. ~Advance
  <2> SUFFICES ASSUME Advance PROVE FALSE
    OBVIOUS
  <2>1. stage_cnt # 0 /\ I' = I
    BY DEF Advance, I
  <2>2. stage_cnt \in 0 .. 2
    BY DEF IInv, TypeOK
  <2> QED BY <1>1, <1>2, <2>1, <2>2 DEF IInv, PipelineShape
<1> QED BY <1>1, <1>3, <1>4, <1>5, <1>6, <1>7 DEF Next

LEMMA PlusTwice == \A a \in Addr : Plus(Plus(a, 4), 4) = Plus(a, 8)
  BY SizesAssumption DEF Plus, Addr

(* The store that a harmless program launches is harmless in flight. *)
LEMMA LaunchedHarmless ==
  ASSUME RInv, Disciplined, Next, ~SINGLE_BUS, data_wr', ISA!StoreHarmless
  PROVE  /\ FetchAhead'
         /\ MemAbs'[WordOf(PC')] = mem'[WordOf(PC')]
         /\ MemAbs'[WordOf(PcAbs')] = mem'[WordOf(PcAbs')]
         /\ ~SysStore(REG_MSTATUS)' /\ ~SysStore(REG_RIP)'
<1>1. IssueSimple /\ I'.op = "STORE"
  BY StoreLaunched DEF RInv
<1>2. \E ops : "JAL" \notin ops /\ Issue(ops)
  BY <1>1 DEF IssueSimple
<1>3. /\ Between /\ Datapath /\ ISA!Inst_ = I' /\ I' \in Inst
      /\ PcAbs = Plus(PC, -4) /\ Plus(PcAbs, 4) = PC /\ Drives'
  BY <1>2, IssueState
<1>4. stage_cnt' = 0 /\ PC' = Plus(PC, 4) /\ FetchAhead'
  BY <1>1 DEF IssueSimple, Issue, Running, Proceed, Sequence, FetchAhead
<1>5. PC \in Addr /\ PcAbs \in Addr
  BY <1>3, PlusType DEF RInv, IInv, TypeOK, Addr
<1>6. PcAbs' = Plus(PcAbs, 4) /\ PC' = Plus(PcAbs, 8)
  BY <1>3, <1>4, <1>5, PlusMinus4, PlusTwice DEF PcAbs
<1>7. RegsAbs = [r \in Regs |-> X(REG', r)] /\ mem' = MemAbs
  BY <1>3, BetweenState DEF RInv
<1>8. rs2' = X(RegsAbs, I'.rs2) /\ EffAddr(REG', I') = EffAddr(RegsAbs, I')
  BY <1>3, <1>7, Operands DEF Inst, rs2
<1>9. data_addr_o' = EffAddr(RegsAbs, I')
  BY <1>1, <1>3, <1>4, <1>8 DEF data_addr_o, DrivesDataAddr, StorePhase
<1>10. MemAbs' = StoreAt(MemAbs, EffAddr(RegsAbs, I'), I'.f, X(RegsAbs, I'.rs2))
  BY <1>7, <1>8, <1>9 DEF MemAbs, StoreInFlight
<1>11. /\ \A d \in {4, 8} : MemAbs'[WordOf(Plus(PcAbs, d))] = MemAbs[WordOf(Plus(PcAbs, d))]
       /\ I'.f = "SW" => EffAddr(RegsAbs, I') \notin {REG_MSTATUS, REG_RIP}
  BY <1>1, <1>3, <1>10, IsaOperators DEF ISA!StoreHarmless
<1>12. ~SysStore(REG_MSTATUS)' /\ ~SysStore(REG_RIP)'
  BY <1>9, <1>11 DEF SysStore
<1> QED BY <1>4, <1>6, <1>7, <1>11, <1>12

LEMMA FreshStep ==
  ASSUME RInv, Fresh, ISA!StoreHarmless, Next
  PROVE  Fresh'
<1> SUFFICES ASSUME ~SINGLE_BUS PROVE Fresh'
  BY DEF Fresh
<1>1. Disciplined /\ TypeOK /\ PipelineShape /\ Datapath
  BY FreshDisciplined, EveryStepIsAnEdge DEF RInv, IInv, Edge
<1>2. Fetched' = mem'[WordOf(PC)]
  <2>1. Fetched' = mem[WordOf(PC)]
    BY <1>1 DEF Datapath, Fetched
  <2>2. CASE data_wr
    BY <1>1, <2>1, <2>2 DEF Datapath, MemAbs, StoreInFlight, Fresh
  <2>3. CASE ~data_wr
    BY <1>1, <2>1, <2>3 DEF Datapath
  <2> QED BY <2>2, <2>3
<1>3. ASSUME stage_cnt' = 0, ~skip_execution', after_reset' => ~rst_i'
      PROVE  Fetched' = mem'[WordOf(PcAbs')]
  <2>1. CASE ResetEdge
    <3>1. PcAbs' = RESET_VECTOR
      BY <2>1 DEF ResetEdge, Sequence, PcAbs, FetchAhead
    <3>2. Fetches(PcAbs)'
      BY <1>3, InvStep DEF RInv, IInv, FetchAligned
    <3> QED BY <3>1, <3>2, EntryAssumption DEF Fetches
  <2>2. CASE Skip \/ IssueSimple \/ Advance \/ (ResolveBranch /\ ~Taken(REG, I))
    <3>1. PcAbs' = Plus(Plus(PC, 4), -4)
      BY <1>1, <2>2, SlotNext DEF PcAbs, FetchAhead
    <3>2. PcAbs' = PC
      BY <1>1, <3>1, PlusMinus4 DEF TypeOK
    <3> QED BY <1>2, <3>2
  <2> QED BY <1>3, <2>1, <2>2, NoSlotNext DEF Next
<1> QED BY <1>1, <1>3, LaunchedHarmless DEF Fresh

LEMMA FreshInit == Init => Fresh
<1> SUFFICES ASSUME Init PROVE Fresh
  OBVIOUS
<1>1. I.op = "NOP"
  BY OperatorsAssumption DEF Init, I
<1> QED BY <1>1 DEF Init, Fresh, data_wr

LEMMA FreshNext ==
  ASSUME RInv, Fresh, ISA!StoreHarmless, [Next]_vars
  PROVE  Fresh'
<1>1. CASE UNCHANGED vars
  BY <1>1 DEF vars, env, control, sysregs, datapath, Fresh, Fetched, PcAbs, FetchAhead, MemAbs,
              StoreInFlight, SysStore, data_wr, Drives, I, rs2, rs1, data_addr_o, DrivesDataAddr
<1> QED BY <1>1, FreshStep

LEMMA UnstaleInit == Init => Unstale
  BY DEF Init, Unstale

LEMMA UnstaleNext ==
  ASSUME RInv, Disciplined, [Next]_vars, Unstale
  PROVE  Unstale'
<1>1. CASE UNCHANGED vars
  BY <1>1 DEF vars, env, control, sysregs, datapath, Unstale, PcAbs, FetchAhead
<1> QED BY <1>1, UnstaleStep

-----------------------------------------------------------------------------
(***************************************************************************)
(* The pipeline is invisible to a disciplined program: whatever the        *)
(* interrupts and the resets, every edge of the core is one instruction,   *)
(* one interrupt entry, one reset or nothing at all to the programmer      *)
(* (risc-v-v2.v 192-388).  With two buses the discipline is needed: a      *)
(* store to mstatus takes effect one instruction late.                     *)
(***************************************************************************)
THEOREM DisciplinedImplementsIsa == Spec /\ []Disciplined => ImplementsIsa
<1>1. Init => ISA!Init /\ Unstale
  BY InitImplements, UnstaleInit
<1>2. RInv /\ Unstale /\ Disciplined /\ [Next]_vars => [ISA!Next]_(ISA!vars) /\ Unstale'
  BY NextImplements, UnstaleNext
<1> QED BY <1>1, <1>2, RInvCorrect, PTL DEF Spec, ImplementsIsa, ISA!Spec

(***************************************************************************)
(* With one bus, the configuration of both boards, the core implements the *)
(* instruction-level machine whatever the program, one that rewrites its   *)
(* own code or its system registers included.                              *)
(***************************************************************************)
THEOREM SingleBusImplementsIsa ==
  ASSUME SINGLE_BUS
  PROVE  Spec => ImplementsIsa
<1>1. Disciplined
  BY DEF Disciplined
<1> QED BY <1>1, DisciplinedImplementsIsa, PTL

(***************************************************************************)
(* Whether a program is disciplined is seen on the instruction-level       *)
(* machine: if the instruction it is at never stores over the next two     *)
(* words, to mstatus or to the return pointer, then whatever the pipeline  *)
(* has in flight, no store lands on a word already fetched and none to a   *)
(* system register is on its way (risc-v-v2.v 218-221, 315-317).           *)
(***************************************************************************)
THEOREM HarmlessDisciplined ==
  Init /\ [][Next]_vars /\ [](~SINGLE_BUS => ISA!StoreHarmless) => []Disciplined
<1>1. RInv /\ Fresh /\ (~SINGLE_BUS => ISA!StoreHarmless) /\ [Next]_vars => Fresh'
  <2>1. CASE SINGLE_BUS
    BY <2>1 DEF Fresh
  <2> QED BY <2>1, FreshNext
<1> QED BY <1>1, RInvInit, RInvStep, FreshInit, FreshDisciplined, PTL

(***************************************************************************)
(* The discipline that two buses ask for is one of instructions, not of    *)
(* cycles: if no store of the program rewrites one of the two instructions *)
(* behind it, mstatus or the return pointer, then whatever the interrupts  *)
(* and the resets, no stale word is ever executed and the pipeline is      *)
(* invisible (risc-v-v2.v 79-80, 201-277).                                 *)
(***************************************************************************)
THEOREM HarmlessImplementsIsa ==
  Spec /\ [](~SINGLE_BUS => ISA!StoreHarmless) => []Disciplined /\ ImplementsIsa
  BY HarmlessDisciplined, DisciplinedImplementsIsa, PTL DEF Spec

(***************************************************************************)
(* So it is enough to know the program at the instruction level: if some   *)
(* set of states holds its first one, is left by no instruction, interrupt *)
(* or reset, and has only harmless stores, the core stays in it with two   *)
(* buses as with one.                                                      *)
(***************************************************************************)
THEOREM HarmlessProgramImplementsIsa ==
  ASSUME NEW S
  PROVE  /\ Spec
         /\ ISA!vars \in S
         /\ [][ISA!vars \in S /\ ISA!Next => (ISA!vars \in S)']_(ISA!vars)
         /\ [](ISA!vars \in S => ISA!StoreHarmless)
         => [](ISA!vars \in S) /\ ImplementsIsa
<1>1. /\ RInv /\ Unstale /\ Fresh /\ ISA!vars \in S
      /\ ISA!vars \in S => ISA!StoreHarmless
      /\ [ISA!vars \in S /\ ISA!Next => (ISA!vars \in S)']_(ISA!vars)
      /\ [Next]_vars
      => Unstale' /\ Fresh' /\ (ISA!vars \in S)'
  <2> SUFFICES ASSUME RInv, Unstale, Fresh, ISA!vars \in S, ISA!StoreHarmless, [Next]_vars,
                      [ISA!vars \in S /\ ISA!Next => (ISA!vars \in S)']_(ISA!vars)
               PROVE  Unstale' /\ Fresh' /\ (ISA!vars \in S)'
    OBVIOUS
  <2>1. Disciplined /\ Fresh' /\ Unstale'
    BY FreshDisciplined, FreshNext, UnstaleNext
  <2>2. [ISA!Next]_(ISA!vars)
    BY <2>1, NextImplements
  <2> QED BY <2>1, <2>2
<1>2. Init => Unstale /\ Fresh
  BY UnstaleInit, FreshInit
<1>3. ISA!vars \in S /\ (ISA!vars \in S => ISA!StoreHarmless) => (~SINGLE_BUS => ISA!StoreHarmless)
  OBVIOUS
<1> QED BY <1>1, <1>2, <1>3, RInvCorrect, HarmlessImplementsIsa, PTL DEF Spec
=============================================================================
