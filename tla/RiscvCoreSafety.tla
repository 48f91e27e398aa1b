--------------------------- MODULE RiscvCoreSafety ---------------------------
(***************************************************************************)
(* What is claimed of the clock-level core: its invariants, and that it    *)
(* implements the instruction-level machine.                               *)
(***************************************************************************)
EXTENDS RiscvCore

TypeOK ==
  /\ rst_i \in BOOLEAN /\ rst_cnt \in 0 .. RESET_HOLD
  /\ int_sig \subseteq Sources /\ int_ack_o \subseteq Sources
  /\ PC \in Addr /\ pc_latch_1 \in Addr /\ RIP \in Addr /\ data_addr_latch \in Addr
  /\ instruction_latch \in Word /\ stage_cnt \in 0 .. 2 /\ stage_cnt_latch \in 0 .. 2
  /\ skip_execution \in BOOLEAN /\ skip_execution_latch \in BOOLEAN
  /\ enter_interrupt \in BOOLEAN /\ after_reset \in BOOLEAN /\ sysreg_rd \in BOOLEAN
  /\ reg_mstatus \in Byte /\ reg_mcause \in Byte
  /\ REG \in [Regs -> Word]
  /\ mem \in Memories
  /\ data_sysreg_int \in Word /\ data_i \in Word /\ pgm_inst_i \in Word

-----------------------------------------------------------------------------
(***************************************************************************)
(* The address of the next instruction to complete.  The program counter   *)
(* points at it when its fetch is still to be made (out of reset, behind a *)
(* jump, while the bus is busy), and four bytes past it otherwise.         *)
(***************************************************************************)
FetchAhead == ~after_reset /\ ~skip_execution /\ stage_cnt # 2
PcAbs == IF FetchAhead THEN Plus(PC, -4) ELSE PC

(* An instruction whose effects the programmer sees, about to be written. *)
Retiring == rdw /\ stage_cnt # 1

RegsAbs == [r \in Regs |-> IF r = 0 THEN 0
                           ELSE IF Retiring /\ r = I.rd THEN rd ELSE REG[r]]

(* With two buses a store completes while the next instruction issues. *)
StoreInFlight == ~SINGLE_BUS /\ data_wr

MemAbs     == IF StoreInFlight THEN StoreAt(mem, data_addr_o, I.f, rs2) ELSE mem
RipAbs     == IF StoreInFlight THEN StoredRIP(RIP) ELSE RIP
MstatusAbs == IF StoreInFlight THEN StoredMstatus(reg_mstatus) ELSE reg_mstatus

ISA == INSTANCE RiscvIsa WITH
         pc <- PcAbs, regs <- RegsAbs, mem <- MemAbs,
         rip <- RipAbs, mstatus <- MstatusAbs, mcause <- reg_mcause

(***************************************************************************)
(* The pipeline is invisible: whatever the program, the interrupts and the *)
(* resets, what the programmer sees is the instruction-level machine.      *)
(* risc-v-v2.v 279-388 implements RiscvIsa.                                *)
(***************************************************************************)
ImplementsIsa == ISA!Spec

(***************************************************************************)
(* The shape of the pipeline.  The middle of an instruction is reached by  *)
(* the instructions that need it or by interrupt entry and by nothing      *)
(* else, and the latches tell the two apart: this is what the casex        *)
(* patterns of risc-v-v2.v 214-276 and 320 take for granted.  A store      *)
(* never asserts its strobe without its address, and with one bus an       *)
(* interrupt is never entered with interrupts left enabled.                *)
(***************************************************************************)
PipelineShape ==
  /\ enter_interrupt => /\ stage_cnt = 1 /\ skip_execution
                        /\ SINGLE_BUS => ~MIE(reg_mstatus)
  /\ stage_cnt = 1 =>
       /\ stage_cnt_latch = 0
       /\ ~enter_interrupt =>
            /\ I.op \in {"LOAD", "STORE", "JALR", "BRANCH"}
            /\ I.op = "STORE" => SINGLE_BUS
            /\ ~skip_execution /\ ~skip_execution_latch
  /\ stage_cnt = 2 =>
       /\ SINGLE_BUS /\ I.op \in {"LOAD", "STORE"}
       /\ stage_cnt_latch = 1 /\ ~skip_execution /\ ~skip_execution_latch
  /\ data_wr => DrivesDataAddr

(* The word the next slot will latch is the word of memory at address a,   *)
(* or, with two buses, a word that the program may have overwritten since. *)
Fetches(a) == Fetched = mem[WordOf(a)] \/ (~SINGLE_BUS /\ WordOf(a) \in RamWords)

(***************************************************************************)
(* Reset.  From its first edge on nothing is in flight, from its second    *)
(* the word at the reset vector is being fetched and pc_latch_1 holds its  *)
(* address, so a core that leaves reset starts there.  It takes two edges: *)
(* risc-v-v2.v 288-293 clears the latch but not data_i.                    *)
(***************************************************************************)
ResetShape ==
  /\ rst_cnt >= 1 => /\ PC = RESET_VECTOR /\ instruction_latch = 0
                     /\ stage_cnt = 0 /\ ~skip_execution /\ ~enter_interrupt
                     /\ after_reset
  /\ rst_cnt >= 2 => Fetches(RESET_VECTOR) /\ pc_latch_1 = RESET_VECTOR
  /\ after_reset /\ ~rst_i => rst_cnt >= 2

(***************************************************************************)
(* Fetch alignment.  When the core latches an instruction to execute, the  *)
(* word it latches is what memory holds at the address that relative       *)
(* jumps, links and the interrupt return pointer will take it to have      *)
(* (PC_FOR_AUIPC_AND_REL_JMP, risc-v-v2.v 153).                            *)
(***************************************************************************)
FetchAligned ==
  stage_cnt = 0 /\ ~skip_execution /\ (after_reset => ~rst_i) => Fetches(PcAbs)

(***************************************************************************)
(* One acknowledge serves one request: an acknowledged input is still      *)
(* pending, only one is acknowledged, and the cause register names it.     *)
(* risc-v-v2.v 299-309 against a device that drops its request one edge    *)
(* after the acknowledge.                                                  *)
(***************************************************************************)
ServedOnce ==
  int_ack_o # {} => enter_interrupt /\ int_ack_o = {reg_mcause} /\ reg_mcause \in int_sig

(***************************************************************************)
(* An instruction held over several cycles is still the word of memory at  *)
(* the address it was fetched from, and pc_latch_1 still holds the address *)
(* behind it, which JALR links (risc-v-v2.v 253-256, 281).  Only the       *)
(* entry jump is executed without a fetch having run ahead of it, and no   *)
(* device can have raised a request by then.                               *)
(***************************************************************************)
HeldAligned ==
  /\ stage_cnt = 1 /\ ~enter_interrupt =>
       /\ ~after_reset /\ pc_latch_1 = PC
       /\ \/ instruction_latch = mem[WordOf(PcAbs)]
          \/ ~SINGLE_BUS /\ WordOf(PcAbs) \in RamWords
  /\ after_reset => int_sig = {}

-----------------------------------------------------------------------------
(* What the invariants need of one another to be inductive: all of them.   *)
IInv == TypeOK /\ PipelineShape /\ ResetShape /\ FetchAligned /\ ServedOnce

(***************************************************************************)
(* A program that has masked interrupts is not interrupted: entry happens  *)
(* only if mstatus, with the store in flight applied, has MIE set.  With   *)
(* one bus that is the guard of risc-v-v2.v 299; with two buses the store  *)
(* is still on its way while the next instruction can be interrupted.      *)
(***************************************************************************)
MaskedNotInterrupted == [][enter_interrupt' => MIE(MstatusAbs)]_vars

(* The core is about to latch an instruction to execute. *)
AtSlot == ~rst_i /\ stage_cnt = 0 /\ ~skip_execution

(***************************************************************************)
(* With two buses a store lands one edge after the next instruction was    *)
(* fetched.  A program does not notice if no store rewrites an instruction *)
(* that is already on its way to the latch, and none is to mstatus or to   *)
(* the return pointer.  It is a condition on programs, which the core must *)
(* not break for them: a dropped store stays dropped.                      *)
(***************************************************************************)
Disciplined ==
  ~SINGLE_BUS =>
    /\ AtSlot => Fetched = MemAbs[WordOf(PcAbs)]
    /\ ~SysStore(REG_MSTATUS) /\ ~SysStore(REG_RIP)

(***************************************************************************)
(* Interrupts nest only by the program's doing: from the entry of one      *)
(* interrupt to the next entry, the program has executed an mret, stored   *)
(* to mstatus, or been reset.  Whatever mix of entries, stores in flight   *)
(* and dropped instructions, no edge but those three sets MIE              *)
(* (risc-v-v2.v 288-327).                                                  *)
(***************************************************************************)
MaskKept ==
  [][ ~MIE(reg_mstatus) /\ MIE(reg_mstatus')
        => rst_i \/ SysStore(REG_MSTATUS)
           \/ (AtSlot /\ ~InterruptTaken /\ Decode(Fetched).op = "MRET") ]_vars
=============================================================================
