------------------------------- MODULE RiscvIsa -------------------------------
(***************************************************************************)
(* The promise of the core: a machine that executes one instruction of     *)
(* risc-v-v2.v per step, in program order, with interrupts taken only      *)
(* between instructions.  No pipeline, no bus, no clock.                   *)
(*                                                                         *)
(* It promises what the code does, quirks included: mret sets MIE whatever *)
(* it was before the interrupt, the return pointer is read at byte 8 and   *)
(* written at byte 2, and reading a system register that does not exist    *)
(* returns an arbitrary word.                                              *)
(***************************************************************************)
EXTENDS RiscvArch

CONSTANT Programs   \* the memories the machine may be started with

VARIABLES pc, regs, mem, rip, mstatus, mcause

vars == <<pc, regs, mem, rip, mstatus, mcause>>

Init ==
  /\ pc = RESET_VECTOR
  /\ regs = [r \in Regs |-> 0]
  /\ mem \in Programs
  /\ rip = 0
  /\ mcause = 0
  /\ mstatus = MIE_bit

-----------------------------------------------------------------------------
Inst_ == Decode(mem[WordOf(pc)])

WriteReg(r, v) ==
  regs' = [q \in Regs |-> IF q = r /\ q # 0 THEN v ELSE regs[q]]

(***************************************************************************)
(* The values a load may return.                                           *)
(***************************************************************************)
LoadValues(a) ==
  IF IsSysAddr(a) /\ Inst_.f = "LW"
    THEN CASE WordOf(a) = REG_MSTATUS -> {mstatus}
           [] WordOf(a) = REG_RIP     -> {rip}
           [] WordOf(a) = REG_MCAUSE  -> {mcause}
           [] OTHER                   -> {Narrow("LW", w) : w \in Word}
    ELSE {Narrow(Inst_.f, mem[WordOf(a)])}

(* Arithmetic, U-type and the instructions the decoder does not know. *)
Simple ==
  /\ Inst_.op \in {"OP", "LUI", "AUIPC", "NOP"}
  /\ CASE Inst_.op = "OP"    -> WriteReg(Inst_.rd, Alu(Inst_, X(regs, Inst_.rs1), X(regs, Inst_.rs2)))
       [] Inst_.op = "LUI"   -> WriteReg(Inst_.rd, Inst_.imm % WordSize)
       [] Inst_.op = "AUIPC" -> WriteReg(Inst_.rd, (Plus(pc, 4) + Inst_.imm - 4) % WordSize)
       [] OTHER              -> UNCHANGED regs
  /\ pc' = Plus(pc, 4)
  /\ UNCHANGED <<mem, rip, mstatus, mcause>>

Load ==
  /\ Inst_.op = "LOAD"
  /\ \E v \in LoadValues(EffAddr(regs, Inst_)) : WriteReg(Inst_.rd, v)
  /\ pc' = Plus(pc, 4)
  /\ UNCHANGED <<mem, rip, mstatus, mcause>>

Store ==
  /\ Inst_.op = "STORE"
  /\ LET a == EffAddr(regs, Inst_)
         v == X(regs, Inst_.rs2)
     IN /\ mem' = StoreAt(mem, a, Inst_.f, v)
        /\ rip' = IF Inst_.f = "SW" /\ a = REG_RIP THEN v % AddrSize ELSE rip
        /\ mstatus' = IF Inst_.f = "SW" /\ a = REG_MSTATUS THEN v % 256 ELSE mstatus
  /\ pc' = Plus(pc, 4)
  /\ UNCHANGED <<regs, mcause>>

Branch ==
  /\ Inst_.op = "BRANCH"
  /\ pc' = IF Taken(regs, Inst_) THEN Plus(pc, Inst_.imm) ELSE Plus(pc, 4)
  /\ UNCHANGED <<regs, mem, rip, mstatus, mcause>>

Jump ==
  /\ Inst_.op \in {"JAL", "JALR"}
  /\ pc' = IF Inst_.op = "JAL" THEN Plus(pc, Inst_.imm) ELSE JalrTarget(regs, Inst_)
  /\ WriteReg(Inst_.rd, Plus(pc, 4))
  /\ UNCHANGED <<mem, rip, mstatus, mcause>>

(* Without interrupt inputs the core is built without mret. *)
Mret ==
  /\ Inst_.op = "MRET"
  /\ IF VECTOR_INT_TABLE_SIZE = 0
       THEN /\ pc' = Plus(pc, 4)
            /\ UNCHANGED mstatus
       ELSE /\ pc' = rip
            /\ mstatus' = SetMIE(mstatus)
  /\ UNCHANGED <<regs, mem, rip, mcause>>

-----------------------------------------------------------------------------
(***************************************************************************)
(* An interrupt is taken between two instructions and only when enabled;   *)
(* the return pointer is the instruction that did not run.                 *)
(***************************************************************************)
TakeInterrupt(s) ==
  /\ MIE(mstatus)
  /\ pc' = RESET_VECTOR + 4
  /\ rip' = pc
  /\ mstatus' = ClearMIE(mstatus)
  /\ mcause' = s
  /\ UNCHANGED <<regs, mem>>

(***************************************************************************)
(* Reset restarts at the vector.  The instruction it interrupts may have   *)
(* reached the memory (a store) or its link register (jalr), never a       *)
(* system register; registers, memory and the other state survive.         *)
(***************************************************************************)
Reset ==
  /\ pc' = RESET_VECTOR
  /\ mstatus' = SetMIE(mstatus)
  /\ \/ UNCHANGED <<regs, mem>>
     \/ /\ Inst_.op = "STORE"
        /\ mem' = StoreAt(mem, EffAddr(regs, Inst_), Inst_.f, X(regs, Inst_.rs2))
        /\ UNCHANGED regs
     \/ /\ Inst_.op = "JALR"
        /\ WriteReg(Inst_.rd, Plus(pc, 4))
        /\ UNCHANGED mem
  /\ UNCHANGED <<rip, mcause>>

Execute == Simple \/ Load \/ Store \/ Branch \/ Jump \/ Mret

Next == Execute \/ Reset \/ \E s \in Sources : TakeInterrupt(s)

Spec == Init /\ [][Next]_vars

-----------------------------------------------------------------------------
(***************************************************************************)
(* A core with separate buses applies a store one instruction late (see    *)
(* Disciplined of RiscvCoreSafety).  The program does not notice if the    *)
(* store leaves the two instructions behind it as they are and is not to   *)
(* mstatus or to the return pointer.                                       *)
(***************************************************************************)
StoreHarmless ==
  Inst_.op = "STORE" =>
    LET a      == EffAddr(regs, Inst_)
        stored == StoreAt(mem, a, Inst_.f, X(regs, Inst_.rs2))
    IN /\ \A d \in {4, 8} : stored[WordOf(Plus(pc, d))] = mem[WordOf(Plus(pc, d))]
       /\ Inst_.f = "SW" => a \notin {REG_MSTATUS, REG_RIP}
=============================================================================
