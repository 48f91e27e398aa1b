---------------------------- MODULE RiscvHandler ----------------------------
(***************************************************************************)
(* The code of the example application running on the instruction-level    *)
(* machine.                                                                *)
(*                                                                         *)
(* Interrupts are a choice of the environment at every step; the history   *)
(* variable suspended remembers what each of them interrupted.             *)
(***************************************************************************)
EXTENDS RiscvIsa, RiscvCode

CONSTANT MaxNesting   \* bound on interrupts in progress at once

VARIABLE suspended    \* of each interrupt in progress, innermost first: pc and registers

allvars == <<vars, suspended>>

(***************************************************************************)
(* The linker puts the code into memory that stores do not reach, and the  *)
(* stack into memory that they do, above the system registers.  addi adds  *)
(* and sw stores the word.                                                 *)
(***************************************************************************)
ASSUME HandlerAssumption ==
  /\ NReg \in Nat /\ Regs = 0 .. NReg /\ sp \in Regs /\ t1 \in Regs \ {zero, sp}
  /\ Main \in Seq(Inst) /\ Main # <<>> /\ Body \in Seq(Inst)
  /\ StackAt(Stack)
  /\ RESET_VECTOR % 4 = 0 /\ RESET_VECTOR + 4 * Len(Code) <= AddrSize
  /\ \A i \in 1 .. Len(Code) : CodeWord(i) \notin RamWords
  /\ Programs \subseteq Memories
  /\ \A m \in Programs : \A i \in 1 .. Len(Code) : Decode(m[CodeWord(i)]) = Code[i]
  /\ \A i \in Instructions :
       i.op = "OP" /\ i.f = "ADDI" => \A a, b \in Word : Alu(i, a, b) = (a + i.imm) % WordSize
  /\ \A w, v \in Word : Merge("SW", 0, w, v) = v

-----------------------------------------------------------------------------
HInit == Init /\ suspended = <<>>

(***************************************************************************)
(* The first request comes long after _entry has set the stack pointer:    *)
(* the timer of the examples needs 16000 clocks.                           *)
(***************************************************************************)
Interrupt(s) ==
  /\ regs[sp] # 0
  /\ Len(suspended) < MaxNesting
  /\ TakeInterrupt(s)
  /\ suspended' = <<[pc |-> pc, regs |-> regs]>> \o suspended

Return ==
  /\ Mret
  /\ suspended' = IF suspended = <<>> THEN <<>> ELSE Tail(suspended)

Continue == (Simple \/ Load \/ Store \/ Branch \/ Jump) /\ UNCHANGED suspended

HNext == Continue \/ Return \/ \E s \in Sources : Interrupt(s)

HSpec == HInit /\ [][HNext]_allvars

-----------------------------------------------------------------------------
(***************************************************************************)
(* What the frame asks of the code it runs among, the application and what *)
(* the handler calls: both may call and return, through registers and      *)
(* tables, move sp and store through pointers.                             *)
(***************************************************************************)
AtProgram == \E i \in ProgramPlaces : pc = At(i)

(* No mret of its own, and no store that unmasks interrupts or overwrites  *)
(* the return pointer.                                                     *)
Allowed ==
  AtProgram =>
    /\ Inst_.op # "MRET"
    /\ Inst_.op = "STORE" /\ Inst_.f = "SW" =>
         EffAddr(regs, Inst_) \notin {REG_MSTATUS, REG_RIP}

(* The application always leaves room for a frame below sp.  What the      *)
(* handler calls leaves the frame alone, and returns with sp where it was. *)
Keeps ==
  AtProgram /\ Continue =>
    IF suspended = <<>>
      THEN AtProgram' /\ StackAt(regs'[sp])
      ELSE LET s == Head(suspended).regs[sp]
           IN /\ \A w \in FrameWords(s) : mem'[w] = mem[w]
              /\ AtProgram' \/ (pc' = At(Restored - 1) /\ regs'[sp] = s - Frame)

(***************************************************************************)
(* The contract of the program with the frame, which the theorems assume   *)
(* and a run checks of code that calls, returns and shares functions with  *)
(* its handler (riscv_hal.h 12-94, riscv_hal.c 59-75).                     *)
(***************************************************************************)
ProgramBehaves == []Allowed /\ [][Keeps]_allvars

-----------------------------------------------------------------------------
(***************************************************************************)
(* mret resumes the program it interrupted where it was, with every        *)
(* register it had (riscv_hal.h 12-94).                                    *)
(***************************************************************************)
ResumesInterrupted ==
  [][ Return => /\ suspended # <<>>
                /\ pc' = Head(suspended).pc
                /\ regs = Head(suspended).regs ]_allvars

(***************************************************************************)
(* From an interrupt to its mret, and at no other time, interrupts are     *)
(* masked, so that none nests (risc-v-v2.v 303, 325).                      *)
(***************************************************************************)
MaskedWhileHandled == Len(suspended) <= 1 /\ (MIE(mstatus) <=> suspended = <<>>)
=============================================================================
