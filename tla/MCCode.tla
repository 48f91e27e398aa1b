------------------------------- MODULE MCCode -------------------------------
(***************************************************************************)
(* The code in 64 words of memory: system registers below byte 32, two     *)
(* variables and a stack above them, code from the reset vector at byte 96 *)
(* and the table of the interrupts at the end.  A word stands for the      *)
(* instruction at that place of the code.  Of the registers there is the   *)
(* link register below sp, and one between sp and t1.                      *)
(***************************************************************************)
EXTENDS RiscvCode

Counter == SysSize
MCStack == RESET_VECTOR - 4
MCRegs  == 0 .. NReg
MCRam   == WordOf(Counter) .. WordOf(MCStack) - 1

Slli(d, a, imm) == [op |-> "OP",   f |-> "SLLI", rd |-> d, rs1 |-> a, rs2 |-> 0, imm |-> imm]
Call(imm)       == [op |-> "JAL",  f |-> "",     rd |-> 1, rs1 |-> 0, rs2 |-> 0, imm |-> imm]
CallReg(a)      == [op |-> "JALR", f |-> "",     rd |-> 1, rs1 |-> a, rs2 |-> 0, imm |-> 0]
Ret             == [op |-> "JALR", f |-> "",     rd |-> 0, rs1 |-> 1, rs2 |-> 0, imm |-> 0]

(***************************************************************************)
(* An application that writes a variable, through a pointer, in a function *)
(* with a frame of its own.  The handler of source 0 writes another one in *)
(* the same function; the one of source 1 returns at once.                 *)
(***************************************************************************)
MCMain ==
  << Addi(3, zero, Counter), Call(8), Jump_(-4),
     Addi(sp, sp, -4), Sw(1, 0, sp),                   \* 4: the function
     Addi(t1, 3, 1), Sw(t1, 0, 3),
     Lw(1, 0, sp), Addi(sp, sp, 4), Ret,
     Addi(3, zero, Counter + 4), Jump_(-32) >>         \* 11: source 0

Function(i) == At(EntryAt + IF i = 0 THEN 11 ELSE 10)

(* The cause indexes the table of functions, at the end of memory.         *)
TableAt == NWords - 2
MCBody  == << Lw(3, 20, zero), Slli(3, 3, 2), Lw(t1, 4 * TableAt, 3), CallReg(t1) >>

(* A body that lets interrupts nest while it works.                        *)
NestingBody == << Addi(t1, zero, MIE_bit), Sw(t1, 0, zero), Addi(3, t1, 9), Sw(zero, 0, zero) >>

MCDecode(w) == IF w \in 1 .. Len(Code) THEN Code[w] ELSE Nop
MCAlu(inst, a, b) ==
  IF inst.f = "SLLI" THEN (a * 2 ^ inst.imm) % WordSize ELSE (a + inst.imm) % WordSize
MCNarrow(f, w) == w
MCMerge(f, l, old, v) == v

MCPrograms ==
  {[w \in WordIdx |->
      IF w - WordOf(RESET_VECTOR) \in 0 .. Len(Code) - 1 THEN w - WordOf(RESET_VECTOR) + 1
      ELSE IF w - TableAt \in {0, 1} THEN Function(w - TableAt) ELSE 0]}
=============================================================================
