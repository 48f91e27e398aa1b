----------------------------- MODULE RiscvCode -----------------------------
(***************************************************************************)
(* The code of the example application: the vectors and _entry of entry.S, *)
(* and its interrupt handler, ISR_PROLOGUE and ISR_EPILOGUE of riscv_hal.h *)
(* around IRQHandler of riscv_hal.c.  The register file has any size: the  *)
(* code's has NReg = 31 and saves the cause in t1 = 6.                     *)
(***************************************************************************)
EXTENDS RiscvArch, Sequences

CONSTANTS
  NReg,        \* the last register
  t1,          \* the register the frame uses for the cause and the return address
  Stack,       \* __stack of the linker script
  Main,        \* the code linked behind _entry: the application and every function
  Body         \* what IRQHandler does between prologue and epilogue

zero == 0
sp   == 2

Addi(d, a, imm) == [op |-> "OP",    f |-> "ADDI", rd |-> d, rs1 |-> a, rs2 |-> 0, imm |-> imm]
Lw(d, imm, a)   == [op |-> "LOAD",  f |-> "LW",   rd |-> d, rs1 |-> a, rs2 |-> 0, imm |-> imm]
Sw(s, imm, a)   == [op |-> "STORE", f |-> "SW",   rd |-> 0, rs1 |-> a, rs2 |-> s, imm |-> imm]
Jump_(imm)      == [op |-> "JAL",   f |-> "",     rd |-> 0, rs1 |-> 0, rs2 |-> 0, imm |-> imm]
MretInst        == [op |-> "MRET",  f |-> "",     rd |-> 0, rs1 |-> 0, rs2 |-> 0, imm |-> 0]
Nop             == [op |-> "NOP",   f |-> "",     rd |-> 0, rs1 |-> 0, rs2 |-> 0, imm |-> 0]

(* A word for each register, behind the return address and the cause. *)
Frame   == 4 * (NReg + 2)
Slot(r) == 4 * (r + 1)

ISR_PROLOGUE ==
  << Addi(sp, sp, -Frame) >>
  \o [r \in 1 .. NReg |-> Sw(r, Slot(r), sp)]
  \o << Lw(t1, 20, zero), Sw(t1, 4, sp),     \* REG_MCAUSE
        Lw(t1, 8, zero),  Sw(t1, 0, sp) >>   \* the return address

(* The return address is taken from the frame after t1 has its value back. *)
WrongISR_EPILOGUE ==
  [r \in 1 .. NReg |-> Lw(r, Slot(r), sp)]
  \o << Lw(t1, 0, sp), Sw(t1, 8, zero), Addi(sp, sp, Frame), MretInst >>

(* The byte at which the core takes a new return pointer. *)
WrongByteISR_EPILOGUE ==
  << Lw(t1, 0, sp), Sw(t1, REG_RIP, zero) >>
  \o [r \in 1 .. NReg |-> Lw(r, Slot(r), sp)]
  \o << Addi(sp, sp, Frame), MretInst >>

ISR_EPILOGUE ==
  << Lw(t1, 0, sp), Sw(t1, 8, zero) >>       \* the return address
  \o [r \in 1 .. NReg |-> Lw(r, Slot(r), sp)]
  \o << Addi(sp, sp, Frame), MretInst >>

(* Without USE_INTERRUPTS the naked handler is empty: riscv_hal.c falls into *)
(* what is linked behind it. *)
WrongIRQHandler == Body

(* The call of g_pfnVectors[interrupt_nr], between the two. *)
IRQHandler == ISR_PROLOGUE \o Body \o ISR_EPILOGUE

(* An entry that leaves sp as reset does. *)
WrongEntry == Main

(* _entry sets sp, in one addi here, and goes on to the application; that it *)
(* sets gp first is left out. *)
Entry == << Addi(sp, zero, Stack) >> \o Main

(* The code, from the reset vector on: j _entry, j IRQHandler, and both. *)
Code == << Jump_(4 * (Len(IRQHandler) + 2)), Jump_(4) >> \o IRQHandler \o Entry

-----------------------------------------------------------------------------
(***************************************************************************)
(* Places of the code, from 1 on, and the address and the word of each.    *)
(* The handler runs from 2, the jump of its vector, to the mret; what it   *)
(* calls begins behind BodyAt and comes back to Restored - 1.              *)
(***************************************************************************)
At(i)       == RESET_VECTOR + 4 * (i - 1)
CodeWord(i) == WordOf(RESET_VECTOR) + i - 1

BodyAt   == NReg + 7
Restored == BodyAt + Len(Body) + 2
MretAt   == Restored + NReg + 2
EntryAt  == MretAt + 1

(* The places that are neither vectors, prologue, epilogue nor _entry.  An *)
(* application and a handler may use the same functions.                   *)
ProgramPlaces ==
  {BodyAt + k : k \in 1 .. Len(Body)} \cup {EntryAt + k : k \in 1 .. Len(Main)}

(***************************************************************************)
(* The words of the frame an interrupt at sp = s builds, and the values of *)
(* sp at which one may come: the frame fits into RAM below it.             *)
(***************************************************************************)
FrameWords(s) == WordOf(s - Frame) .. WordOf(s) - 1

StackAt(s) ==
  s \in Addr /\ s % 4 = 0 /\ SysSize + Frame <= s /\ FrameWords(s) \subseteq RamWords

(***************************************************************************)
(* The two words behind the code, which are fetched too and dropped.       *)
(***************************************************************************)
EndKept == \A k \in {0, 1} : WordOf(Plus(RESET_VECTOR, 4 * (Len(Code) + k))) \notin RamWords
=============================================================================
