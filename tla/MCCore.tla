------------------------------- MODULE MCCore -------------------------------
(***************************************************************************)
(* A small instance of the core: 32 words of memory, three registers, a    *)
(* word of 256 values made of four lanes of four values each.              *)
(*                                                                         *)
(*   bytes   0 ..  31  system registers (words 0-7)                        *)
(*   bytes  32 ..  39  RAM (words 8-9)                                     *)
(*   bytes  40 ..  63  nothing selected, reads as zero                     *)
(*   bytes  64 .. 127  ROM (words 16-31), reset vector at 64               *)
(***************************************************************************)
EXTENDS RiscvCoreSafety, MCWords, Sequences

i(op, f, rd_, a, b, imm) == [op |-> op, f |-> f, rd |-> rd_, rs1 |-> a, rs2 |-> b, imm |-> imm]

MCRegs == 0 .. 2

(* The instruction a word stands for is its place in this table. *)
Table == <<
  i("JAL",    "", 0, 0, 0, 8),          \*  1  j _entry
  i("JAL",    "", 0, 0, 0, 40),         \*  2  j IRQHandler
  i("JAL",    "", 0, 0, 0, -12),        \*  3  while(1)
  i("MRET",   "", 0, 0, 0, 0),          \*  4
  i("OP",  "ADDI", 1, 0, 0, 36),        \*  5  x1 = a RAM address
  i("OP",  "ADDI", 1, 0, 0, 84),        \*  6  x1 = a ROM address
  i("OP",  "ADDI", 2, 0, 0, 8),         \*  7  x2 = the MIE bit
  i("OP",  "ADDI", 0, 0, 0, 5),         \*  8  a write to x0
  i("OP",  "SLTU", 2, 0, 1, 0),         \*  9
  i("LUI",    "", 2, 0, 0, 64),         \* 10
  i("AUIPC",  "", 1, 0, 0, 0),          \* 11
  i("BRANCH", "BEQ",  0, 1, 2, 8),      \* 12
  i("BRANCH", "BLT",  0, 2, 1, -4),     \* 13
  i("JALR",   "", 1, 1, 0, 0),          \* 14
  i("LOAD",   "LW", 2, 1, 0, 0),        \* 15
  i("LOAD",   "LH", 1, 0, 0, 36),       \* 16
  i("STORE",  "SW", 0, 0, 1, 36),       \* 17
  i("STORE",  "SB", 0, 0, 1, 37),       \* 18
  i("STORE",  "SW", 0, 0, 1, 0),        \* 19  write mstatus
  i("LOAD",   "LW", 1, 0, 0, 20),       \* 20  read mcause
  i("LOAD",   "LW", 1, 0, 0, 8),        \* 21  read the return pointer
  i("STORE",  "SW", 0, 0, 1, 2),        \* 22  write the return pointer
  i("LOAD",   "LW", 2, 0, 0, 4),        \* 23  read no register at all
  i("JAL",    "", 1, 0, 0, 8),          \* 24  call
  i("LOAD",   "LB", 2, 0, 0, 36)        \* 25
  >>

MCDecode(w) == IF w \in 1 .. Len(Table) THEN Table[w] ELSE i("NOP", "", 0, 0, 0, 0)

MCAlu(inst, a, b) ==
  CASE inst.f = "ADDI" -> (a + inst.imm) % WordSize
    [] inst.f = "SLTU" -> IF a < b THEN 1 ELSE 0
    [] OTHER -> 0

Image(body, isr) ==
  [w \in WordIdx |->
     CASE w = 16 -> 1
       [] w = 17 -> 2
       [] w \in 18 .. 17 + Len(body) -> body[w - 17]
       [] w = 18 + Len(body) -> 3
       [] w \in 27 .. 26 + Len(isr) -> isr[w - 26]
       [] OTHER -> 0]

(* Behind "x1 = a RAM address", every table entry followed by every entry   *)
(* that uses a register, touches memory or transfers control, with the     *)
(* shortest handler; a handler that reads the return pointer and clobbers  *)
(* x1 under the instructions that depend on x1; and one that writes the    *)
(* return pointer back.                                                    *)
Any    == 5 .. Len(Table)
Using  == {9} \cup 12 .. 23
UsesX1 == {12, 14, 15, 17}
SinglePrograms == {Image(<<5, b, c>>, <<4>>) : b \in Any, c \in Using}
             \cup {Image(<<6, b, c>>, <<21, 17, 4>>) : b \in {11, 24}, c \in UsesX1}
             \cup {Image(<<6, 11, 14>>, <<21, 22, 4>>)}

(* With two buses a store to a system register takes effect one edge late  *)
(* (see the run dual_mask): these programs make none.  They are fewer, for *)
(* two interrupt inputs.                                                   *)
MaskPrograms == {Image(<<19>>, <<4>>)}
DualPrograms ==
  {Image(<<5, b, c>>, <<4>>) : b \in {5} \cup 9 .. 15 \cup {17, 20, 23, 24}, c \in {12, 14, 15, 17}}
  \cup {Image(<<6, b, c>>, <<21, 17, 4>>) : b \in {11, 24}, c \in UsesX1}
=============================================================================
