------------------------------ MODULE RiscvArch ------------------------------
(***************************************************************************)
(* What the programmer of the core can see: words, addresses, decoded      *)
(* instructions, the byte map, the system registers and the arithmetic     *)
(* the instructions perform.  Both the instruction-level machine           *)
(* (RiscvIsa) and the clock-level core (RiscvCore) are built from these    *)
(* operators, so the two cannot disagree about an operand, only about      *)
(* what happens when.                                                      *)
(*                                                                         *)
(* In this module and in the others, an operator whose name begins with    *)
(* Wrong is used by no definition: it is the operator below it with a      *)
(* plausible bug, put in its place to see that a property notices.         *)
(*                                                                         *)
(* In the code a word has 32 bits, AddrSize = 2^ADDR_BUS_WIDTH = 2^16 and  *)
(* the system registers fill the first 256 bytes.  The sizes are constants *)
(* so that TLC can use small ones; nothing below depends on their values.  *)
(***************************************************************************)
EXTENDS Integers, FiniteSets

CONSTANTS
  WordSize,               \* number of values of a 32-bit word
  AddrSize,               \* 2^ADDR_BUS_WIDTH bytes
  SysSize,                \* bytes of the system-register page
  Regs,                   \* register numbers, x0 among them
  RESET_VECTOR,
  VECTOR_INT_TABLE_SIZE,  \* number of interrupt inputs
  RamWords,               \* the words a store can change
  Decode(_),              \* word -> decoded instruction
  Alu(_, _, _),           \* decoded instruction, rs1, rs2 -> result
  Narrow(_, _),           \* load size, word on the bus -> register value
  Merge(_, _, _, _)       \* store size, lane, word in memory, rs2 -> word

Word    == 0 .. WordSize - 1
Addr    == 0 .. AddrSize - 1
NWords  == AddrSize \div 4
WordIdx == 0 .. NWords - 1
Sources == 0 .. VECTOR_INT_TABLE_SIZE - 1
Byte    == 0 .. 255

Ops    == {"NOP", "OP", "LUI", "AUIPC", "JAL", "JALR", "BRANCH",
           "LOAD", "STORE", "MRET"}
Loads  == {"LB", "LBU", "LH", "LHU", "LW", "L_undefined"}
Stores == {"SB", "SH", "SW", "S_undefined"}
Inst   == [op : Ops, f : STRING, rd : Regs, rs1 : Regs, rs2 : Regs, imm : Int]

(***************************************************************************)
(* The memory every program starts from.                                   *)
(***************************************************************************)
Memories == [WordIdx -> Word]

ASSUME SizesAssumption ==
  /\ WordSize \in Nat /\ AddrSize \in Nat /\ SysSize \in Nat
  /\ 256 <= WordSize /\ AddrSize <= WordSize /\ AddrSize % 4 = 0
  /\ 32 <= SysSize /\ SysSize <= AddrSize
  /\ RESET_VECTOR \in Addr /\ RESET_VECTOR + 4 \in Addr
  /\ VECTOR_INT_TABLE_SIZE \in Byte
  /\ RamWords \subseteq WordIdx
  /\ 0 \in Regs

Instructions == {Decode(w) : w \in Word}

ASSUME OperatorsAssumption ==
  /\ \A w \in Word : Decode(w) \in Inst
  /\ Decode(0).op = "NOP"
  /\ \A w \in Word : Narrow("LW", w) = w
  /\ \A i \in Instructions :
       /\ i.op = "OP"    => \A a, b \in Word : Alu(i, a, b) \in Word
       /\ i.op = "LOAD"  => \A w \in Word : Narrow(i.f, w) \in Word
       /\ i.op = "STORE" => \A w, v \in Word : \A l \in 0 .. 3 : Merge(i.f, l, w, v) \in Word

-----------------------------------------------------------------------------
(***************************************************************************)
(* Address arithmetic: the adders are ADDR_BUS_WIDTH bits wide.            *)
(***************************************************************************)
Plus(a, d) == (a + d) % AddrSize

(* The word a byte address falls in: memory ignores addr[1:0]. *)
WordOf(a) == a \div 4

(***************************************************************************)
(* Operands.  x0 reads as zero whatever its cell holds.                    *)
(***************************************************************************)
X(R, r)          == IF r = 0 THEN 0 ELSE R[r]
EffAddr(R, i)    == Plus(X(R, i.rs1), i.imm)
JalrTarget(R, i) == Plus(X(R, i.rs1) - (X(R, i.rs1) % 2), i.imm)

Signed(w) == IF w < WordSize \div 2 THEN w ELSE w - WordSize

Taken(R, i) ==
  LET a == X(R, i.rs1)
      b == X(R, i.rs2)
  IN \/ i.f = "BEQ"  /\ a = b
     \/ i.f = "BNE"  /\ a # b
     \/ i.f = "BLT"  /\ Signed(a) < Signed(b)
     \/ i.f = "BGE"  /\ Signed(a) >= Signed(b)
     \/ i.f = "BLTU" /\ a < b
     \/ i.f = "BGEU" /\ a >= b

(***************************************************************************)
(* Memory: a store changes the lanes its size selects in a writable word,  *)
(* and nothing in any other word.                                          *)
(***************************************************************************)
StoreAt(m, a, f, v) ==
  IF WordOf(a) \in RamWords
    THEN [m EXCEPT ![WordOf(a)] = Merge(f, a % 4, m[WordOf(a)], v)]
    ELSE m

(***************************************************************************)
(* System registers.  They are read by word index, address bits [7:2], but *)
(* written by byte address, data_addr_o[7:0]: mstatus is 0 both ways, the  *)
(* return pointer is read at byte 8 and written at byte 2.                 *)
(***************************************************************************)
REG_MSTATUS == 0
REG_RIP     == 2
REG_MCAUSE  == 5
MIE_bit     == 8

MIE(m)      == (m \div MIE_bit) % 2 = 1
SetMIE(m)   == IF MIE(m) THEN m ELSE m + MIE_bit
WrongClearMIE(m) == m
ClearMIE(m) == IF MIE(m) THEN m - MIE_bit ELSE m

IsSysAddr(a) == a < SysSize

(* The encoder counts from one, 0 being no request: risc-v-v2.v 304 and 305 *)
(* take the one away again. *)
WrongLowest(s) == 1 + (CHOOSE i \in s : \A j \in s : i <= j)

(* Interrupt priority: the lowest-numbered pending input wins. *)
Lowest(s) == CHOOSE i \in s : \A j \in s : i <= j
=============================================================================
