------------------------------ MODULE RiscvAlu ------------------------------
(***************************************************************************)
(* risc-v-alu-l.v on words of any width, as it is built for the XILINX     *)
(* platform with the multiplier and without the divider, next to what the  *)
(* instruction set wants.                                                  *)
(*                                                                         *)
(* The unit decodes four fields of the instruction: bits 30 and 25, funct3 *)
(* and the opcode, with the patterns of risc-v-l-h.v in the order of the   *)
(* casex.  A pattern here is a condition on the four fields.               *)
(***************************************************************************)
EXTENDS Integers

CONSTANTS Width,    \* bits of a word, a power of two
          Wrap,     \* 2 ^ Width
          Power(_), \* 2 ^ n, for shifts and slices
          BitXor(_, _), BitOr(_, _), BitAnd(_, _),
          Seconds   \* pairs of an immediate and a value of rs2

Word == 0 .. Wrap - 1

ASSUME AluAssumption ==
  /\ Width \in Nat \ {0} /\ Wrap = Power(Width)
  /\ Power(1) = 2 /\ \A n \in 0 .. Width + 2 : Power(n) \in Nat \ {0}
  /\ \A m, n \in 0 .. Width + 2 : m + n <= Width + 2 => Power(m + n) = Power(m) * Power(n)
  /\ \A a, b \in Word : BitXor(a, b) \in Word /\ BitOr(a, b) \in Word /\ BitAnd(a, b) \in Word
  /\ Seconds \subseteq Word \X Word

OP_IMM == 19        \* 7'b0010011
OP     == 51        \* 7'b0110011

VARIABLES i30, i25, funct3, opcode, imm, rs1, rs2,  \* inputs
          rd, fault,                               \* outputs
          settled                                  \* whether they follow the inputs

inputs == <<i30, i25, funct3, opcode, imm, rs1, rs2>>
vars   == <<inputs, rd, fault, settled>>

Signed(w) == IF 2 * w < Wrap THEN w ELSE w - Wrap

(* Bits low + Width - 1 .. low of an integer. *)
Slice(n, low) == (n \div Power(low)) % Wrap

Bit(b) == IF b THEN 1 ELSE 0

-----------------------------------------------------------------------------
(* The patterns; ADDI and the logical ones do not look at bits 30 and 25.  *)
Register == opcode = OP
Plain    == i30 = 0 /\ i25 = 0

ADDI      == ~Register /\ funct3 = 0
ADD       == Register /\ Plain /\ funct3 = 0
SUB       == Register /\ i30 = 1 /\ i25 = 0 /\ funct3 = 0
SLL_SLLI  == Plain /\ funct3 = 1
SLTI_SLT  == funct3 = 2 /\ (~Register \/ Plain)
SLTIU_SLTU == funct3 = 3 /\ (~Register \/ Plain)
XORI_XOR  == funct3 = 4
SRA_SRAI  == i30 = 1 /\ i25 = 0 /\ funct3 = 5
SRL_SRLI  == Plain /\ funct3 = 5
ORI_OR    == funct3 = 6
ANDI_AND  == funct3 = 7
MUL       == Register /\ i30 = 0 /\ i25 = 1 /\ funct3 < 4

-----------------------------------------------------------------------------
(* The second operand, negated for a subtraction. *)
TMP ==
  LET b == IF Register THEN rs2 ELSE imm
  IN IF SUB THEN (0 - b) % Wrap ELSE b

Shift == TMP % Width

SRAL_INPUT_BIT == IF SRA_SRAI THEN Slice(rs1, Width - 1) ELSE 0

WrongSLL(w, shift) == w * Power(shift)

SLL(w, shift) == (w * Power(shift)) % Wrap

SRAL(w, shift, arithmetic) ==
  (w \div Power(shift)) + arithmetic * (Wrap - Power(Width - shift))

(***************************************************************************)
(* One signed multiplier of Width + 1 bits: an operand is shifted left to  *)
(* keep its sign, or gets a zero sign bit; rd takes another slice of the   *)
(* product for each case.                                                  *)
(***************************************************************************)
Wrongmul_result ==
  LET a == IF funct3 = 3 THEN rs1 ELSE 2 * Signed(rs1)
      b == IF funct3 \in {2, 3} THEN Signed(rs2) ELSE 2 * Signed(rs2)
  IN a * b

mul_result ==
  LET a == IF funct3 = 3 THEN rs1 ELSE 2 * Signed(rs1)
      b == IF funct3 \in {2, 3} THEN rs2 ELSE 2 * Signed(rs2)
  IN a * b

MulOffset == CASE funct3 = 0 -> 2
               [] funct3 = 1 -> Width + 2
               [] funct3 = 2 -> Width + 1
               [] funct3 = 3 -> Width

(* The first pattern that matches decides; divisions match logical ones. *)
Known ==
  \/ ADDI \/ ADD \/ SUB \/ SLL_SLLI \/ SLTI_SLT \/ SLTIU_SLTU
  \/ SRL_SRLI \/ SRA_SRAI \/ XORI_XOR \/ ORI_OR \/ ANDI_AND \/ MUL

Result ==
  CASE ADDI \/ ADD \/ SUB     -> (rs1 + TMP) % Wrap
    [] SLL_SLLI               -> SLL(rs1, Shift)
    [] SLTI_SLT               -> Bit(Signed(rs1) < Signed(TMP))
    [] SLTIU_SLTU             -> Bit(rs1 < TMP)
    [] SRL_SRLI \/ SRA_SRAI   -> SRAL(rs1, Shift, SRAL_INPUT_BIT)
    [] XORI_XOR               -> BitXor(rs1, TMP)
    [] ORI_OR                 -> BitOr(rs1, TMP)
    [] ANDI_AND               -> BitAnd(rs1, TMP)
    [] MUL                    -> Slice(mul_result, MulOffset)
    [] OTHER                  -> 0

Evaluate ==
  /\ ~settled /\ settled' = TRUE
  /\ fault' = ~Known /\ rd' = Result
  /\ UNCHANGED inputs

(* Outputs of an instruction that has not settled are not looked at. *)
Unsettled == settled' = FALSE /\ rd' = 0 /\ fault' = TRUE

(* The core puts another instruction on the same operands. *)
Change ==
  /\ settled /\ Unsettled
  /\ i30' \in {0, 1} /\ i25' \in {0, 1} /\ funct3' \in 0 .. 7
  /\ UNCHANGED <<opcode, imm, rs1, rs2>>

Init ==
  /\ opcode \in {OP, OP_IMM} /\ rs1 \in Word
  /\ \E second \in Seconds : imm = second[1] /\ rs2 = second[2]
  /\ i30 = 0 /\ i25 = 0 /\ funct3 = 0
  /\ settled = FALSE /\ rd = 0 /\ fault = TRUE

Next == Evaluate \/ Change

Spec == Init /\ [][Next]_vars

-----------------------------------------------------------------------------
(***************************************************************************)
(* What RV32I and RV32M define of arithmetic, in numbers.                  *)
(***************************************************************************)
Operand == IF opcode = OP THEN rs2 ELSE imm

Amount == Operand % Width

Base ==
  [f \in 0 .. 7 |->
     CASE f = 0 -> (rs1 + Operand) % Wrap
       [] f = 1 -> (rs1 * Power(Amount)) % Wrap
       [] f = 2 -> Bit(Signed(rs1) < Signed(Operand))
       [] f = 3 -> Bit(rs1 < Operand)
       [] f = 4 -> BitXor(rs1, Operand)
       [] f = 5 -> rs1 \div Power(Amount)
       [] f = 6 -> BitOr(rs1, Operand)
       [] f = 7 -> BitAnd(rs1, Operand)]

Alternate ==
  [f \in {0, 5} |-> IF f = 0 THEN (rs1 - rs2) % Wrap
                             ELSE (Signed(rs1) \div Power(Amount)) % Wrap]

Product ==
  [f \in 0 .. 3 |->
     CASE f = 0 -> (rs1 * rs2) % Wrap
       [] f = 1 -> ((Signed(rs1) * Signed(rs2)) \div Wrap) % Wrap
       [] f = 2 -> ((Signed(rs1) * rs2) \div Wrap) % Wrap
       [] f = 3 -> (rs1 * rs2) \div Wrap]

(* Every output keeps its width. *)
TypeOK == rd \in Word /\ fault \in BOOLEAN

(***************************************************************************)
(* Each register and immediate arithmetic instruction of RV32I and each    *)
(* multiplication of RV32M is known and has its result                     *)
(* (risc-v-alu-l.v 220-348, risc-v-l-h.v 11-34).                           *)
(***************************************************************************)
Correct ==
  settled =>
    /\ opcode = OP_IMM /\ funct3 \notin {1, 5} => ~fault /\ rd = Base[funct3]
    /\ opcode = OP_IMM /\ funct3 \in {1, 5} /\ i30 = 0 /\ i25 = 0 => ~fault /\ rd = Base[funct3]
    /\ opcode = OP_IMM /\ funct3 = 5 /\ i30 = 1 /\ i25 = 0 => ~fault /\ rd = Alternate[5]
    /\ opcode = OP /\ i30 = 0 /\ i25 = 0 => ~fault /\ rd = Base[funct3]
    /\ opcode = OP /\ i30 = 1 /\ i25 = 0 /\ funct3 \in {0, 5} => ~fault /\ rd = Alternate[funct3]
    /\ opcode = OP /\ i30 = 0 /\ i25 = 1 /\ funct3 < 4 => ~fault /\ rd = Product[funct3]
=============================================================================
