--------------------------- MODULE RiscvAlu_proof ---------------------------
(***************************************************************************)
(* The arithmetic unit gives the results that RV32I defines of arithmetic  *)
(* and RV32M of multiplications, for words of every width; TLC tries words *)
(* of four bits.                                                           *)
(***************************************************************************)
EXTENDS RiscvAlu, TLAPS

-----------------------------------------------------------------------------
(* Quotients and remainders of integers by a divisor that is not known.    *)

LEMMA DivMod ==
  ASSUME NEW a \in Int, NEW d \in Nat \ {0}
  PROVE  /\ a \div d \in Int /\ a % d \in 0 .. d - 1
         /\ a = d * (a \div d) + (a % d)
  OBVIOUS

LEMMA Multiple ==
  ASSUME NEW d \in Nat \ {0}, NEW x \in Int, x >= 1
  PROVE  d * x \in Int /\ d * x >= d
  OBVIOUS

LEMMA DivUnique ==
  ASSUME NEW a \in Int, NEW d \in Nat \ {0}, NEW q \in Int, NEW r \in 0 .. d - 1, a = d * q + r
  PROVE  a \div d = q /\ a % d = r
<1> DEFINE p == a \div d
           t == a % d
<1>1. p \in Int /\ t \in 0 .. d - 1 /\ a = d * p + t
  BY DivMod
<1> HIDE DEF p, t
<1>2. ASSUME NEW x \in Int, NEW y \in Int, NEW u \in 0 .. d - 1, NEW v \in 0 .. d - 1,
             d * x + u = d * y + v
      PROVE  x <= y
  <2> SUFFICES ASSUME x - y >= 1 PROVE FALSE
    OBVIOUS
  <2>1. d * (x - y) >= d
    BY Multiple
  <2>2. d * (x - y) = d * x - d * y /\ d * x \in Int /\ d * y \in Int
    OBVIOUS
  <2> QED BY <1>2, <2>1, <2>2
<1>3. p = q
  BY <1>1, <1>2
<1>4. d * p = d * q /\ d * p \in Int
  BY <1>1, <1>3
<1>5. t = r
  BY <1>1, <1>4
<1> QED BY <1>3, <1>5 DEF p, t

LEMMA SmallMod ==
  ASSUME NEW d \in Nat \ {0}, NEW a \in 0 .. d - 1
  PROVE  a % d = a
  OBVIOUS

LEMMA DivScale ==
  ASSUME NEW a \in Int, NEW d \in Nat \ {0}, NEW k \in Nat \ {0}
  PROVE  (k * a) \div (k * d) = a \div d
<1> DEFINE q == a \div d
           r == a % d
<1>1. q \in Int /\ r \in 0 .. d - 1 /\ a = d * q + r
  BY DivMod
<1> HIDE DEF q, r
<1>2. k * d \in Nat \ {0} /\ k * a \in Int
  OBVIOUS
<1>3. k * r \in 0 .. k * d - 1
  <2>1. k * r \in Nat
    BY <1>1
  <2>2. k * (d - r) >= k
    BY <1>1, Multiple
  <2>3. k * (d - r) = k * d - k * r
    BY <1>1
  <2> QED BY <1>2, <2>1, <2>2, <2>3
<1>4. k * a = (k * d) * q + k * r
  BY <1>1
<1> QED BY <1>1, <1>2, <1>3, <1>4, DivUnique DEF q

LEMMA ModShift ==
  ASSUME NEW a \in Int, NEW d \in Nat \ {0}, NEW k \in Int
  PROVE  (a + k * d) % d = a % d /\ (a + k * d) \div d = (a \div d) + k
<1> DEFINE q == a \div d
           r == a % d
<1>1. q \in Int /\ r \in 0 .. d - 1 /\ a = d * q + r
  BY DivMod
<1> HIDE DEF q, r
<1>2. a + k * d = d * (q + k) + r /\ a + k * d \in Int /\ q + k \in Int
  BY <1>1
<1>3. (a + k * d) \div d = q + k /\ (a + k * d) % d = r
  BY <1>1, <1>2, DivUnique
<1> QED BY <1>3 DEF q, r

-----------------------------------------------------------------------------
(* Powers of two, words and signs.                                         *)

LEMMA Powers ==
  /\ Width \in Nat \ {0} /\ Wrap \in Nat /\ Wrap >= 2 /\ Power(Width) = Wrap
  /\ Power(Width - 1) \in Nat \ {0} /\ Wrap = 2 * Power(Width - 1)
  /\ Power(2) = 4 /\ Power(Width + 1) = 2 * Wrap /\ Power(Width + 2) = 4 * Wrap
  /\ \A s \in 0 .. Width : /\ Power(s) \in Nat \ {0} /\ Power(Width - s) \in Nat \ {0}
                           /\ Power(s) * Power(Width - s) = Wrap
<1>1. Width \in Nat \ {0} /\ Wrap = Power(Width) /\ Power(1) = 2
      /\ \A n \in 0 .. Width + 2 : Power(n) \in Nat \ {0}
  BY AluAssumption
<1>2. \A m, n \in 0 .. Width + 2 : m + n <= Width + 2 => Power(m + n) = Power(m) * Power(n)
  BY AluAssumption
<1>3. ASSUME NEW s \in 0 .. Width
      PROVE  /\ Power(s) \in Nat \ {0} /\ Power(Width - s) \in Nat \ {0}
             /\ Power(s) * Power(Width - s) = Wrap
  <2>1. s \in 0 .. Width + 2 /\ Width - s \in 0 .. Width + 2 /\ s + (Width - s) = Width
    BY <1>1
  <2> DEFINE t == Width - s
  <2>2. t \in 0 .. Width + 2 /\ s + t = Width
    BY <2>1
  <2> HIDE DEF t
  <2>3. Power(s + t) = Power(s) * Power(t)
    BY <1>1, <1>2, <2>1, <2>2
  <2>4. Power(s) * Power(t) = Wrap /\ Power(s) \in Nat \ {0} /\ Power(t) \in Nat \ {0}
    BY <1>1, <2>1, <2>2, <2>3
  <2> QED BY <2>4 DEF t
<1>4. Power(Width - 1) \in Nat \ {0} /\ Power(1) * Power(Width - 1) = Wrap
  BY <1>1, <1>3
<1>5. Power(1 + 1) = 2 * 2 /\ 1 + 1 = 2
  BY <1>1, <1>2
<1>6. Power(Width + 1) = Power(Width) * Power(1) /\ Power(Width + 2) = Power(Width) * Power(2)
  BY <1>1, <1>2
<1> QED BY <1>1, <1>3, <1>4, <1>5, <1>6

LEMMA WordMod == ASSUME NEW a \in Int PROVE a % Wrap \in Word
<1>1. Wrap \in Nat \ {0}
  BY Powers
<1> QED BY <1>1, DivMod DEF Word

LEMMA SignedIs ==
  ASSUME NEW w \in Word
  PROVE  /\ w \in Nat /\ w < Wrap /\ Signed(w) \in Int
         /\ Signed(w) = w \/ Signed(w) = w - Wrap
  BY Powers DEF Word, Signed

InputsOK ==
  /\ i30 \in {0, 1} /\ i25 \in {0, 1} /\ funct3 \in 0 .. 7 /\ opcode \in {OP, OP_IMM}
  /\ imm \in Word /\ rs1 \in Word /\ rs2 \in Word

(* Only a subtraction does not get its second operand as it is. *)
LEMMA Operands ==
  ASSUME InputsOK
  PROVE  /\ ~SUB => TMP = Operand
         /\ SUB => TMP = (0 - rs2) % Wrap
         /\ TMP \in Word /\ Operand \in Word /\ Amount \in 0 .. Width - 1
         /\ ~SUB => Shift = Amount
<1>1. (0 - rs2) \in Int /\ (0 - imm) \in Int
  BY Powers DEF InputsOK, Word
<1>2. (0 - rs2) % Wrap \in Word /\ (0 - imm) % Wrap \in Word
  BY <1>1, WordMod
<1>3. Operand \in Word
  BY DEF Operand, InputsOK
<1>4. Operand % Width \in 0 .. Width - 1
  BY <1>3, Powers, DivMod DEF Word
<1> QED BY <1>2, <1>3, <1>4 DEF TMP, Operand, InputsOK, SUB, Register, Amount, Shift, OP, OP_IMM

-----------------------------------------------------------------------------
(* The units, one by one.                                                  *)

LEMMA Subtracts ==
  ASSUME InputsOK
  PROVE  (rs1 + ((0 - rs2) % Wrap)) % Wrap = (rs1 - rs2) % Wrap
<1> DEFINE n == 0 - rs2
           q == n \div Wrap
           r == n % Wrap
<1>1. Wrap \in Nat \ {0} /\ rs1 \in Int /\ rs2 \in Int /\ n \in Int
  BY Powers DEF InputsOK, Word
<1>2. q \in Int /\ r \in Int /\ n = Wrap * q + r
  BY <1>1, DivMod
<1> HIDE DEF q, r
<1>3. rs1 + r = (rs1 - rs2) + (0 - q) * Wrap /\ rs1 - rs2 \in Int /\ 0 - q \in Int
  BY <1>1, <1>2
<1>4. ((rs1 - rs2) + (0 - q) * Wrap) % Wrap = (rs1 - rs2) % Wrap
  BY <1>1, <1>3, ModShift
<1> QED BY <1>3, <1>4 DEF r

(* The bit shifted in is the sign. *)
LEMMA SignBit ==
  ASSUME NEW w \in Word
  PROVE  Slice(w, Width - 1) = IF 2 * w < Wrap THEN 0 ELSE 1
<1> DEFINE H == Power(Width - 1)
<1>1. H \in Nat \ {0} /\ Wrap = 2 * H /\ w \in Nat /\ w < Wrap /\ Wrap \in Nat \ {0} /\ Wrap >= 2
  BY Powers, SignedIs
<1> HIDE DEF H
<1>2. w \div H = IF 2 * w < Wrap THEN 0 ELSE 1
  <2>1. CASE 2 * w < Wrap
    <3>1. w = H * 0 + w /\ w \in 0 .. H - 1
      BY <1>1, <2>1
    <3> QED BY <1>1, <2>1, <3>1, DivUnique
  <2>2. CASE ~(2 * w < Wrap)
    <3>1. w = H * 1 + (w - H) /\ w - H \in 0 .. H - 1
      BY <1>1, <2>2
    <3> QED BY <1>1, <2>2, <3>1, DivUnique
  <2> QED BY <2>1, <2>2
<1>3. 0 % Wrap = 0 /\ 1 % Wrap = 1
  BY <1>1
<1> QED BY <1>2, <1>3 DEF Slice, H

(* A shift to the right, of a word and of a signed number. *)
LEMMA ShiftsRight ==
  ASSUME NEW w \in Word, NEW s \in 0 .. Width - 1
  PROVE  /\ SRAL(w, s, 0) = w \div Power(s) /\ w \div Power(s) \in Word
         /\ SRAL(w, s, Slice(w, Width - 1)) = (Signed(w) \div Power(s)) % Wrap
<1> DEFINE P == Power(s)
           Q == Power(Width - s)
           x == w \div P
<1>1. P \in Nat \ {0} /\ Q \in Nat \ {0} /\ P * Q = Wrap /\ Wrap \in Nat \ {0}
      /\ w \in Nat /\ w \in Int /\ w < Wrap
  BY Powers, SignedIs
<1>2. x \in Int /\ w % P \in 0 .. P - 1 /\ w = P * x + (w % P)
  BY <1>1, DivMod
<1>3. SRAL(w, s, 0) = x + 0 * (Wrap - Q) /\ SRAL(w, s, 1) = x + 1 * (Wrap - Q)
  BY DEF SRAL
<1> HIDE DEF P, Q, x
<1>4. x \in 0 .. Q - 1
  <2>1. ASSUME x < 0 PROVE FALSE
    <3>1. P * (0 - x) >= P
      BY <1>1, <1>2, <2>1, Multiple
    <3>2. P * (0 - x) = 0 - P * x /\ P * x \in Int
      BY <1>1, <1>2
    <3> QED BY <1>1, <1>2, <3>1, <3>2
  <2>2. ASSUME x >= Q PROVE FALSE
    <3>1. P * (x - Q + 1) >= P
      BY <1>1, <1>2, <2>2, Multiple
    <3>2. P * (x - Q + 1) = P * x - P * Q + P /\ P * x \in Int
      BY <1>1, <1>2
    <3> QED BY <1>1, <1>2, <3>1, <3>2
  <2> QED BY <1>1, <1>2, <2>1, <2>2
<1>5. Q <= Wrap
  <2>1. Q * P = P * Q /\ Q * P \in Nat
    BY <1>1
  <2>2. ASSUME Q > Wrap PROVE FALSE
    <3>1. Q * (P - 1) \in Nat /\ Q * (P - 1) = Q * P - Q
      BY <1>1
    <3> QED BY <1>1, <2>1, <2>2, <3>1
  <2> QED BY <1>1, <2>2
<1>6. x \in 0 .. Wrap - 1 /\ x \in Word
  BY <1>1, <1>4, <1>5 DEF Word
<1>7. SRAL(w, s, 0) = x
  BY <1>1, <1>2, <1>3
<1>8. CASE 2 * w < Wrap
  <2>1. Signed(w) = w /\ Slice(w, Width - 1) = 0
    BY <1>8, SignBit DEF Signed
  <2>2. x % Wrap = x
    BY <1>1, <1>6, SmallMod
  <2> QED BY <1>6, <1>7, <2>1, <2>2 DEF P, x
<1>9. CASE ~(2 * w < Wrap)
  <2>1. Signed(w) = w - Wrap /\ Slice(w, Width - 1) = 1
    BY <1>9, SignBit DEF Signed
  <2>2. (0 - Q) * P = 0 - Wrap /\ 0 - Q \in Int
    BY <1>1
  <2>3. Signed(w) \div P = x + (0 - Q)
    <3>1. (w + (0 - Q) * P) \div P = x + (0 - Q)
      BY <1>1, <2>2, ModShift DEF x
    <3> QED BY <1>1, <2>1, <2>2, <3>1
  <2>4. (x + (0 - Q)) % Wrap = x + (Wrap - Q)
    <3> DEFINE z == x + (Wrap - Q)
               k == 0 - 1
    <3>1. z \in 0 .. Wrap - 1 /\ z \in Int /\ k \in Int /\ x + (0 - Q) = z + k * Wrap
      BY <1>1, <1>4, <1>5
    <3> HIDE DEF z, k
    <3>2. (z + k * Wrap) % Wrap = z % Wrap
      BY <1>1, <3>1, ModShift
    <3>3. z % Wrap = z
      BY <1>1, <3>1, SmallMod
    <3> QED BY <3>1, <3>2, <3>3 DEF z
  <2>5. SRAL(w, s, 1) = x + (Wrap - Q)
    BY <1>1, <1>2, <1>3
  <2> QED BY <1>6, <1>7, <2>1, <2>3, <2>4, <2>5 DEF P, x
<1> QED BY <1>8, <1>9

(* The product of two words has the low word of the product of their       *)
(* signed values.                                                          *)
LEMMA LowProduct ==
  ASSUME NEW v \in Word, NEW w \in Word
  PROVE  (Signed(v) * Signed(w)) % Wrap = (v * w) % Wrap
<1> DEFINE W == Wrap
<1>1. W \in Nat \ {0} /\ v \in Int /\ w \in Int /\ v * w \in Int
  BY Powers DEF Word
<1>2. \E k \in Int : Signed(v) * Signed(w) = v * w + k * W
  <2>1. CASE Signed(v) = v /\ Signed(w) = w
    <3>1. v * w = v * w + 0 * W
      BY <1>1
    <3> QED BY <2>1, <3>1
  <2>2. CASE Signed(v) = v - W /\ Signed(w) = w
    <3>1. (v - W) * w = v * w + (0 - w) * W /\ 0 - w \in Int
      BY <1>1
    <3> QED BY <2>2, <3>1
  <2>3. CASE Signed(v) = v /\ Signed(w) = w - W
    <3>1. v * (w - W) = v * w + (0 - v) * W /\ 0 - v \in Int
      BY <1>1
    <3> QED BY <2>3, <3>1
  <2>4. CASE Signed(v) = v - W /\ Signed(w) = w - W
    <3>1. (v - W) * (w - W) = v * w + (W - v - w) * W /\ W - v - w \in Int
      BY <1>1
    <3> QED BY <2>4, <3>1
  <2> QED BY <2>1, <2>2, <2>3, <2>4, SignedIs
<1>3. PICK k \in Int : Signed(v) * Signed(w) = v * w + k * W
  BY <1>2
<1>4. (v * w + k * W) % W = (v * w) % W
  BY <1>1, ModShift
<1> QED BY <1>3, <1>4

(* The slices of the one multiplier are the four multiplications. *)
LEMMA Multiplies ==
  ASSUME InputsOK, funct3 < 4
  PROVE  Slice(mul_result, MulOffset) = Product[funct3] /\ Product[funct3] \in Word
<1> DEFINE s1 == Signed(rs1)
           s2 == Signed(rs2)
<1>1. /\ Wrap \in Nat \ {0} /\ rs1 \in Nat /\ rs2 \in Nat /\ rs1 < Wrap /\ rs2 < Wrap
      /\ s1 \in Int /\ s2 \in Int /\ funct3 \in {0, 1, 2, 3}
      /\ Power(2) = 4 /\ Power(Width + 1) = 2 * Wrap /\ Power(Width + 2) = 4 * Wrap
      /\ Power(Width) = Wrap
  BY Powers, SignedIs DEF InputsOK
<1>2. \A n \in Int : n \div Wrap \in Int
  BY <1>1, DivMod
<1>3. CASE funct3 = 0
  <2>1. Slice(mul_result, MulOffset) = (((2 * s1) * (2 * s2)) \div 4) % Wrap
    BY <1>1, <1>3 DEF Slice, mul_result, MulOffset
  <2> HIDE DEF s1, s2
  <2>2. s1 * s2 \in Int /\ (2 * s1) * (2 * s2) = 4 * (s1 * s2) + 0
    BY <1>1
  <2>3. ((2 * s1) * (2 * s2)) \div 4 = s1 * s2
    BY <2>2, DivUnique
  <2>4. (s1 * s2) % Wrap = (rs1 * rs2) % Wrap
    BY LowProduct DEF s1, s2, InputsOK
  <2>5. rs1 * rs2 \in Int
    BY <1>1
  <2> QED BY <1>3, <2>1, <2>3, <2>4, <2>5, WordMod DEF Product
<1>4. CASE funct3 = 1
  <2>1. Slice(mul_result, MulOffset) = (((2 * s1) * (2 * s2)) \div (4 * Wrap)) % Wrap
    BY <1>1, <1>4 DEF Slice, mul_result, MulOffset
  <2> HIDE DEF s1, s2
  <2>2. s1 * s2 \in Int /\ (2 * s1) * (2 * s2) = 4 * (s1 * s2)
    BY <1>1
  <2>3. ((2 * s1) * (2 * s2)) \div (4 * Wrap) = (s1 * s2) \div Wrap
    BY <1>1, <2>2, DivScale
  <2> QED BY <1>2, <1>4, <2>1, <2>2, <2>3, WordMod DEF Product, s1, s2
<1>5. CASE funct3 = 2
  <2>1. Slice(mul_result, MulOffset) = (((2 * s1) * rs2) \div (2 * Wrap)) % Wrap
    BY <1>1, <1>5 DEF Slice, mul_result, MulOffset
  <2> HIDE DEF s1, s2
  <2>2. s1 * rs2 \in Int /\ (2 * s1) * rs2 = 2 * (s1 * rs2)
    BY <1>1
  <2>3. ((2 * s1) * rs2) \div (2 * Wrap) = (s1 * rs2) \div Wrap
    BY <1>1, <2>2, DivScale
  <2> QED BY <1>2, <1>5, <2>1, <2>2, <2>3, WordMod DEF Product, s1
<1>6. CASE funct3 = 3
  <2>1. Slice(mul_result, MulOffset) = ((rs1 * rs2) \div Wrap) % Wrap
    BY <1>1, <1>6 DEF Slice, mul_result, MulOffset
  <2> DEFINE n == rs1 * rs2
             q == n \div Wrap
  <2>2. n \in Nat /\ n \in Int
    BY <1>1
  <2>3. q \in Int /\ n % Wrap \in 0 .. Wrap - 1 /\ n = Wrap * q + (n % Wrap)
    BY <1>1, <2>2, DivMod
  <2>4. n <= Wrap * (Wrap - 1)
    <3>1. rs1 * rs2 <= Wrap * rs2 /\ Wrap * rs2 <= Wrap * (Wrap - 1)
      BY <1>1
    <3>2. Wrap * rs2 \in Int /\ Wrap * (Wrap - 1) \in Int
      BY <1>1
    <3> QED BY <2>2, <3>1, <3>2
  <2> HIDE DEF n, q
  <2>5. q \in 0 .. Wrap - 1
    <3>1. ASSUME q < 0 PROVE FALSE
      <4>1. Wrap * (0 - q) >= Wrap
        BY <1>1, <2>3, <3>1, Multiple
      <4>2. Wrap * (0 - q) = 0 - Wrap * q /\ Wrap * q \in Int
        BY <1>1, <2>3
      <4> QED BY <1>1, <2>2, <2>3, <4>1, <4>2
    <3>2. ASSUME q > Wrap - 1 PROVE FALSE
      <4>1. Wrap * (q - Wrap + 1) >= Wrap
        BY <1>1, <2>3, <3>2, Multiple
      <4>2. Wrap * (q - Wrap + 1) = Wrap * q - Wrap * (Wrap - 1) /\ Wrap * q \in Int
            /\ Wrap * (Wrap - 1) \in Int
        BY <1>1, <2>3
      <4> QED BY <1>1, <2>2, <2>3, <2>4, <4>1, <4>2
    <3> QED BY <1>1, <2>3, <3>1, <3>2
  <2>6. q % Wrap = q
    BY <1>1, <2>5, SmallMod
  <2> QED BY <1>6, <2>1, <2>5, <2>6 DEF Product, Word, n, q
<1> QED BY <1>1, <1>3, <1>4, <1>5, <1>6

-----------------------------------------------------------------------------
(* The patterns exclude each other, so that each has its arm of the casex. *)

LEMMA Arms ==
  ASSUME InputsOK
  PROVE  /\ ADDI \/ ADD \/ SUB => Result = (rs1 + TMP) % Wrap
         /\ SLL_SLLI => Result = SLL(rs1, Shift)
         /\ SLTI_SLT => Result = Bit(Signed(rs1) < Signed(TMP))
         /\ SLTIU_SLTU => Result = Bit(rs1 < TMP)
         /\ SRL_SRLI \/ SRA_SRAI => Result = SRAL(rs1, Shift, SRAL_INPUT_BIT)
         /\ XORI_XOR => Result = BitXor(rs1, TMP)
         /\ ORI_OR => Result = BitOr(rs1, TMP)
         /\ ANDI_AND => Result = BitAnd(rs1, TMP)
         /\ MUL => Result = Slice(mul_result, MulOffset)
         /\ ~Known => Result = 0
<1>1. ADDI \/ ADD \/ SUB => funct3 = 0 /\ ~MUL
  BY DEF ADDI, ADD, SUB, MUL, Plain, InputsOK
<1>2. SLL_SLLI => funct3 = 1 /\ ~MUL
  BY DEF SLL_SLLI, MUL, Plain, InputsOK
<1>3. SLTI_SLT => funct3 = 2 /\ ~MUL
  BY DEF SLTI_SLT, MUL, Plain, InputsOK
<1>4. SLTIU_SLTU => funct3 = 3 /\ ~MUL
  BY DEF SLTIU_SLTU, MUL, Plain, InputsOK
<1>5. SRL_SRLI \/ SRA_SRAI => funct3 = 5
  BY DEF SRL_SRLI, SRA_SRAI
<1>6. (XORI_XOR => funct3 = 4) /\ (ORI_OR => funct3 = 6) /\ (ANDI_AND => funct3 = 7)
  BY DEF XORI_XOR, ORI_OR, ANDI_AND
<1>7. MUL => funct3 \in {0, 1, 2, 3}
  BY DEF MUL, InputsOK
<1> QED BY <1>1, <1>2, <1>3, <1>4, <1>5, <1>6, <1>7 DEF Result, Known

LEMMA Zeros == 0 \in Word /\ 1 \in Word /\ \A b : Bit(b) \in Word
  BY Powers DEF Word, Bit

LEMMA ResultType ==
  ASSUME InputsOK
  PROVE  Result \in Word
<1>1. TMP \in Word /\ rs1 \in Word /\ TMP \in Int /\ rs1 \in Int
  BY Operands, SignedIs DEF InputsOK
<1>2. Shift \in 0 .. Width - 1
  BY <1>1, Powers, DivMod, SignedIs DEF Shift
<1>3. CASE ADDI \/ ADD \/ SUB
  BY <1>1, <1>3, Arms, WordMod
<1>4. CASE SLL_SLLI
  <2>1. rs1 * Power(Shift) \in Int
    BY <1>1, <1>2, Powers
  <2> QED BY <1>4, <2>1, Arms, WordMod DEF SLL
<1>5. CASE SLTI_SLT \/ SLTIU_SLTU
  BY <1>5, Arms, Zeros
<1>6. CASE SRL_SRLI \/ SRA_SRAI
  <2>1. SRAL(rs1, Shift, 0) \in Word
    BY <1>1, <1>2, ShiftsRight
  <2>2. Signed(rs1) \div Power(Shift) \in Int
    <3>1. Signed(rs1) \in Int /\ Power(Shift) \in Nat \ {0}
      BY <1>1, <1>2, Powers, SignedIs
    <3> QED BY <3>1, DivMod
  <2>3. SRAL(rs1, Shift, Slice(rs1, Width - 1)) \in Word
    BY <1>1, <1>2, <2>2, ShiftsRight, WordMod
  <2> QED BY <1>6, <2>1, <2>3, Arms DEF SRAL_INPUT_BIT
<1>7. CASE XORI_XOR \/ ORI_OR \/ ANDI_AND
  BY <1>1, <1>7, Arms, AluAssumption
<1>8. CASE MUL
  BY <1>8, Arms, Multiplies DEF MUL
<1>9. CASE ~Known
  BY <1>9, Arms, Zeros
<1> QED BY <1>3, <1>4, <1>5, <1>6, <1>7, <1>8, <1>9 DEF Known

-----------------------------------------------------------------------------
(* The instructions.                                                       *)

BaseInstruction ==
  \/ opcode = OP_IMM /\ funct3 \notin {1, 5}
  \/ opcode = OP_IMM /\ funct3 \in {1, 5} /\ i30 = 0 /\ i25 = 0
  \/ opcode = OP /\ i30 = 0 /\ i25 = 0

LEMMA Bases ==
  ASSUME InputsOK, BaseInstruction
  PROVE  Known /\ Result = Base[funct3]
<1>1. ~SUB /\ ~SRA_SRAI
  BY DEF BaseInstruction, SUB, SRA_SRAI, Register, OP, OP_IMM
<1>2. TMP = Operand /\ Shift = Amount /\ Amount \in 0 .. Width - 1 /\ rs1 \in Word
  BY <1>1, Operands DEF InputsOK
<1>3. funct3 \in 0 .. 7
  BY DEF InputsOK
<1>4. CASE funct3 = 0
  <2>1. ADDI \/ ADD
    BY <1>4 DEF ADDI, ADD, Register, Plain, BaseInstruction, OP, OP_IMM
  <2> QED BY <1>2, <1>4, <2>1, Arms DEF Known, Base
<1>5. CASE funct3 = 1
  <2>1. SLL_SLLI
    BY <1>5 DEF SLL_SLLI, Plain, BaseInstruction
  <2> QED BY <1>2, <1>5, <2>1, Arms DEF Known, Base, SLL
<1>6. CASE funct3 = 2
  <2>1. SLTI_SLT
    BY <1>6 DEF SLTI_SLT, Plain, Register, BaseInstruction, OP, OP_IMM
  <2> QED BY <1>2, <1>6, <2>1, Arms DEF Known, Base
<1>7. CASE funct3 = 3
  <2>1. SLTIU_SLTU
    BY <1>7 DEF SLTIU_SLTU, Plain, Register, BaseInstruction, OP, OP_IMM
  <2> QED BY <1>2, <1>7, <2>1, Arms DEF Known, Base
<1>8. CASE funct3 = 4
  BY <1>2, <1>8, Arms DEF Known, Base, XORI_XOR
<1>9. CASE funct3 = 5
  <2>1. SRL_SRLI
    BY <1>9 DEF SRL_SRLI, Plain, BaseInstruction
  <2>2. Result = SRAL(rs1, Amount, 0)
    BY <1>1, <1>2, <2>1, Arms DEF SRAL_INPUT_BIT
  <2> QED BY <1>2, <1>9, <2>1, <2>2, ShiftsRight DEF Known, Base
<1>10. CASE funct3 = 6
  BY <1>2, <1>10, Arms DEF Known, Base, ORI_OR
<1>11. CASE funct3 = 7
  BY <1>2, <1>11, Arms DEF Known, Base, ANDI_AND
<1> QED BY <1>3, <1>4, <1>5, <1>6, <1>7, <1>8, <1>9, <1>10, <1>11

LEMMA Alternates ==
  ASSUME InputsOK, i30 = 1, i25 = 0,
         (opcode = OP /\ funct3 = 0) \/ funct3 = 5
  PROVE  Known /\ Result = Alternate[funct3]
<1>1. CASE funct3 = 5
  <2>1. SRA_SRAI /\ ~SUB
    BY <1>1 DEF SRA_SRAI, SUB
  <2>2. Shift = Amount /\ Amount \in 0 .. Width - 1 /\ rs1 \in Word
    BY <2>1, Operands DEF InputsOK
  <2>3. Result = SRAL(rs1, Amount, Slice(rs1, Width - 1))
    BY <2>1, <2>2, Arms DEF SRAL_INPUT_BIT
  <2> QED BY <1>1, <2>1, <2>2, <2>3, ShiftsRight DEF Known, Alternate
<1>2. CASE opcode = OP /\ funct3 = 0
  <2>1. SUB
    BY <1>2 DEF SUB, Register
  <2>2. TMP = (0 - rs2) % Wrap
    BY <2>1, Operands
  <2> QED BY <1>2, <2>1, <2>2, Arms, Subtracts DEF Known, Alternate
<1> QED BY <1>1, <1>2

LEMMA Products ==
  ASSUME InputsOK, opcode = OP, i30 = 0, i25 = 1, funct3 < 4
  PROVE  Known /\ Result = Product[funct3]
<1>1. MUL
  BY DEF MUL, Register
<1> QED BY <1>1, Arms, Multiplies DEF Known

-----------------------------------------------------------------------------
AluInv == InputsOK /\ TypeOK /\ Correct

LEMMA AluInit == Init => AluInv
<1> SUFFICES ASSUME Init PROVE AluInv
  OBVIOUS
<1>1. imm \in Word /\ rs2 \in Word
  BY AluAssumption DEF Init
<1> QED BY <1>1, Zeros DEF Init, AluInv, InputsOK, TypeOK, Correct

LEMMA AluStep == AluInv /\ [Next]_vars => AluInv'
<1> SUFFICES ASSUME AluInv, [Next]_vars PROVE AluInv'
  OBVIOUS
<1>1. CASE Evaluate
  <2>1. /\ InputsOK /\ UNCHANGED <<i30, i25, funct3, opcode, imm, rs1, rs2>>
        /\ fault' = ~Known /\ rd' = Result
    BY <1>1 DEF Evaluate, inputs, AluInv
  <2>2. InputsOK'
    BY <2>1 DEF InputsOK
  <2>3. TypeOK'
    BY <2>1, ResultType DEF TypeOK
  <2>4. Base' = Base /\ Alternate' = Alternate /\ Product' = Product
    BY <2>1 DEF Base, Alternate, Product, Operand, Amount
  <2>5. BaseInstruction => ~fault' /\ rd' = Base'[funct3']
    BY <2>1, <2>4, Bases
  <2>6. i30 = 1 /\ i25 = 0 /\ ((opcode = OP /\ funct3 = 0) \/ funct3 = 5) =>
          ~fault' /\ rd' = Alternate'[funct3']
    BY <2>1, <2>4, Alternates
  <2>7. opcode = OP /\ i30 = 0 /\ i25 = 1 /\ funct3 < 4 => ~fault' /\ rd' = Product'[funct3']
    BY <2>1, <2>4, Products
  <2>8. Correct'
    BY <2>1, <2>5, <2>6, <2>7 DEF Correct, BaseInstruction
  <2> QED BY <2>2, <2>3, <2>8 DEF AluInv
<1>2. CASE Change
  BY <1>2, Zeros DEF Change, Unsettled, AluInv, InputsOK, TypeOK, Correct
<1>3. CASE UNCHANGED vars
  <2>1. UNCHANGED <<i30, i25, funct3, opcode, imm, rs1, rs2, rd, fault, settled>>
    BY <1>3 DEF vars, inputs
  <2>2. Base' = Base /\ Alternate' = Alternate /\ Product' = Product
    BY <2>1 DEF Base, Alternate, Product, Operand, Amount
  <2> QED BY <2>1, <2>2 DEF AluInv, InputsOK, TypeOK, Correct
<1> QED BY <1>1, <1>2, <1>3 DEF Next

(***************************************************************************)
(* The outputs of the unit keep their width, whatever it is given.         *)
(***************************************************************************)
THEOREM TypeCorrect == Spec => []TypeOK
<1>1. AluInv => TypeOK
  BY DEF AluInv
<1> QED BY <1>1, AluInit, AluStep, PTL DEF Spec

(***************************************************************************)
(* Every register and immediate arithmetic instruction of RV32I and every  *)
(* multiplication of RV32M has its result, on words of every width         *)
(* (risc-v-alu-l.v 220-348).                                               *)
(***************************************************************************)
THEOREM AluCorrect == Spec => []Correct
<1>1. AluInv => Correct
  BY DEF AluInv
<1> QED BY <1>1, AluInit, AluStep, PTL DEF Spec
=============================================================================
