------------------------------- MODULE MCAlu -------------------------------
(***************************************************************************)
(* Words of four bits: all pairs of rs1 and an operand; the operand that   *)
(* an instruction does not use is there with another value.                *)
(***************************************************************************)
EXTENDS RiscvAlu, Bitwise

MCPower(n)  == 2 ^ n
MCXor(a, b) == a ^^ b
MCOr(a, b)  == a | b
MCAnd(a, b) == a & b

MCSeconds == Word \X {10} \cup {5} \X Word
=============================================================================
