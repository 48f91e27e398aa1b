------------------------------ MODULE MCMemory ------------------------------
(***************************************************************************)
(* Two cells of ram, three of rom, lanes of four values.  The word stored  *)
(* has a different value in every lane.  The first cell of the ram is      *)
(* written in every way, the second, which nothing clears, as a word.      *)
(***************************************************************************)
EXTENDS RiscvMemory, MCWords, Bitwise

WordOr(a, b) == a | b

MCRom == [c \in RomCells |-> 85 * c + 1]

MCInst == [op |-> "NOP", f |-> "", rd |-> 0, rs1 |-> 0, rs2 |-> 0, imm |-> 0]
MCDecode(w) == MCInst
MCAlu(inst, a, b) == 0

Pattern == 3 + 4 * (2 + 4 * (1 + 4 * 3))

Request(op, addrs, values) == [op : {op}, addr : addrs, data : values]
MCRequests ==
  Request("READ", {0, 32, 37, 68, 72}, {0})
  \cup Request("SB", 32 .. 35, {Pattern})
  \cup Request("SH", 32 .. 34, {Pattern})
  \cup Request("SW", {0, 32, 36, 68}, {Pattern}) \cup Request("SW", {32}, {0})
=============================================================================
