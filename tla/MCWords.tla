------------------------------ MODULE MCWords ------------------------------
(***************************************************************************)
(* Words of four lanes for TLC: a lane has four values instead of 256.     *)
(***************************************************************************)
EXTENDS RiscvArch

Lane == 4
LoadSize(f) == CASE f \in {"LB", "LBU"} -> Lane [] f \in {"LH", "LHU"} -> Lane * Lane [] OTHER -> WordSize
MCNarrow(f, w) ==
  LET size == LoadSize(f)
      low  == w % size
  IN CASE f \in {"LB", "LH"} /\ low >= size \div 2 -> WordSize - size + low
       [] f = "L_undefined" -> 0
       [] OTHER -> low
MCMerge(f, l, old, v) ==
  LET size  == CASE f = "SB" -> Lane [] f = "SH" -> Lane * Lane [] OTHER -> WordSize
      place == CASE f = "SW" -> 1 [] f = "SH" /\ l = 2 -> Lane * Lane
                 [] f = "SB" -> Lane ^ l [] OTHER -> 1
      kept  == old - ((old \div place) % size) * place
  IN IF f = "S_undefined" \/ (f = "SH" /\ l % 2 = 1) THEN old
     ELSE kept + (v % size) * place
============================================================================
