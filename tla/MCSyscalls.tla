----------------------------- MODULE MCSyscalls -----------------------------
(***************************************************************************)
(* Addresses of eight bits and a heap of eighty of them, every increment a *)
(* program can ask for; codes with both kinds of digit and both signs.     *)
(***************************************************************************)
EXTENDS RiscvSyscalls

MCTexts      == {<<65>>, <<LF, 65>>, <<>>}
MCCodes      == {0, 1, 26, 90, -1, -86}
MCIncrements == {-128, -120, -40, 0, 40, 81, 127}
MCPlace(n)   == 16 ^ n
MCMessage    == <<LF, 58>>
=============================================================================
