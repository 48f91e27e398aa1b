---------------------------- MODULE MCRegisters ----------------------------
(***************************************************************************)
(* The timed core with the registered reads beside it, for liveness: loops *)
(* whose operands were just written, loaded or linked, and handlers that   *)
(* always end in mret.                                                     *)
(***************************************************************************)
EXTENDS MCTiming, RiscvRegs

LivePrograms == {Image(<<5, 15, 12>>, <<4>>), Image(<<6, 14>>, <<15, 17, 4>>),
                 Image(<<6, 17, 24>>, <<4>>), Image(<<7, 16, 9, 17>>, <<4>>)}

livevars == <<allvars, ports>>
LiveNext == TimedNext /\ ReadPorts
LiveSpec ==
  /\ TimedInit /\ RegsInit
  /\ [][LiveNext]_livevars
  /\ WF_livevars(~rst_i /\ LiveNext)
=============================================================================
