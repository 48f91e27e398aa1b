----------------------------- MODULE RiscvSystem -----------------------------
(***************************************************************************)
(* The clock-level core running an application and its interrupt handler,  *)
(* from power-up to the next reset: RiscvCore, with the history variable   *)
(* of RiscvHandler.  suspended remembers what each interrupt in progress   *)
(* interrupted, as the programmer saw it at the edge that dropped the      *)
(* instruction; nothing of the core depends on it.                         *)
(***************************************************************************)
EXTENDS RiscvCoreSafety, RiscvCode

VARIABLE suspended    \* of each interrupt in progress, innermost first: pc and registers

allvars == <<vars, suspended>>

SystemInit == Init /\ suspended = <<>>

Interrupt ==
  /\ EnterInterrupt
  /\ suspended' = <<[pc |-> PcAbs, regs |-> RegsAbs]>> \o suspended

Return ==
  /\ IssueMret
  /\ suspended' = IF suspended = <<>> THEN <<>> ELSE Tail(suspended)

Work ==
  /\ Next /\ ~EnterInterrupt /\ ~IssueMret
  /\ UNCHANGED suspended

(***************************************************************************)
(* The first request comes long after _entry has set the stack pointer:    *)
(* the timer of the examples needs 16000 clocks.                           *)
(***************************************************************************)
Quiet == int_sig # {} => RegsAbs[sp] # 0

(* The reset input falls once, at the end of the power-up reset. *)
StaysUp == ~rst_i => ~rst_i'

SystemNext == (Interrupt \/ Return \/ Work) /\ StaysUp /\ Quiet'

(* As in RiscvCore, the clock runs for as long as reset is off. *)
SystemSpec ==
  SystemInit /\ [][SystemNext]_allvars /\ WF_allvars(~rst_i /\ SystemNext)

-----------------------------------------------------------------------------
(***************************************************************************)
(* The edge that executes mret takes the core back to the instruction the  *)
(* interrupt dropped, with every register as the interrupted program would *)
(* have read it there: whatever was in flight when the request came, a     *)
(* jump, a load or a write not yet in the register file included           *)
(* (risc-v-v2.v 297-327 under riscv_hal.h 12-94).                          *)
(***************************************************************************)
ResumesInterrupted ==
  [][ Return => /\ suspended # <<>>
                /\ PcAbs' = Head(suspended).pc
                /\ RegsAbs = Head(suspended).regs ]_allvars

(***************************************************************************)
(* From the entry of an interrupt to its mret, and at no other edge,       *)
(* interrupts are masked, a store to mstatus on its way included           *)
(* (risc-v-v2.v 299-327).                                                  *)
(***************************************************************************)
MaskedWhileHandled == Len(suspended) <= 1 /\ (MIE(MstatusAbs) <=> suspended = <<>>)

(***************************************************************************)
(* Every interrupt that is entered ends: no jump, hold or dropped word     *)
(* takes the pipeline anywhere but through the handler to its mret         *)
(* (risc-v-v2.v 297-388 under riscv_hal.h 56-94).                          *)
(***************************************************************************)
HandlerEnds == (suspended # <<>>) ~> (suspended = <<>>)

-----------------------------------------------------------------------------
Handler == INSTANCE RiscvHandler WITH
             pc <- PcAbs, regs <- RegsAbs, mem <- MemAbs,
             rip <- RipAbs, mstatus <- MstatusAbs, mcause <- reg_mcause,
             MaxNesting <- 1

(***************************************************************************)
(* Whatever is in flight, every edge of the core is a step of the machine  *)
(* RiscvHandler describes, or nothing of it (risc-v-v2.v 192-388 under     *)
(* riscv_hal.h 12-94).                                                     *)
(***************************************************************************)
ImplementsHandler == Handler!HInit /\ [][Handler!HNext]_(Handler!allvars)
=============================================================================
