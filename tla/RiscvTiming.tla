----------------------------- MODULE RiscvTiming -----------------------------
(***************************************************************************)
(* How long things take.  Three history variables watch the core and never *)
(* influence it: what the core is busy with, for how many edges, and for   *)
(* how many edges an enabled request has been kept waiting.                *)
(***************************************************************************)
EXTENDS RiscvCoreSafety

VARIABLES activity, cycles, waiting

timing  == <<activity, cycles, waiting>>
allvars == <<vars, timing>>

(* Both counters stop here; every time claimed below is shorter. *)
MaxCycles == 5
Tick(n) == IF n < MaxCycles THEN n + 1 ELSE n

(* A request the next slot must take. *)
Requested == ~rst_i /\ int_sig # {} /\ MIE(reg_mstatus)

TimedInit == Init /\ activity = "RESET" /\ cycles = 0 /\ waiting = 0

Observe ==
  /\ activity' = CASE rst_i          -> "RESET"
                   [] AtSlot         -> IF InterruptTaken THEN "INTERRUPT" ELSE Decode(Fetched).op
                   [] ~rst_i /\ activity = "BRANCH" /\ stage_cnt = 1 /\ Taken(REG, I) -> "TAKEN"
                   [] OTHER          -> activity
  /\ cycles' = IF rst_i THEN 0 ELSE IF AtSlot THEN 1 ELSE Tick(cycles)
  /\ waiting' = IF Requested THEN Tick(waiting) ELSE 0

TimedNext == Next /\ Observe

TimedSpec == TimedInit /\ [][TimedNext]_allvars /\ WF_allvars(~rst_i /\ TimedNext)

-----------------------------------------------------------------------------
(***************************************************************************)
(* README.md 11 and 13 give the cycles of every instruction; jalr, which   *)
(* waits a cycle for its base register, takes three, one more than the     *)
(* "non conditional jumps that need two clock cycles" of line 11.          *)
(***************************************************************************)
Documented(what) ==
  CASE what = "LOAD"                  -> IF SINGLE_BUS THEN 3 ELSE 2
    [] what = "STORE"                 -> IF SINGLE_BUS THEN 3 ELSE 1
    [] what \in {"JAL", "MRET", "BRANCH", "INTERRUPT"} -> 2
    [] what \in {"TAKEN", "JALR"}     -> 3
    [] OTHER                          -> 1

(***************************************************************************)
(* Each instruction and each interrupt entry keeps the core exactly as     *)
(* long as documented, whatever came before it and wherever the interrupt  *)
(* fell (risc-v-v2.v 279-388).                                             *)
(***************************************************************************)
TimingAsDocumented ==
  AtSlot /\ activity # "RESET" =>
    cycles = IF VECTOR_INT_TABLE_SIZE = 0 /\ activity = "MRET" THEN 1 ELSE Documented(activity)

(***************************************************************************)
(* An enabled request is taken at the third edge that sees it, at the      *)
(* latest, whatever the program does: no loop of jumps and loads keeps     *)
(* missing the slots where interrupts are taken (risc-v-v2.v 297-299).     *)
(***************************************************************************)
LatencyBounded == waiting <= 3

(***************************************************************************)
(* A request is served unless the program masks interrupts or the board    *)
(* resets the core.                                                        *)
(***************************************************************************)
RequestServed == Requested ~> (enter_interrupt \/ rst_i \/ ~MIE(reg_mstatus))

(***************************************************************************)
(* A handler that ends in mret gives interrupts back: whatever requests    *)
(* arrive while it runs, MIE is set again (risc-v-v2.v 321-327).           *)
(***************************************************************************)
HandlerReturns == enter_interrupt ~> (MIE(reg_mstatus) \/ rst_i)
=============================================================================
