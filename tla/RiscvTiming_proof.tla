-------------------------- MODULE RiscvTiming_proof --------------------------
(***************************************************************************)
(* Proofs about how long things take, from the invariants of the core, and *)
(* that a core with registered reads sees the operands of one that reads   *)
(* on demand.                                                              *)
(***************************************************************************)
EXTENDS RiscvTiming, RiscvRegs, RiscvCore_proof

(* Cycles of an activity, and of one that still has to drop a word. *)
Cost(what) ==
  IF VECTOR_INT_TABLE_SIZE = 0 /\ what = "MRET" THEN 1 ELSE Documented(what)

(***************************************************************************)
(* Where the core is in what it does, and how many cycles that has taken.  *)
(* Which activity leads to which stage is the shape of the pipeline.       *)
(***************************************************************************)
Progress ==
  IF activity = "RESET"
    THEN stage_cnt = 0 /\ ~skip_execution /\ ~enter_interrupt
    ELSE /\ stage_cnt = 0 /\ ~skip_execution => cycles = Cost(activity)
         /\ stage_cnt = 0 /\ skip_execution  => cycles = Cost(activity) - 1
         /\ stage_cnt = 1 => /\ cycles = 1
                             /\ activity = IF enter_interrupt THEN "INTERRUPT" ELSE I.op
         /\ stage_cnt = 2 => cycles = 2 /\ activity = I.op

(* A request has waited no longer than the way to the next slot leaves. *)
OnTime ==
  /\ waiting \in 0 .. 3
  /\ Requested =>
       /\ waiting <= 2
       /\ stage_cnt = 1 => waiting = 0
       /\ stage_cnt = 2 \/ skip_execution => waiting <= 1

TimingInv == IInv /\ Progress

-----------------------------------------------------------------------------
LEMMA ProgressStep ==
  ASSUME IInv, Progress, TimedNext
  PROVE  Progress'
<1> USE DEF Resting, Holding, AtSlot, Cost, Documented
<1>a. Next /\ Observe
  BY DEF TimedNext
<1>b. /\ rst_i => activity' = "RESET" /\ cycles' = 0
      /\ AtSlot => cycles' = 1 /\ activity' = IF InterruptTaken THEN "INTERRUPT" ELSE Decode(Fetched).op
      /\ ~rst_i /\ ~AtSlot =>
           /\ cycles' = Tick(cycles)
           /\ activity' = IF activity = "BRANCH" /\ stage_cnt = 1 /\ Taken(REG, I)
                            THEN "TAKEN" ELSE activity
  <2>1. CASE rst_i
    <3>1. rst_i = TRUE
      BY <2>1 DEF IInv, TypeOK
    <3>2. activity' = "RESET"
      BY <1>a, <3>1 DEF Observe
    <3>3. cycles' = 0
      BY <1>a, <3>1 DEF Observe
    <3> QED BY <2>1, <3>2, <3>3
  <2>2. CASE ~rst_i /\ AtSlot
    BY <1>a, <2>2 DEF Observe
  <2>3. CASE ~rst_i /\ ~AtSlot
    <3>1. CASE activity = "BRANCH" /\ stage_cnt = 1 /\ Taken(REG, I)
      BY <1>a, <2>3, <3>1 DEF Observe
    <3>2. CASE ~(activity = "BRANCH" /\ stage_cnt = 1 /\ Taken(REG, I))
      BY <1>a, <2>3, <3>2 DEF Observe
    <3> QED BY <3>1, <3>2
  <2> QED BY <2>1, <2>2, <2>3
<1>c. ~rst_i /\ ~AtSlot /\ cycles \in 0 .. 2 => cycles' = cycles + 1
  BY <1>b DEF Tick, MaxCycles
<1>1. CASE rst_i /\ Resting(FALSE)
  BY <1>1, <1>b DEF Progress
<1>2. CASE AtSlot /\ InterruptTaken /\ stage_cnt' = 1 /\ skip_execution' /\ enter_interrupt'
  BY <1>2, <1>b DEF Progress
<1>3. CASE ~rst_i /\ stage_cnt = 0 /\ skip_execution /\ Resting(FALSE)
  BY <1>3, <1>b, <1>c DEF Progress
<1>4. CASE Latched(OneCycle) /\ Resting(FALSE)
  BY <1>4, <1>b DEF Progress, Latched, OneCycle
<1>5. CASE Latched({"MRET"}) /\ VECTOR_INT_TABLE_SIZE # 0 /\ Resting(TRUE)
  BY <1>5, <1>b DEF Progress, Latched
<1>6. CASE Latched({"JAL"}) /\ Resting(TRUE)
  BY <1>6, <1>b DEF Progress, Latched
<1>7. CASE Latched(Held) /\ Holding(1)
  BY <1>7, <1>b DEF Progress, Latched, Held
<1>8. CASE Midway({"JALR"}) /\ Resting(TRUE)
  BY <1>8, <1>b, <1>c DEF Progress, Midway
<1>9. CASE Midway({"BRANCH"}) /\ Taken(REG, I) /\ Resting(TRUE)
  BY <1>9, <1>b, <1>c DEF Progress, Midway
<1>10. CASE Midway({"BRANCH"}) /\ ~Taken(REG, I) /\ Resting(FALSE)
  BY <1>10, <1>b, <1>c DEF Progress, Midway
<1>11. CASE SINGLE_BUS /\ Midway({"LOAD", "STORE"}) /\ Holding(2)
  BY <1>11, <1>b, <1>c DEF Progress, Midway
<1>12. CASE ~SINGLE_BUS /\ Midway({"LOAD"}) /\ Resting(FALSE)
  BY <1>12, <1>b, <1>c DEF Progress, Midway
<1>13. CASE ~rst_i /\ stage_cnt = 1 /\ enter_interrupt /\ Resting(FALSE)
  BY <1>13, <1>b, <1>c DEF Progress
<1>14. CASE ~rst_i /\ stage_cnt = 2 /\ I.op \in {"LOAD", "STORE"} /\ SINGLE_BUS /\ Resting(FALSE)
  BY <1>14, <1>b, <1>c DEF Progress
<1>15. Next
  BY <1>a
<1> HIDE DEF Resting, Holding, AtSlot, Cost, Documented
<1> QED BY <1>15, <1>1, <1>2, <1>3, <1>4, <1>5, <1>6, <1>7, <1>8, <1>9, <1>10, <1>11, <1>12, <1>13,
           <1>14, Edges, ZenonT(60)

(* A disciplined program is interrupted with interrupts masked. *)
LEMMA EntryMasks ==
  ASSUME IInv, Disciplined, Next, enter_interrupt'
  PROVE  ~MIE(reg_mstatus')
<1>1. EnterInterrupt
  BY DEF Next, ResetEdge, Skip, IssueSimple, IssueMret, IssueJal, IssueHold, JalrJump,
         ResolveBranch, AccessMemory, Advance, Issue, Continue, Running
<1>2. ~SysStore(REG_MSTATUS)
  BY <1>1 DEF EnterInterrupt, Disciplined, SysStore, data_wr
<1>3. reg_mstatus' = ClearMIE(reg_mstatus)
  BY <1>1, <1>2 DEF EnterInterrupt, StoredMstatus
<1> QED BY <1>3, MIEBit DEF IInv, TypeOK

LEMMA OnTimeStep ==
  ASSUME IInv, OnTime, Disciplined, TimedNext
  PROVE  OnTime'
<1> USE DEF Resting, Holding, AtSlot
<1>a. Next /\ waiting' = IF Requested THEN Tick(waiting) ELSE 0
  BY DEF TimedNext, Observe
<1>b. waiting \in 0 .. 3
  BY DEF OnTime
<1>c. Requested => ~rst_i /\ (~skip_execution => InterruptTaken)
  BY DEF Requested, InterruptTaken
<1>d. enter_interrupt' => ~Requested'
  BY <1>a, EntryMasks DEF Requested
<1>e. ~Requested => waiting' = 0
  BY <1>a
<1>f. Requested => waiting' = waiting + 1
  BY <1>a, <1>b DEF Tick, MaxCycles
<1>1. CASE rst_i
  BY <1>1, <1>c, <1>e DEF OnTime
<1>2. CASE AtSlot /\ InterruptTaken /\ stage_cnt' = 1 /\ skip_execution' /\ enter_interrupt'
  BY <1>2, <1>b, <1>d, <1>e, <1>f DEF OnTime
<1>3. CASE ~rst_i /\ stage_cnt = 0 /\ skip_execution /\ Resting(FALSE)
  BY <1>3, <1>b, <1>e, <1>f DEF OnTime
<1>4. CASE AtSlot /\ ~InterruptTaken
  BY <1>4, <1>c, <1>e DEF OnTime
<1>5. CASE ~rst_i /\ stage_cnt = 1 /\ ~enter_interrupt' /\ stage_cnt' # 1
  BY <1>5, <1>b, <1>e, <1>f DEF OnTime
<1>6. CASE ~rst_i /\ stage_cnt = 1 /\ enter_interrupt /\ Resting(FALSE)
  BY <1>6, <1>b, <1>e, <1>f DEF OnTime
<1>7. CASE ~rst_i /\ stage_cnt = 2 /\ I.op \in {"LOAD", "STORE"} /\ SINGLE_BUS /\ Resting(FALSE)
  BY <1>7, <1>b, <1>e, <1>f DEF OnTime
<1>8. \/ rst_i
      \/ AtSlot /\ InterruptTaken /\ stage_cnt' = 1 /\ skip_execution' /\ enter_interrupt'
      \/ ~rst_i /\ stage_cnt = 0 /\ skip_execution /\ Resting(FALSE)
      \/ AtSlot /\ ~InterruptTaken
      \/ ~rst_i /\ stage_cnt = 1 /\ ~enter_interrupt' /\ stage_cnt' # 1
      \/ ~rst_i /\ stage_cnt = 1 /\ enter_interrupt /\ Resting(FALSE)
      \/ ~rst_i /\ stage_cnt = 2 /\ I.op \in {"LOAD", "STORE"} /\ SINGLE_BUS /\ Resting(FALSE)
  <2>1. ASSUME NEW ops, Midway(ops), Resting(TRUE) \/ Resting(FALSE) \/ Holding(2)
        PROVE  ~rst_i /\ stage_cnt = 1 /\ ~enter_interrupt' /\ stage_cnt' # 1
    BY <2>1 DEF Midway
  <2>2. ASSUME NEW ops, Latched(ops) PROVE AtSlot /\ ~InterruptTaken
    BY <2>2 DEF Latched
  <2> HIDE DEF Resting, Holding, AtSlot
  <2> QED BY <1>a, <2>1, <2>2, Edges, Zenon
<1> QED BY <1>1, <1>2, <1>3, <1>4, <1>5, <1>6, <1>7, <1>8
-----------------------------------------------------------------------------
(* Watching changes nothing: what holds of the core holds of the timed one. *)
LEMMA TimedInvCorrect == TimedSpec => []TimingInv
<1>1. TimedInit => TimingInv
  <2> SUFFICES ASSUME TimedInit PROVE TimingInv
    OBVIOUS
  <2>1. IInv
    BY InvInit DEF TimedInit
  <2>2. Progress
    BY DEF TimedInit, Init, Progress
  <2> QED BY <2>1, <2>2 DEF TimingInv
<1>2. TimingInv /\ [TimedNext]_allvars => TimingInv'
  <2> SUFFICES ASSUME TimingInv, [TimedNext]_allvars PROVE TimingInv'
    OBVIOUS
  <2>1. [Next]_vars
    BY DEF TimedNext, allvars
  <2>2. IInv'
    BY <2>1, InvStep DEF TimingInv
  <2>3. CASE TimedNext
    BY <2>2, <2>3, ProgressStep DEF TimingInv
  <2>4. CASE UNCHANGED allvars
    <3>1. UNCHANGED <<activity, cycles, stage_cnt, skip_execution, enter_interrupt, instruction_latch>>
      BY <2>4 DEF allvars, vars, env, control, sysregs, datapath, timing
    <3>2. Progress'
      BY <3>1 DEF TimingInv, Progress, Cost, Documented, I
    <3> QED BY <2>2, <3>2 DEF TimingInv
  <2> QED BY <2>3, <2>4
<1> QED BY <1>1, <1>2, PTL DEF TimedSpec

(***************************************************************************)
(* Each instruction and each interrupt entry takes the cycles README.md 11 *)
(* and 13 give (jalr one more), with one bus or two, whatever came before  *)
(* it (risc-v-v2.v 279-388).                                               *)
(***************************************************************************)
THEOREM TimingAsDocumentedHolds == TimedSpec => []TimingAsDocumented
<1>1. TimingInv => TimingAsDocumented
  BY DEF TimingInv, Progress, TimingAsDocumented, Cost, AtSlot
<1> QED BY <1>1, TimedInvCorrect, PTL

(***************************************************************************)
(* An enabled request is taken at the third edge that sees it at the       *)
(* latest, however the program jumps, loads and masks interrupts           *)
(* (risc-v-v2.v 297-299).  With two buses the program has to be            *)
(* disciplined: a store to mstatus in flight at the entry of an interrupt  *)
(* would leave the request enabled under it.                               *)
(***************************************************************************)
THEOREM LatencyBoundedHolds == TimedSpec /\ []Disciplined => []LatencyBounded
<1>1. TimedInit => OnTime
  BY DEF TimedInit, Init, OnTime, Requested
<1>2. TimingInv /\ Disciplined /\ OnTime /\ [TimedNext]_allvars => OnTime'
  <2> SUFFICES ASSUME TimingInv, Disciplined, OnTime, [TimedNext]_allvars PROVE OnTime'
    OBVIOUS
  <2>1. CASE TimedNext
    BY <2>1, OnTimeStep DEF TimingInv
  <2>2. CASE UNCHANGED allvars
    BY <2>2 DEF allvars, vars, env, control, sysregs, timing, OnTime, Requested
  <2> QED BY <2>1, <2>2
<1>3. OnTime => LatencyBounded
  BY DEF OnTime, LatencyBounded
<1> QED BY <1>1, <1>2, <1>3, TimedInvCorrect, PTL DEF TimedSpec

(***************************************************************************)
(* With one bus, as in both examples, the bound holds for every program.   *)
(***************************************************************************)
THEOREM SingleBusLatencyBounded ==
  ASSUME SINGLE_BUS
  PROVE  TimedSpec => []LatencyBounded
<1>1. Disciplined
  BY DEF Disciplined
<1> QED BY <1>1, LatencyBoundedHolds, PTL

(***************************************************************************)
(* With two it holds for every program that executes no store to mstatus   *)
(* or the return pointer and none that rewrites the code just behind it.   *)
(***************************************************************************)
THEOREM HarmlessLatencyBounded ==
  TimedSpec /\ [](~SINGLE_BUS => ISA!StoreHarmless) => []LatencyBounded
<1>1. TimedInit => Init
  BY DEF TimedInit
<1>2. [TimedNext]_allvars => [Next]_vars
  BY DEF TimedNext, allvars
<1> QED BY <1>1, <1>2, HarmlessDisciplined, LatencyBoundedHolds, PTL DEF TimedSpec

-----------------------------------------------------------------------------
(***************************************************************************)
(* The ports give what the registers they were asked for hold now: this is *)
(* what forwarding is for, and it is true at every edge.                   *)
(***************************************************************************)
PortsFresh ==
  /\ rs1a_del \in Regs /\ rs2a_del \in Regs
  /\ Port(rs1a_del, rs1_int) = X(REG, rs1a_del)
  /\ Port(rs2a_del, rs2_int) = X(REG, rs2a_del)

(* They were asked for the registers of the instruction that looks at them. *)
PortsMatch == UsesOperands => rs1a_del = I.rs1 /\ rs2a_del = I.rs2

RegsInv == IInv /\ PortsFresh /\ PortsMatch

-----------------------------------------------------------------------------
LEMMA PortsFreshStep ==
  ASSUME IInv, RegsNext
  PROVE  PortsFresh'
<1>1. ReadPorts /\ Datapath
  BY EveryStepIsAnEdge DEF RegsNext, Edge
<1>2. Fetched \in Word /\ REG \in [Regs -> Word] /\ instruction_latch \in Word
  BY DEF IInv, TypeOK, Fetched
<1>3. rs1a \in Regs /\ rs2a \in Regs /\ I.rd \in Regs
  BY <1>2, DecodeType DEF rs1a, rs2a, I, Inst
<1>4. REG' = IF rdw THEN [REG EXCEPT ![I.rd] = rd] ELSE REG
  BY <1>1 DEF Datapath
<1>5. ASSUME NEW a \in Regs
      PROVE  (IF a = 0 THEN 0 ELSE IF a = rda_del' /\ rdw_del' THEN rd_del' ELSE REG[a]) = X(REG', a)
  <2>1. CASE rdw
    BY <1>1, <1>2, <1>3, <1>4, <2>1 DEF ReadPorts, X
  <2>2. CASE ~rdw
    BY <1>1, <1>2, <1>4, <2>2 DEF ReadPorts, X
  <2> QED BY <2>1, <2>2
<1>6. /\ rs1a_del' = rs1a /\ rs2a_del' = rs2a
      /\ rs1_int' = REG[rs1a] /\ rs2_int' = REG[rs2a]
  BY <1>1 DEF ReadPorts
<1> QED BY <1>3, <1>5, <1>6 DEF PortsFresh, Port

LEMMA PortsMatchStep ==
  ASSUME IInv, IInv', RegsNext
  PROVE  PortsMatch'
<1>1. ReadPorts /\ Datapath /\ Next
  BY EveryStepIsAnEdge DEF RegsNext, Edge
<1>2. SUFFICES ASSUME UsesOperands'
               PROVE  instruction_latch' = Fetched
  BY <1>1 DEF PortsMatch, ReadPorts, rs1a, rs2a, I
<1>3. /\ stage_cnt_latch' = stage_cnt /\ skip_execution_latch' = skip_execution
      /\ ~enter_interrupt' /\ ~skip_execution
  BY <1>1, <1>2 DEF Datapath, UsesOperands, Drives
<1>4. CASE AtSlot
  <2>1. EnterInterrupt \/ IssueSimple \/ IssueMret \/ IssueJal \/ IssueHold
    <3>1. ~ResetEdge /\ ~Skip /\ ~Advance
      BY <1>4 DEF AtSlot, ResetEdge, Skip, Advance
    <3>2. ~JalrJump /\ ~ResolveBranch /\ ~AccessMemory
      BY <1>4 DEF AtSlot, JalrJump, ResolveBranch, AccessMemory, Continue
    <3> QED BY <1>1, <3>1, <3>2 DEF Next
  <2> QED BY <2>1 DEF EnterInterrupt, IssueSimple, IssueMret, IssueJal, IssueHold, Issue
<1>5. CASE rst_i
  <2>1. I'.op = "NOP"
    BY <1>1, <1>5, OperatorsAssumption
       DEF Next, ResetEdge, EnterInterrupt, Skip, IssueSimple, IssueMret, IssueJal,
           IssueHold, Issue, JalrJump, ResolveBranch, AccessMemory, Continue, Advance, Running, I
  <2> QED BY <1>2, <2>1 DEF UsesOperands
<1>6. CASE ~rst_i /\ stage_cnt # 0
  <2>1. stage_cnt' = 0 \/ stage_cnt' = 2
    BY <1>1, <1>3, <1>6, Edges DEF Resting, Holding, Latched, Midway, AtSlot
  <2>2. I' = I
    BY <1>1, <1>6
       DEF Next, ResetEdge, EnterInterrupt, Skip, IssueSimple, IssueMret, IssueJal,
           IssueHold, Issue, JalrJump, ResolveBranch, AccessMemory, Continue, Advance, Running, I
  <2>3. I.op = "STORE" /\ ~SINGLE_BUS
    BY <1>2, <1>3, <1>6, <2>1, <2>2 DEF UsesOperands, StorePhase
  <2> QED BY <1>3, <1>6, <2>3 DEF IInv, TypeOK, PipelineShape
<1> QED BY <1>1, <1>3, <1>4, <1>5, <1>6 DEF AtSlot

LEMMA RegsInvCorrect == RegsSpec => []RegsInv
<1>1. RegsInit => RegsInv
  <2> SUFFICES ASSUME RegsInit PROVE RegsInv
    OBVIOUS
  <2>1. IInv
    BY InvInit DEF RegsInit
  <2>2. PortsFresh
    BY SizesAssumption DEF RegsInit, PortsFresh, Port, X
  <2>3. I.op = "NOP"
    BY OperatorsAssumption DEF RegsInit, Init, I
  <2> QED BY <2>1, <2>2, <2>3 DEF RegsInv, PortsMatch, UsesOperands
<1>2. RegsInv /\ [RegsNext]_regsvars => RegsInv'
  <2> SUFFICES ASSUME RegsInv, [RegsNext]_regsvars PROVE RegsInv'
    OBVIOUS
  <2>1. IInv'
    BY InvStep DEF RegsInv, RegsNext, regsvars
  <2>2. CASE RegsNext
    BY <2>1, <2>2, PortsFreshStep, PortsMatchStep DEF RegsInv
  <2>3. CASE UNCHANGED regsvars
    BY <2>1, <2>3 DEF regsvars, ports, vars, env, control, sysregs, datapath, RegsInv, PortsFresh,
                      PortsMatch, UsesOperands, Drives, Port, I
  <2> QED BY <2>2, <2>3
<1> QED BY <1>1, <1>2, PTL DEF RegsSpec

(***************************************************************************)
(* With one bus or two, for every program, registered reads (reg.v 69-83)  *)
(* give the core the operands that reads on demand give it, so the core    *)
(* behaves the same with either register file.                             *)
(***************************************************************************)
THEOREM OperandsAgreeHolds == RegsSpec => []OperandsAgree
<1>1. RegsInv => OperandsAgree
  BY DEF RegsInv, PortsFresh, PortsMatch, OperandsAgree, rs1, rs2
<1> QED BY <1>1, RegsInvCorrect, PTL
=============================================================================
