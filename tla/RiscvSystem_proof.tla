-------------------------- MODULE RiscvSystem_proof --------------------------
(***************************************************************************)
(* What RiscvHandler promises of the handler on the instruction-level      *)
(* machine holds of the clock-level core, with one bus or two: an edge of  *)
(* the system is a step of the handler's machine, or nothing to it.  The   *)
(* invariants of the core and of the handler each need the other: with two *)
(* buses the core is only the machine the handler runs on because the      *)
(* stores of the handler are harmless.  As there, the program keeps its    *)
(* contract with the frame: ProgramBehaves, of what the programmer sees.   *)
(***************************************************************************)
EXTENDS RiscvSystem, RiscvCore_proof

H == INSTANCE RiscvHandler_proof WITH
       pc <- PcAbs, regs <- RegsAbs, mem <- MemAbs,
       rip <- RipAbs, mstatus <- MstatusAbs, mcause <- reg_mcause,
       MaxNesting <- 1

(***************************************************************************)
(* The memory holds the vectors, the prologue and epilogue of the examples *)
(* and _entry, and any handler body and application, on a core built with  *)
(* interrupt inputs.  With two buses the words behind the code are fetched *)
(* before it is known that they are not executed, and are not RAM.         *)
(***************************************************************************)
HandlerProgram ==
  /\ H!HandlerAssumption
  /\ VECTOR_INT_TABLE_SIZE # 0
  /\ SINGLE_BUS \/ H!EndKept

-----------------------------------------------------------------------------
(* The handler's machine is the machine of the core.                       *)

LEMMA MachineAssumptions == H!SizesAssumption /\ H!OperatorsAssumption
<1>1. H!SizesAssumption
  BY SizesAssumption DEF H!SizesAssumption, H!Addr, Addr, H!Byte, Byte, H!WordIdx, WordIdx, H!NWords, NWords
<1>2. H!OperatorsAssumption
  BY OperatorsAssumption DEF H!OperatorsAssumption, H!Word, Word, H!Inst, Inst, H!Ops, Ops,
       H!Instructions, Instructions
<1> QED BY <1>1, <1>2

LEMMA SameState ==
  (H!Init <=> ISA!Init) /\ (H!StoreHarmless <=> ISA!StoreHarmless)
<1>1. H!Init <=> ISA!Init
  BY DEF H!Init, ISA!Init, H!MIE_bit, ISA!MIE_bit
<1>2. H!StoreHarmless <=> ISA!StoreHarmless
  BY DEF H!StoreHarmless, ISA!StoreHarmless, H!Inst_, ISA!Inst_, H!WordOf, ISA!WordOf,
         H!EffAddr, ISA!EffAddr, H!X, ISA!X, H!Plus, ISA!Plus, H!StoreAt, ISA!StoreAt,
         H!REG_MSTATUS, ISA!REG_MSTATUS, H!REG_RIP, ISA!REG_RIP
<1> QED BY <1>1, <1>2

LEMMA SameActions ==
  /\ (H!Simple <=> ISA!Simple) /\ (H!Load <=> ISA!Load) /\ (H!Store <=> ISA!Store)
  /\ (H!Branch <=> ISA!Branch) /\ (H!Jump <=> ISA!Jump) /\ (H!Mret <=> ISA!Mret)
  /\ \A s : H!TakeInterrupt(s) <=> ISA!TakeInterrupt(s)
<1> USE DEF H!Inst_, ISA!Inst_, H!WordOf, ISA!WordOf, H!X, ISA!X, H!Plus, ISA!Plus,
            H!EffAddr, ISA!EffAddr, H!WriteReg, ISA!WriteReg
<1>1. H!Simple <=> ISA!Simple
  BY DEF H!Simple, ISA!Simple
<1>2. H!Load <=> ISA!Load
  BY DEF H!Load, ISA!Load, H!LoadValues, ISA!LoadValues, H!IsSysAddr, ISA!IsSysAddr,
         H!REG_MSTATUS, ISA!REG_MSTATUS, H!REG_RIP, ISA!REG_RIP, H!REG_MCAUSE, ISA!REG_MCAUSE,
         H!Word, ISA!Word
<1>3. H!Store <=> ISA!Store
  BY DEF H!Store, ISA!Store, H!StoreAt, ISA!StoreAt, H!REG_MSTATUS, ISA!REG_MSTATUS,
         H!REG_RIP, ISA!REG_RIP
<1>4. H!Branch <=> ISA!Branch
  BY DEF H!Branch, ISA!Branch, H!Taken, ISA!Taken, H!Signed, ISA!Signed
<1>5. H!Jump <=> ISA!Jump
  BY DEF H!Jump, ISA!Jump, H!JalrTarget, ISA!JalrTarget
<1>6. H!Mret <=> ISA!Mret
  BY DEF H!Mret, ISA!Mret, H!SetMIE, ISA!SetMIE, H!MIE, ISA!MIE, H!MIE_bit, ISA!MIE_bit
<1>7. \A s : H!TakeInterrupt(s) <=> ISA!TakeInterrupt(s)
  BY DEF H!TakeInterrupt, ISA!TakeInterrupt, H!ClearMIE, ISA!ClearMIE, H!MIE, ISA!MIE,
         H!MIE_bit, ISA!MIE_bit
<1> QED BY <1>1, <1>2, <1>3, <1>4, <1>5, <1>6, <1>7

(* And so is the one that ImplementsHandler names.                         *)
LEMMA SameHandler ==
  /\ H!HInit <=> Handler!HInit
  /\ H!HNext <=> Handler!HNext
  /\ H!allvars = Handler!allvars
<1> USE DEF H!Inst_, Handler!Inst_, H!WordOf, Handler!WordOf, H!X, Handler!X, H!Plus, Handler!Plus,
            H!EffAddr, Handler!EffAddr, H!WriteReg, Handler!WriteReg
<1>1. (H!Simple <=> Handler!Simple) /\ (H!Branch <=> Handler!Branch) /\ (H!Jump <=> Handler!Jump)
  BY DEF H!Simple, Handler!Simple, H!Branch, Handler!Branch, H!Taken, Handler!Taken,
         H!Signed, Handler!Signed, H!Jump, Handler!Jump, H!JalrTarget, Handler!JalrTarget
<1>2. H!Load <=> Handler!Load
  BY DEF H!Load, Handler!Load, H!LoadValues, Handler!LoadValues, H!IsSysAddr, Handler!IsSysAddr,
         H!REG_MSTATUS, Handler!REG_MSTATUS, H!REG_RIP, Handler!REG_RIP,
         H!REG_MCAUSE, Handler!REG_MCAUSE, H!Word, Handler!Word
<1>3. H!Store <=> Handler!Store
  BY DEF H!Store, Handler!Store, H!StoreAt, Handler!StoreAt, H!REG_MSTATUS, Handler!REG_MSTATUS,
         H!REG_RIP, Handler!REG_RIP
<1>4. H!Return <=> Handler!Return
  BY DEF H!Return, Handler!Return, H!Mret, Handler!Mret, H!SetMIE, Handler!SetMIE, H!MIE, Handler!MIE,
         H!MIE_bit, Handler!MIE_bit
<1>5. \A s : H!Interrupt(s) <=> Handler!Interrupt(s)
  BY DEF H!Interrupt, Handler!Interrupt, H!sp, Handler!sp, H!TakeInterrupt, Handler!TakeInterrupt,
         H!ClearMIE, Handler!ClearMIE, H!MIE, Handler!MIE, H!MIE_bit, Handler!MIE_bit
<1>6. H!HNext <=> Handler!HNext
  BY <1>1, <1>2, <1>3, <1>4, <1>5
     DEF H!HNext, Handler!HNext, H!Continue, Handler!Continue, H!Sources, Handler!Sources
<1>7. H!HInit <=> Handler!HInit
  BY DEF H!HInit, Handler!HInit, H!Init, Handler!Init, H!MIE_bit, Handler!MIE_bit
<1>8. H!allvars = Handler!allvars
  BY DEF H!allvars, Handler!allvars, H!vars, Handler!vars
<1> QED BY <1>6, <1>7, <1>8

-----------------------------------------------------------------------------
(* The invariant of the system.                                            *)

(* Until reset ends for the first time, nothing has happened. *)
PowerUp == rst_i => rst_cnt >= 1 /\ MIE(reg_mstatus)

SystemInv == RInv /\ Unstale /\ Fresh /\ PowerUp /\ Quiet /\ H!HandlerInv

LEMMA SystemInitInv ==
  ASSUME HandlerProgram, SystemInit
  PROVE  SystemInv /\ H!HInit
<1>1. RInv /\ Unstale /\ Fresh /\ ISA!Init
  BY RInvInit, UnstaleInit, FreshInit, InitImplements DEF SystemInit
<1>2. PowerUp /\ Quiet
  BY DEF SystemInit, Init, PowerUp, Quiet, MIE, MIE_bit
<1>3. H!HInit
  BY <1>1, SameState DEF H!HInit, SystemInit
<1>4. H!HandlerInv
  BY <1>3, MachineAssumptions, H!HandlerInit DEF HandlerProgram
<1> QED BY <1>1, <1>2, <1>3, <1>4 DEF SystemInv

(* An edge of the power-up reset shows the programmer nothing. *)
LEMMA PowerUpEdge ==
  ASSUME RInv, Disciplined, PowerUp, ResetEdge
  PROVE  UNCHANGED ISA!vars /\ reg_mstatus' = reg_mstatus
<1>1. Next
  BY DEF Next
<1>2. rst_cnt >= 1 /\ MIE(reg_mstatus)
  BY DEF PowerUp, ResetEdge
<1>3. PC = RESET_VECTOR /\ stage_cnt = 0 /\ after_reset
  BY <1>2 DEF RInv, IInv, ResetShape
<1>4. I'.op = "NOP"
  BY OperatorsAssumption DEF ResetEdge, I
<1>5. Between /\ ~Retiring' /\ ~StoreInFlight'
  BY <1>3, <1>4 DEF Between, Retiring, rdw, StoreInFlight, data_wr
<1>6. PcAbs = RESET_VECTOR /\ PcAbs' = RESET_VECTOR
  BY <1>3 DEF ResetEdge, Sequence, PcAbs, FetchAhead
<1>7. reg_mstatus' = reg_mstatus /\ RIP' = RIP /\ reg_mcause' = reg_mcause
  BY <1>2 DEF ResetEdge, SetMIE
<1> QED BY <1>1, <1>5, <1>6, <1>7, QuietEdge DEF ISA!vars

(* Every edge of the system is a step of the handler's machine. *)
LEMMA SystemStep ==
  ASSUME HandlerProgram, SystemInv, SystemNext
  PROVE  [H!HNext]_(H!allvars)
<1>1. RInv /\ Unstale /\ Disciplined /\ PowerUp /\ Quiet /\ H!HandlerInv
  BY FreshDisciplined DEF SystemInv
<1>2. CASE Interrupt
  <2>1. reg_mcause' \in Sources /\ ISA!TakeInterrupt(reg_mcause')
    BY <1>1, <1>2, EnterImplements DEF Interrupt
  <2>2. H!TakeInterrupt(reg_mcause') /\ reg_mcause' \in H!Sources
    BY <2>1, SameActions DEF H!Sources, Sources
  <2>3. RegsAbs[sp] # 0
    BY <1>1, <1>2 DEF Interrupt, EnterInterrupt, InterruptTaken, Quiet
  <2>4. H!MIE(MstatusAbs)
    BY <2>2 DEF H!TakeInterrupt
  <2>5. suspended = <<>>
    BY <1>1, <2>4, MachineAssumptions, H!Masked DEF HandlerProgram, H!MaskedWhileHandled
  <2>6. H!Interrupt(reg_mcause')
    BY <1>2, <2>2, <2>3, <2>5 DEF Interrupt, H!Interrupt, sp, H!sp
  <2> QED BY <2>2, <2>6 DEF H!HNext
<1>3. CASE Return
  <2>1. H!Mret
    BY <1>1, <1>3, IssueMretImplements, SameActions DEF Return
  <2> QED BY <1>3, <2>1 DEF Return, H!Return, H!HNext
<1>4. CASE Work
  <2>1. CASE ResetEdge
    <3>1. UNCHANGED H!vars
      BY <1>1, <2>1, PowerUpEdge DEF H!vars, ISA!vars
    <3> QED BY <1>4, <3>1 DEF Work, H!allvars
  <2>2. CASE ~ResetEdge
    <3>1. Ordinary \/ UNCHANGED ISA!vars
      BY <1>1, <1>4, <2>2, WorkImplements DEF Work, Next, HandlerProgram
    <3>2. CASE Ordinary
      BY <1>4, <3>2, SameActions DEF Ordinary, Work, H!Continue, H!HNext
    <3>3. CASE UNCHANGED ISA!vars
      BY <1>4, <3>3 DEF Work, H!allvars, H!vars, ISA!vars
    <3> QED BY <3>1, <3>2, <3>3
  <2> QED BY <2>1, <2>2
<1> QED BY <1>2, <1>3, <1>4 DEF SystemNext

LEMMA SystemIsCore == SystemNext => Next
  BY DEF SystemNext, Interrupt, Return, Work, Next

LEMMA SystemInvNext ==
  ASSUME HandlerProgram, SystemInv, H!Allowed, [H!Keeps]_(H!allvars), [SystemNext]_allvars
  PROVE  SystemInv' /\ [H!HNext]_(H!allvars)
<1>1. [Next]_vars
  BY SystemIsCore DEF allvars
<1>2. Disciplined
  BY FreshDisciplined DEF SystemInv
<1>3. UNCHANGED allvars => UNCHANGED <<ISA!vars, suspended>>
  BY NothingImplements DEF allvars
<1>4. [H!HNext]_(H!allvars)
  <2>1. CASE UNCHANGED allvars
    BY <1>3, <2>1 DEF H!allvars, H!vars, ISA!vars
  <2> QED BY <2>1, SystemStep
<1>5. RInv' /\ Unstale'
  BY <1>1, <1>2, RInvStep, UnstaleNext DEF SystemInv
<1>6. Fresh'
  <2>1. CASE SINGLE_BUS
    BY <2>1 DEF Fresh
  <2>2. CASE ~SINGLE_BUS
    <3>1. H!StoreHarmless
      BY <2>2, MachineAssumptions, H!HandlerHarmless DEF HandlerProgram, SystemInv
    <3> QED BY <1>1, <3>1, SameState, FreshNext DEF SystemInv
  <2> QED BY <2>1, <2>2
<1>7. H!HandlerInv'
  BY <1>4, MachineAssumptions, H!HandlerInvStep DEF HandlerProgram, SystemInv
<1>8. PowerUp' /\ Quiet'
  <2>1. CASE UNCHANGED allvars
    <3>1. RegsAbs' = RegsAbs
      BY <2>1, NothingImplements DEF allvars, ISA!vars
    <3> QED BY <2>1, <3>1 DEF allvars, vars, env, sysregs, SystemInv, PowerUp, Quiet
  <2>2. CASE SystemNext
    <3>1. Quiet' /\ (rst_i' => rst_i)
      BY <2>2 DEF SystemNext, StaysUp
    <3>2. ASSUME rst_i PROVE ResetEdge
      BY <2>2, <3>2, SystemIsCore, ResetOrRun
    <3>3. ASSUME ResetEdge PROVE reg_mstatus' = reg_mstatus /\ rst_cnt' >= 1
      <4>1. reg_mstatus' = reg_mstatus
        BY <1>2, <3>3, PowerUpEdge DEF SystemInv
      <4>2. rst_i /\ rst_cnt >= 1 /\ rst_cnt \in Nat
        BY <3>3 DEF ResetEdge, SystemInv, PowerUp, RInv, IInv, TypeOK
      <4>3. rst_cnt' = rst_cnt + 1 \/ rst_cnt' = rst_cnt
        BY <3>3, <4>2 DEF ResetEdge, Edge, ResetInput
      <4> QED BY <4>1, <4>2, <4>3
    <3> QED BY <3>1, <3>2, <3>3 DEF SystemInv, PowerUp
  <2> QED BY <2>1, <2>2
<1> QED BY <1>4, <1>5, <1>6, <1>7, <1>8 DEF SystemInv

LEMMA SystemInvCorrect ==
  ASSUME HandlerProgram
  PROVE  SystemSpec /\ H!ProgramBehaves => []SystemInv
  BY SystemInitInv, SystemInvNext, PTL DEF SystemSpec, H!ProgramBehaves

-----------------------------------------------------------------------------
(***************************************************************************)
(* The core running the handler is the machine RiscvHandler describes:     *)
(* what is proved of the handler instruction by instruction holds clock    *)
(* edge by clock edge, whatever is in flight and whenever requests come    *)
(* (risc-v-v2.v 192-388 under riscv_hal.h 12-94).                          *)
(***************************************************************************)
THEOREM SystemImplementsHandler ==
  ASSUME HandlerProgram
  PROVE  SystemSpec /\ H!ProgramBehaves => ImplementsHandler
<1>1. SystemInit => Handler!HInit
  BY SystemInitInv, SameHandler
<1>2. SystemInv /\ H!Allowed /\ [H!Keeps]_(H!allvars) /\ [SystemNext]_allvars =>
        [Handler!HNext]_(Handler!allvars)
  <2>1. H!allvars' = Handler!allvars'
    BY DEF H!allvars, Handler!allvars, H!vars, Handler!vars
  <2> QED BY <2>1, SystemInvNext, SameHandler
<1> QED BY <1>1, <1>2, SystemInvCorrect, PTL DEF SystemSpec, H!ProgramBehaves, ImplementsHandler

(***************************************************************************)
(* The edge that executes mret resumes the program that was interrupted,   *)
(* where it was and with every register it had (risc-v-v2.v 297-327 under  *)
(* riscv_hal.h 12-94).                                                     *)
(***************************************************************************)
THEOREM SystemResumesInterrupted ==
  ASSUME HandlerProgram
  PROVE  SystemSpec /\ H!ProgramBehaves => ResumesInterrupted
<1>1. SystemInv /\ H!Allowed /\ [SystemNext]_allvars =>
        [Return => /\ suspended # <<>>
                   /\ PcAbs' = Head(suspended).pc
                   /\ RegsAbs = Head(suspended).regs]_allvars
  <2> SUFFICES ASSUME SystemInv, H!Allowed, Return
               PROVE  /\ suspended # <<>> /\ PcAbs' = Head(suspended).pc
                      /\ RegsAbs = Head(suspended).regs
    OBVIOUS
  <2>1. H!Return
    BY FreshDisciplined, IssueMretImplements, SameActions DEF SystemInv, Return, H!Return
  <2> QED BY <2>1, MachineAssumptions, H!ReturnResumes DEF HandlerProgram, SystemInv
<1> QED BY <1>1, SystemInvCorrect, PTL DEF SystemSpec, H!ProgramBehaves, ResumesInterrupted

(***************************************************************************)
(* Interrupts are masked from the entry of one to its mret and enabled     *)
(* otherwise: none nests, and none is kept out for good                    *)
(* (risc-v-v2.v 299-327).                                                  *)
(***************************************************************************)
THEOREM SystemMaskedWhileHandled ==
  ASSUME HandlerProgram
  PROVE  SystemSpec /\ H!ProgramBehaves => []MaskedWhileHandled
<1>1. SystemInv => MaskedWhileHandled
  <2> SUFFICES ASSUME SystemInv PROVE MaskedWhileHandled
    OBVIOUS
  <2>1. H!MaskedWhileHandled
    BY MachineAssumptions, H!Masked DEF HandlerProgram, SystemInv
  <2> QED BY <2>1 DEF H!MaskedWhileHandled, MaskedWhileHandled, H!MIE, MIE, H!MIE_bit, MIE_bit
<1> QED BY <1>1, SystemInvCorrect, PTL
=============================================================================
