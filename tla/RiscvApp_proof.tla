--------------------------- MODULE RiscvApp_proof ---------------------------
(***************************************************************************)
(* Proofs about the application, for every size of word and of .data, any  *)
(* delay of at least a tick, and a timer that leaves the program three     *)
(* steps or more between two requests.                                     *)
(***************************************************************************)
EXTENDS RiscvApp, SequenceTheorems, TLAPS

-----------------------------------------------------------------------------
(* Arithmetic of the counter in two words.                                 *)

LEMMA Sizes ==
  /\ WordSize \in Nat /\ WordSize >= 2 /\ CntSize \in 1 .. WordSize
  /\ DataWords \in Nat /\ LO = DataWords + 1 /\ HI = DataWords + 2 /\ CNT = DataWords + 3
  /\ LO \in Cells /\ HI \in Cells /\ CNT \in Cells
  /\ delay_cycles \in Word \ {0} /\ delay_cycles \in Nat
  /\ GAP \in Nat /\ GAP >= 3 /\ MaxElapsed \in Nat /\ MaxElapsed > WordSize + delay_cycles
  BY AppAssumption DEF LO, HI, CNT, Cells, Word

LEMMA Turn ==
  ASSUME NEW h \in Word
  PROVE  /\ WordSize * h \in Nat /\ WordSize * WordSize \in Nat \ {0}
         /\ WordSize * h + WordSize <= WordSize * WordSize
         /\ WordSize * (h + 1) = WordSize * h + WordSize
<1>1. WordSize \in Nat /\ WordSize >= 2 /\ h \in Nat /\ WordSize - 1 - h \in Nat
  BY Sizes DEF Word
<1>2. \A a, b \in Nat : a * b \in Nat
  OBVIOUS
<1>3. WordSize * (WordSize - 1 - h) \in Nat /\ WordSize * h \in Nat
      /\ WordSize * WordSize \in Nat
  BY <1>1, <1>2
<1>4. WordSize * (WordSize - 1 - h) = WordSize * WordSize - WordSize - WordSize * h
  BY <1>1
<1>5. WordSize * (h + 1) = WordSize * h + WordSize
  BY <1>1
<1> QED BY <1>1, <1>3, <1>4, <1>5

LEMMA LongType ==
  ASSUME NEW h \in Word, NEW l \in Word
  PROVE  WordSize * h + l \in Long
<1>1. l \in Nat /\ l < WordSize
  BY Sizes DEF Word
<1> QED BY <1>1, Turn, Sizes DEF Long

LEMMA SmallMod ==
  ASSUME NEW m \in Nat \ {0}, NEW a \in Nat
  PROVE  /\ a % m \in 0 .. m - 1
         /\ a < m => a % m = a
         /\ a = m => a % m = 0
  OBVIOUS

LEMMA Increment ==
  ASSUME NEW a \in Word
  PROVE  /\ (a + 1) % WordSize \in Word
         /\ a < WordSize - 1 => (a + 1) % WordSize = a + 1
         /\ a = WordSize - 1 => (a + 1) % WordSize = 0
<1>1. WordSize \in Nat \ {0} /\ a \in 0 .. WordSize - 1
  BY Sizes DEF Word
<1> QED BY <1>1 DEF Word

LEMMA SampleIs ==
  ASSUME TypeOK
  PROVE  /\ STimerCnt \in Long /\ ram[LO] \in Word /\ ram[HI] \in Word /\ ram[CNT] \in Word
         /\ Sample \in Long
         /\ Sample = STimerCnt - ram[LO] + lo
<1>1. ram[LO] \in Word /\ ram[HI] \in Word /\ ram[CNT] \in Word /\ lo \in Word
  BY Sizes DEF TypeOK
<1>2. WordSize * ram[HI] \in Nat
  BY <1>1, Turn
<1>3. STimerCnt \in Long /\ Sample \in Long
  BY <1>1, LongType DEF Sample, STimerCnt
<1>4. Sample = STimerCnt - ram[LO] + lo
  BY <1>1, <1>2, Sizes DEF Sample, STimerCnt, Word
<1> QED BY <1>1, <1>3, <1>4

(* A tick adds one to the count and carries when the low word is full. *)
LEMMA Tick ==
  ASSUME TypeOK, IRQHandler_1
  PROVE  /\ ram' \in [Cells -> Word]
         /\ \A w \in Cells \ {LO, HI} : ram'[w] = ram[w]
         /\ ram[LO] < WordSize - 1 => ram'[LO] = ram[LO] + 1 /\ ram'[HI] = ram[HI]
         /\ ram[LO] = WordSize - 1 => ram'[LO] = 0
         /\ STimerCnt + 1 < WordSize * WordSize => STimerCnt' = STimerCnt + 1
<1> DEFINE low == (ram[LO] + 1) % WordSize
           high == IF low = 0 THEN (ram[HI] + 1) % WordSize ELSE ram[HI]
<1>1. ram[LO] \in Word /\ ram[HI] \in Word /\ ram \in [Cells -> Word]
  BY SampleIs DEF TypeOK
<1>2. /\ low \in Word
      /\ ram[LO] < WordSize - 1 => low = ram[LO] + 1
      /\ ram[LO] = WordSize - 1 => low = 0
  BY <1>1, Increment
<1>3. high \in Word
  BY <1>1, Increment
<1>4. ram' = [ram EXCEPT ![LO] = low, ![HI] = high]
  BY Sizes, <1>1 DEF IRQHandler_1
<1> HIDE DEF low, high
<1>5. ram'[LO] = low /\ ram'[HI] = high /\ ram' \in [Cells -> Word]
      /\ \A w \in Cells \ {LO, HI} : ram'[w] = ram[w]
  BY <1>1, <1>2, <1>3, <1>4, Sizes
<1>6. CASE ram[LO] < WordSize - 1
  <2>1. low = ram[LO] + 1 /\ high = ram[HI]
    BY <1>1, <1>2, <1>6, Sizes DEF high, Word
  <2>2. STimerCnt' = STimerCnt + 1
    BY <2>1, <1>1, <1>5, Turn, Sizes DEF STimerCnt, Word
  <2> QED BY <1>5, <1>6, <2>1, <2>2, <1>1, Sizes DEF Word
<1>7. CASE ram[LO] = WordSize - 1
  <2>1. low = 0
    BY <1>2, <1>7
  <2>2. ASSUME STimerCnt + 1 < WordSize * WordSize
        PROVE  STimerCnt' = STimerCnt + 1
    <3>1. WordSize * ram[HI] + WordSize < WordSize * WordSize
      BY <2>2, <1>1, <1>7, Turn, Sizes DEF STimerCnt, Word
    <3>2. ram[HI] # WordSize - 1
      <4>1. ASSUME ram[HI] = WordSize - 1 PROVE FALSE
        <5>1. WordSize * (ram[HI] + 1) = WordSize * WordSize
          BY <4>1, Sizes
        <5> QED BY <5>1, <3>1, <1>1, Turn
      <4> QED BY <4>1
    <3>3. high = ram[HI] + 1
      BY <2>1, <3>2, <1>1, Sizes, Increment DEF high, Word
    <3>4. WordSize * high = WordSize * ram[HI] + WordSize
      BY <3>3, <1>1, Turn
    <3> QED BY <3>4, <2>1, <1>1, <1>5, <1>7, Turn, Sizes DEF STimerCnt, Word
  <2> QED BY <1>5, <1>7, <2>1, <2>2, Sizes
<1> QED BY <1>1, <1>6, <1>7, <1>5, Sizes DEF Word

-----------------------------------------------------------------------------
(* The loop is a sequence of two lines at least.                           *)

Lines == [op : {"delay", "count", "SET", "CLEAR"}, mask : SUBSET Int]

ScanLineAt(masks, k) ==
  LET i == (k + 2) \div 3
  IN CASE k % 3 = 1 -> Set(masks[i])
       [] k % 3 = 2 -> Delay
       [] k % 3 = 0 -> Clear(IF i = Len(masks) THEN Bits ELSE masks[i])

LEMMA ScanLine ==
  ASSUME NEW masks \in Seq(SUBSET Int), NEW k \in 1 .. 3 * Len(masks)
  PROVE  ScanLineAt(masks, k) \in Lines
<1>1. \A m \in SUBSET Int : Set(m) \in Lines /\ Clear(m) \in Lines
  BY DEF Set, Clear, Lines
<1>2. Delay \in Lines /\ Bits \in SUBSET Int
  BY DEF Delay, Lines, Bits
<1>3. Len(masks) \in Nat /\ (k + 2) \div 3 \in 1 .. Len(masks) /\ k % 3 \in {0, 1, 2}
  OBVIOUS
<1>4. masks[(k + 2) \div 3] \in SUBSET Int
  BY <1>3
<1>5. CASE k % 3 = 1
  BY <1>1, <1>4, <1>5 DEF ScanLineAt
<1>6. CASE k % 3 = 2
  BY <1>2, <1>6 DEF ScanLineAt
<1>7. CASE k % 3 = 0
  BY <1>1, <1>2, <1>4, <1>7 DEF ScanLineAt
<1> QED BY <1>3, <1>5, <1>6, <1>7

LEMMA ScanLines ==
  ASSUME NEW masks \in Seq(SUBSET Int)
  PROVE  Scan(masks) \in Seq(Lines)
<1> DEFINE n == 3 * Len(masks)
<1>1. [k \in 1 .. n |-> ScanLineAt(masks, k)] \in Seq(Lines)
  BY ScanLine
<1>2. <<Clear(Bits), Delay>> \in Seq(Lines) /\ <<Delay>> \in Seq(Lines)
  BY DEF Clear, Delay, Lines, Bits
<1>3. Scan(masks) = <<Clear(Bits), Delay>> \o [k \in 1 .. n |-> ScanLineAt(masks, k)] \o <<Delay>>
  BY DEF Scan, ScanLineAt
<1> QED BY <1>1, <1>2, <1>3

LEMMA LoopLines ==
  ASSUME NEW s \in Shows
  PROVE  /\ Len(Loop(s)) \in Nat /\ Len(Loop(s)) >= 2
         /\ DOMAIN Loop(s) = 1 .. Len(Loop(s))
<1>1. left_to_right \in Seq(SUBSET Int) /\ right_to_left \in Seq(SUBSET Int)
      /\ center_to_center \in Seq(SUBSET Int)
  BY DEF left_to_right, right_to_left, center_to_center
<1>2. s # "count" => Rows(s) \in Seq(SUBSET Int)
  BY <1>1 DEF Rows, Shows
<1>3. (IF s = "count" THEN <<>> ELSE Scan(Rows(s))) \in Seq(Lines)
  BY <1>2, ScanLines
<1>4. <<Delay, Count>> \in Seq(Lines) /\ Len(<<Delay, Count>>) = 2
  BY DEF Delay, Count, Lines
<1>5. \A t \in Seq(Lines) : /\ Len(<<Delay, Count>> \o t) = 2 + Len(t)
                           /\ <<Delay, Count>> \o t \in Seq(Lines)
  BY <1>4
<1> QED BY <1>3, <1>5 DEF Loop

-----------------------------------------------------------------------------
(* Types.                                                                  *)

LEMMA PortType ==
  ASSUME NEW reg, NEW mask, Port(reg, mask)
  PROVE  led' \subseteq Lamps
  BY DEF Port

LEMMA NextLineType ==
  ASSUME TypeOK
  PROVE  NextLine \in DOMAIN Loop(show) /\ 1 \in DOMAIN Loop(show)
<1>1. show \in Shows /\ at \in DOMAIN Loop(show)
  BY DEF TypeOK
<1> QED BY <1>1, LoopLines DEF NextLine

LEMMA StepType ==
  ASSUME TypeOK, Step
  PROVE  /\ ran' \in 0 .. GAP /\ show' = show
         /\ handler' \in {"none", "IRQHandler_1", "IntDefaultHandler"}
  BY Sizes DEF Step, TypeOK

LEMMA LabelsType ==
  /\ {"_entry", "copy_section", "zero_section", "_start", "DIR", "CLEAR", "loop",
      "time_to_tick", "do", "while"} = Labels
  /\ 0 \in Word /\ 0 \in Long /\ 0 \in 0 .. MaxElapsed
  /\ 1 \in 1 .. CNT + 1 /\ LO \in 1 .. CNT + 1
<1>1. 0 \in Word
  BY Sizes DEF Word
<1>2. WordSize * 0 + 0 \in Long
  BY <1>1, LongType
<1> QED BY <1>1, <1>2, Sizes DEF Labels, Delaying

LEMMA TypeInit == Init => TypeOK
<1> SUFFICES ASSUME Init PROVE TypeOK
  OBVIOUS
<1>1. show \in Shows /\ 1 \in DOMAIN Loop(show)
  BY LoopLines DEF Init
<1>2. CntSize - 1 \in Word /\ 0 \in Word /\ ram \in [Cells -> {0, CntSize - 1}]
  BY Sizes DEF Word, Init
<1>3. ram \in [Cells -> Word]
  BY <1>2
<1>4. at \in DOMAIN Loop(show)
  BY <1>1 DEF Init
<1>5. pc \in Labels /\ p \in 1 .. CNT + 1 /\ lo \in Word /\ time_to_tick \in Long
      /\ start \in Long /\ elapsed \in 0 .. MaxElapsed /\ ran \in 0 .. GAP
  BY LabelsType, Sizes DEF Init
<1> QED BY <1>1, <1>3, <1>4, <1>5 DEF Init, TypeOK

LEMMA TypeZero ==
  ASSUME TypeOK, Zero, p <= CNT
  PROVE  p' \in 1 .. CNT + 1 /\ ram' \in [Cells -> Word] /\ elapsed' \in 0 .. MaxElapsed
<1>1. p \in 1 .. CNT + 1 /\ ram \in [Cells -> Word] /\ elapsed \in 0 .. MaxElapsed
  BY DEF TypeOK
<1>2. 0 \in Word
  BY LabelsType
<1>3. p \in Cells /\ p \in Int
  BY <1>1, Sizes DEF Cells
<1>4. ram' \in [Cells -> Word]
  BY <1>1, <1>2, <1>3 DEF Zero
<1>5. elapsed' \in 0 .. MaxElapsed
  BY <1>1, LabelsType DEF Zero
<1> QED BY <1>1, <1>3, <1>4, <1>5, Sizes DEF Zero

LEMMA TypeProgram ==
  ASSUME TypeOK, Program
  PROVE  TypeOK'
<1>0. TypeOK
  OBVIOUS
<1>1. ASSUME Step, at' \in DOMAIN Loop(show), pc' \in Labels, p' \in 1 .. CNT + 1,
             lo' \in Word, time_to_tick' \in Long, sp_set' \in BOOLEAN,
             ram' \in [Cells -> Word], led' \subseteq Lamps,
             start' \in Long, elapsed' \in 0 .. MaxElapsed, torn' \in BOOLEAN
      PROVE  TypeOK'
  BY <1>0, <1>1, StepType DEF TypeOK
<1>2. CASE _entry
  BY <1>0, <1>1, <1>2, LabelsType DEF _entry, Goto, TypeOK, history
<1>3. CASE copy_section
  <2>1. CASE p < LO
    <3>1. p \in 1 .. DataWords /\ p \in Cells /\ LoadImage[p] \in Word
      BY <1>0, <2>1, Sizes, AppAssumption DEF TypeOK, Cells
    <3>2. ram' \in [Cells -> Word] /\ p' \in 1 .. CNT + 1
      BY <1>0, <1>3, <2>1, <3>1, Sizes DEF copy_section, TypeOK
    <3> QED BY <1>0, <1>1, <1>3, <2>1, <3>2 DEF copy_section, TypeOK, history
  <2>2. CASE ~(p < LO)
    BY <1>0, <1>1, <1>3, <2>2, LabelsType DEF copy_section, Goto, TypeOK, history
  <2> QED BY <2>1, <2>2
<1>4. CASE zero_section
  <2>1. CASE p <= CNT
    <3>1. Zero
      BY <1>4, <2>1 DEF zero_section
    <3> QED BY <1>0, <1>1, <1>4, <2>1, <3>1, TypeZero DEF zero_section, TypeOK
  <2>2. CASE ~(p <= CNT)
    BY <1>0, <1>1, <1>4, <2>2, LabelsType DEF zero_section, Goto, TypeOK
  <2> QED BY <2>1, <2>2
<1>5. CASE _start
  <2>1. CASE p <= CNT /\ Zero /\ UNCHANGED pc
    BY <1>0, <1>1, <1>5, <2>1, TypeZero DEF _start, TypeOK
  <2>2. CASE p' = 1 /\ Goto("DIR") /\ UNCHANGED <<ram, elapsed>>
    BY <1>0, <1>1, <1>5, <2>2, LabelsType DEF _start, Goto, TypeOK
  <2> QED BY <1>5, <2>1, <2>2 DEF _start
<1>6. CASE main
  <2>1. led' \subseteq Lamps /\ pc' \in Labels
    BY <1>6, PortType, LabelsType DEF main, Goto
  <2> QED BY <1>0, <1>1, <1>6, <2>1, NextLineType DEF main, TypeOK, history
<1>7. CASE Write
  <2> DEFINE line == Loop(show)[at]
  <2>1. ram[CNT] \in Nat /\ (ram[CNT] + 1) % CntSize \in Word
    <3>1. ram[CNT] \in Nat /\ CntSize \in Nat \ {0} /\ CntSize <= WordSize
      BY <1>0, SampleIs, Sizes DEF Word
    <3>2. (ram[CNT] + 1) % CntSize \in 0 .. CntSize - 1
      BY <3>1, SmallMod
    <3> QED BY <3>1, <3>2, Sizes DEF Word
  <2>2. line.op \in {"count", "SET", "CLEAR"}
    BY <1>7 DEF Write
  <2>3. led' \subseteq Lamps /\ ram' \in [Cells -> Word]
    <3>1. CASE line.op = "count"
      <4>1. Port(OUT, BitsOf(ram[CNT])) /\ ram' = [ram EXCEPT ![CNT] = (ram[CNT] + 1) % CntSize]
        BY <1>7, <3>1 DEF Write
      <4> QED BY <1>0, <2>1, <4>1, PortType DEF TypeOK
    <3>2. CASE line.op = "SET"
      <4>1. Port(OUTSET, line.mask) /\ UNCHANGED ram
        BY <1>7, <3>2 DEF Write
      <4> QED BY <1>0, <4>1, PortType DEF TypeOK
    <3>3. CASE line.op = "CLEAR"
      <4>1. Port(OUTCLR, line.mask) /\ UNCHANGED ram
        BY <1>7, <3>3 DEF Write
      <4> QED BY <1>0, <4>1, PortType DEF TypeOK
    <3> QED BY <2>2, <3>1, <3>2, <3>3
  <2> QED BY <1>0, <1>1, <1>7, <2>3, NextLineType DEF Write, TypeOK, history
<1>8. CASE CallDelay
  BY <1>0, <1>1, <1>8, LabelsType, SampleIs DEF CallDelay, Goto, TypeOK
<1>9. CASE SetTimeToTick
  <2>1. (Sample + delay_cycles) % (WordSize * WordSize) \in Long
    <3>1. WordSize * WordSize \in Nat \ {0} /\ Sample + delay_cycles \in Nat
      BY <1>0, SampleIs, Sizes, Turn, LabelsType DEF Long
    <3> QED BY <3>1, SmallMod DEF Long
  <2> QED BY <1>0, <1>1, <1>9, <2>1, LabelsType DEF SetTimeToTick, Goto, TypeOK, TornNow
<1>10. CASE LoadLow
  BY <1>0, <1>1, <1>10, LabelsType, SampleIs DEF LoadLow, Goto, TypeOK, history
<1>11. CASE KeepWaiting
  BY <1>0, <1>1, <1>11, LabelsType DEF KeepWaiting, Goto, TypeOK, history
<1>12. CASE Return
  BY <1>0, <1>1, <1>12, LabelsType, NextLineType DEF Return, Goto, TypeOK, history
<1> QED BY <1>2, <1>3, <1>4, <1>5, <1>6, <1>7, <1>8, <1>9, <1>10, <1>11, <1>12 DEF Program

LEMMA TypeStep == TypeOK /\ [Next]_vars => TypeOK'
<1> SUFFICES ASSUME TypeOK, [Next]_vars PROVE TypeOK'
  OBVIOUS
<1>1. CASE Program
  BY <1>1, TypeProgram
<1>2. ASSUME NEW cause \in Connected, IRQHandler(cause)
      PROVE  TypeOK'
  <2>1. g_pfnVectors[cause] \in {"IRQHandler_1", "IntDefaultHandler"}
    BY AppAssumption DEF g_pfnVectors, IRQHandlers
  <2> QED BY <1>2, <2>1, Sizes DEF IRQHandler, TypeOK, program, history
<1>3. CASE IRQHandler_1
  <2>1. ram' \in [Cells -> Word]
    BY <1>3, Tick
  <2> QED BY <1>3, <2>1, Sizes DEF IRQHandler_1, TypeOK, program
<1>4. CASE Reset
  <2>1. at' \in DOMAIN Loop(show') /\ show' \in Shows
    BY <1>4, NextLineType DEF Reset, TypeOK
  <2>2. pc' \in Labels /\ p' \in 1 .. CNT + 1 /\ lo' \in Word /\ time_to_tick' \in Long
        /\ start' \in Long /\ elapsed' \in 0 .. MaxElapsed /\ ran' \in 0 .. GAP
    BY <1>4, LabelsType, Sizes DEF Reset
  <2> QED BY <1>4, <2>1, <2>2 DEF Reset, TypeOK
<1>5. CASE UNCHANGED vars
  BY <1>5 DEF vars, program, history, TypeOK
<1> QED BY <1>1, <1>2, <1>3, <1>4, <1>5 DEF Next

(***************************************************************************)
(* Every variable of the application keeps its type.                       *)
(***************************************************************************)
THEOREM TypeCorrect == Spec => []TypeOK
<1> QED BY TypeInit, TypeStep, PTL DEF Spec

-----------------------------------------------------------------------------
(***************************************************************************)
(* The stack.  As long as sp is not set the program is at its first step   *)
(* after a reset, which the timer does not interrupt.                      *)
(***************************************************************************)
StackInv == sp_set \/ (pc = "_entry" /\ handler = "none" /\ ran = 0)

LEMMA StackStep == StackInv /\ [Next]_vars => StackInv'
<1> SUFFICES ASSUME StackInv, [Next]_vars PROVE StackInv'
  OBVIOUS
<1>1. CASE _entry
  BY <1>1 DEF _entry, StackInv
<1>2. ASSUME pc # "_entry", UNCHANGED sp_set
      PROVE  StackInv'
  BY <1>2 DEF StackInv
<1>3. CASE copy_section \/ zero_section \/ _start
  BY <1>2, <1>3 DEF copy_section, zero_section, _start
<1>4. CASE main \/ Write \/ CallDelay
  BY <1>2, <1>4 DEF main, Write, CallDelay
<1>5. CASE SetTimeToTick \/ LoadLow \/ KeepWaiting \/ Return
  BY <1>2, <1>5 DEF SetTimeToTick, LoadLow, KeepWaiting, Return
<1>6. ASSUME NEW cause \in Connected, IRQHandler(cause)
      PROVE  StackInv'
  BY <1>6, Sizes DEF IRQHandler, StackInv
<1>7. CASE IRQHandler_1
  BY <1>7 DEF IRQHandler_1, StackInv
<1>8. CASE Reset
  BY <1>8 DEF Reset, StackInv
<1>9. CASE UNCHANGED vars
  BY <1>9 DEF vars, program, StackInv
<1> QED BY <1>1, <1>3, <1>4, <1>5, <1>6, <1>7, <1>8, <1>9 DEF Next, Program

(***************************************************************************)
(* No handler runs before _entry has set sp (risc-v-v2.v:293, entry.S:54). *)
(***************************************************************************)
THEOREM StackReadyHolds == Spec => []StackReady
<1>1. Init => StackInv
  BY DEF Init, StackInv
<1>2. StackInv => StackReady
  BY DEF StackInv, StackReady
<1> QED BY <1>1, <1>2, StackStep, PTL DEF Spec

-----------------------------------------------------------------------------
(***************************************************************************)
(* Start-up.  What is known of RAM grows with p; the count of ticks is     *)
(* right in the low word as soon as that is cleared, in both as soon as    *)
(* the high word is too, and a tick in between keeps it so.                *)
(***************************************************************************)
Loaded(n) == \A w \in 1 .. n : ram[w] = LoadImage[w]
CountsLow == elapsed < WordSize => ram[LO] = elapsed
Counts    == elapsed < WordSize => ram[LO] = elapsed /\ ram[HI] = 0

BootInv ==
  /\ pc = "copy_section" => p \in 1 .. LO /\ Loaded(p - 1)
  /\ pc \in {"zero_section", "_start", "DIR"} => Loaded(DataWords)
  /\ pc \in {"zero_section", "_start"} => p \in LO .. CNT + 1 /\ (p = HI => CountsLow)
  /\ pc = "zero_section" => (p > HI => Counts) /\ (p > CNT => ram[CNT] = 0)
  /\ pc = "_start" => (p # HI => Counts) /\ ram[CNT] = 0
  /\ pc = "DIR" => Counts /\ ram[CNT] = 0

Booting == {"copy_section", "zero_section", "_start", "DIR"}

LEMMA BootTick ==
  ASSUME TypeOK, BootInv, IRQHandler_1
  PROVE  BootInv'
<1>1. /\ \A w \in Cells \ {LO, HI} : ram'[w] = ram[w]
      /\ ram[LO] < WordSize - 1 => ram'[LO] = ram[LO] + 1 /\ ram'[HI] = ram[HI]
  BY Tick
<1>2. UNCHANGED <<pc, p>>
  BY DEF IRQHandler_1, program
<1>3. ASSUME NEW n \in 0 .. DataWords, Loaded(n)
      PROVE  Loaded(n)'
  <2>1. \A w \in 1 .. n : w \in Cells \ {LO, HI}
    BY Sizes DEF Cells
  <2> QED BY <1>1, <1>3, <2>1 DEF Loaded
<1>4. /\ elapsed \in 0 .. MaxElapsed /\ elapsed' \in Nat
      /\ elapsed' < WordSize => elapsed' = elapsed + 1 /\ elapsed < WordSize - 1
  BY Sizes DEF TypeOK, IRQHandler_1
<1>10. ASSUME elapsed' < WordSize, ram[LO] = elapsed
       PROVE  ram'[LO] = elapsed' /\ ram'[HI] = ram[HI]
  BY <1>1, <1>4, <1>10
<1>11. elapsed' < WordSize => elapsed < WordSize
  BY <1>4, Sizes
<1>5. CountsLow => CountsLow'
  BY <1>10, <1>11 DEF CountsLow
<1>6. Counts => Counts'
  BY <1>10, <1>11 DEF Counts
<1>7. ram'[CNT] = ram[CNT]
  BY <1>1, Sizes
<1>8. pc = "copy_section" => p - 1 \in 0 .. DataWords
  BY Sizes DEF BootInv
<1>9. DataWords \in 0 .. DataWords
  BY Sizes
<1> QED BY <1>2, <1>3, <1>5, <1>6, <1>7, <1>8, <1>9 DEF BootInv

LEMMA BootZero ==
  ASSUME TypeOK, Zero, p \in LO .. CNT, Loaded(DataWords),
         p = HI => CountsLow, p > HI => Counts
  PROVE  /\ p' \in LO .. CNT + 1 /\ p' = p + 1 /\ Loaded(DataWords)'
         /\ p' = HI => CountsLow'
         /\ p' > HI => Counts'
         /\ (p = CNT \/ ram[CNT] = 0) => ram'[CNT] = 0
<1>1. p \in Cells /\ p \in Int /\ ram \in [Cells -> Word]
  BY Sizes DEF TypeOK, Cells
<1>2. /\ ram'[p] = 0 /\ \A w \in Cells \ {p} : ram'[w] = ram[w]
      /\ p' = p + 1 /\ elapsed' = IF p = LO THEN 0 ELSE elapsed
  BY <1>1 DEF Zero
<1>3. Loaded(DataWords)'
  <2>1. \A w \in 1 .. DataWords : w \in Cells \ {p}
    BY Sizes DEF Cells
  <2> QED BY <1>2, <2>1 DEF Loaded
<1>4. CASE p = LO
  BY <1>1, <1>2, <1>3, <1>4, Sizes DEF CountsLow
<1>5. CASE p = HI
  <2>1. Counts'
    BY <1>1, <1>2, <1>5, Sizes DEF CountsLow, Counts
  <2> QED BY <1>1, <1>2, <1>3, <1>5, <2>1, Sizes
<1>6. CASE p = CNT
  <2>1. Counts'
    BY <1>1, <1>2, <1>6, Sizes DEF Counts
  <2> QED BY <1>1, <1>2, <1>3, <1>6, <2>1, Sizes
<1> QED BY <1>4, <1>5, <1>6, Sizes

LEMMA BootStep == TypeOK /\ BootInv /\ [Next]_vars => BootInv'
<1> SUFFICES ASSUME TypeOK, BootInv, [Next]_vars PROVE BootInv'
  OBVIOUS
<1>1. ASSUME pc' \notin Booting PROVE BootInv'
  BY <1>1 DEF BootInv, Booting
<1>2. CASE _entry
  <2>1. pc' = "copy_section" /\ p' = 1
    BY <1>2 DEF _entry, Goto
  <2>2. p' - 1 = 0 /\ p' \in 1 .. LO
    BY <2>1, Sizes
  <2>3. Loaded(p - 1)'
    BY <2>2 DEF Loaded
  <2> QED BY <2>1, <2>2, <2>3 DEF BootInv
<1>3. CASE copy_section
  <2>1. p \in 1 .. LO /\ Loaded(p - 1) /\ ram \in [Cells -> Word]
    BY <1>3 DEF copy_section, BootInv, TypeOK
  <2>2. CASE p < LO
    <3>1. pc' = "copy_section" /\ p' = p + 1 /\ ram' = [ram EXCEPT ![p] = LoadImage[p]]
      BY <1>3, <2>2 DEF copy_section
    <3>2. p \in Cells /\ \A w \in 1 .. p : w \in Cells /\ (w = p \/ w \in 1 .. (p - 1))
      BY <2>1, <2>2, Sizes DEF Cells
    <3>3. \A w \in 1 .. p : ram'[w] = LoadImage[w]
      BY <2>1, <3>1, <3>2 DEF Loaded
    <3>4. p' - 1 = p /\ p' \in 1 .. LO
      BY <2>1, <2>2, <3>1, Sizes
    <3>5. Loaded(p - 1)'
      BY <3>3, <3>4 DEF Loaded
    <3> QED BY <3>1, <3>4, <3>5 DEF BootInv
  <2>3. CASE ~(p < LO)
    <3>1. pc' = "zero_section" /\ p' = LO /\ ram' = ram
      BY <1>3, <2>3 DEF copy_section, Goto
    <3>2. p - 1 = DataWords
      BY <2>1, <2>3, Sizes
    <3>3. Loaded(DataWords)'
      BY <2>1, <3>1, <3>2, Sizes DEF Loaded
    <3> QED BY <3>1, <3>3, Sizes DEF BootInv
  <2> QED BY <2>2, <2>3
<1>4. CASE zero_section
  <2>1. /\ p \in LO .. CNT + 1 /\ Loaded(DataWords)
        /\ p = HI => CountsLow
        /\ p > HI => Counts
        /\ p > CNT => ram[CNT] = 0
    BY <1>4 DEF zero_section, BootInv
  <2>2. CASE p <= CNT
    <3>1. Zero /\ pc' = "zero_section" /\ p \in LO .. CNT
      BY <1>4, <2>1, <2>2, Sizes DEF zero_section
    <3>2. p' > CNT => p = CNT
      BY <3>1, Sizes DEF Zero
    <3> QED BY <2>1, <3>1, <3>2, BootZero DEF BootInv
  <2>3. CASE ~(p <= CNT)
    <3>1. pc' = "_start" /\ p' = LO /\ ram' = ram /\ elapsed' = elapsed
      BY <1>4, <2>3 DEF zero_section, Goto
    <3>2. Counts /\ ram[CNT] = 0
      BY <2>1, <2>3, Sizes
    <3>3. Loaded(DataWords)' /\ Counts' /\ ram'[CNT] = 0
      BY <2>1, <3>1, <3>2 DEF Loaded, Counts
    <3> QED BY <3>1, <3>3, Sizes DEF BootInv
  <2> QED BY <2>2, <2>3
<1>5. CASE _start
  <2>1. /\ p \in LO .. CNT + 1 /\ Loaded(DataWords) /\ ram[CNT] = 0
        /\ p = HI => CountsLow
        /\ p # HI => Counts
    BY <1>5 DEF _start, BootInv
  <2>2. CASE p <= CNT /\ Zero /\ UNCHANGED pc
    <3>1. pc' = "_start" /\ p \in LO .. CNT
      BY <1>5, <2>1, <2>2, Sizes DEF _start
    <3>2. p' \in LO .. CNT + 1 /\ p' # LO
      BY <2>2, <3>1, Sizes DEF Zero
    <3>3. p' # HI => p' > HI
      BY <3>2, Sizes
    <3>4. p > HI => p # HI
      BY Sizes
    <3> QED BY <2>1, <2>2, <3>1, <3>2, <3>3, <3>4, BootZero DEF BootInv
  <2>3. CASE p \in {LO, CNT + 1} /\ Goto("DIR") /\ UNCHANGED <<ram, elapsed>>
    <3>1. pc' = "DIR" /\ ram' = ram /\ elapsed' = elapsed /\ Counts
      BY <2>1, <2>3, Sizes DEF Goto
    <3>2. Loaded(DataWords)' /\ Counts' /\ ram'[CNT] = 0
      BY <2>1, <3>1 DEF Loaded, Counts
    <3> QED BY <3>1, <3>2 DEF BootInv
  <2> QED BY <1>5, <2>2, <2>3 DEF _start
<1>6. CASE main \/ Write \/ CallDelay
  BY <1>1, <1>6 DEF main, Write, CallDelay, Goto, Booting
<1>7. CASE SetTimeToTick \/ LoadLow \/ KeepWaiting \/ Return
  BY <1>1, <1>7 DEF SetTimeToTick, LoadLow, KeepWaiting, Return, Goto, Booting
<1>8. ASSUME UNCHANGED <<pc, p, ram, elapsed>>
      PROVE  BootInv'
  BY <1>8 DEF BootInv, Loaded, Counts, CountsLow
<1>9. ASSUME NEW cause \in Connected, IRQHandler(cause)
      PROVE  BootInv'
  BY <1>8, <1>9 DEF IRQHandler, program, history
<1>10. CASE IRQHandler_1
  BY <1>10, BootTick
<1>11. CASE Reset
  BY <1>1, <1>11 DEF Reset, Booting
<1>12. CASE UNCHANGED vars
  BY <1>8, <1>12 DEF vars, program, history
<1> QED BY <1>2, <1>3, <1>4, <1>5, <1>6, <1>7, <1>9, <1>10, <1>11, <1>12 DEF Next, Program

(***************************************************************************)
(* main finds .data loaded, cnt at zero and STimerCnt at the ticks since   *)
(* it was cleared, whatever RAM held and whenever the last reset came.     *)
(***************************************************************************)
THEOREM InitialisedHolds == Spec => []Initialised
<1>1. Init => BootInv
  BY DEF Init, BootInv
<1>2. TypeOK /\ BootInv => Initialised
  <2> SUFFICES ASSUME TypeOK, BootInv, pc = "DIR", elapsed < WordSize
               PROVE  STimerCnt = elapsed
    BY DEF Initialised, BootInv, Loaded
  <2>1. ram[LO] = elapsed /\ ram[HI] = 0 /\ elapsed \in Nat
    BY DEF BootInv, Counts, TypeOK
  <2> QED BY <2>1, Sizes DEF STimerCnt
<1> QED BY <1>1, <1>2, TypeInit, TypeStep, BootStep, PTL DEF Spec

-----------------------------------------------------------------------------
(***************************************************************************)
(* delay.  At most one tick can come between the two loads of a reading    *)
(* (Ticked), because the next request is GAP steps away; and when the      *)
(* count has reached the target, none comes before the program sees it.    *)
(***************************************************************************)
Fits == start + WordSize + delay_cycles < WordSize * WordSize

Target == start + delay_cycles + (IF torn THEN WordSize ELSE 0)

Ticked ==
  /\ handler = "none" /\ ran = 0
  /\ lo < WordSize - 1 => ram[LO] = lo + 1
  /\ lo = WordSize - 1 => ram[LO] = 0

AtMost(n) ==
  \/ STimerCnt < time_to_tick
  \/ STimerCnt = time_to_tick /\ handler = "none" /\ ran <= n

DelayShape ==
  /\ STimerCnt = start + elapsed
  /\ pc = "time_to_tick" => \/ elapsed = 0 /\ lo = ram[LO]
                            \/ elapsed = 1 /\ Ticked
  /\ pc \in {"do", "while"} => time_to_tick = Target
  /\ pc = "do" => AtMost(1)
  /\ pc = "while" => \/ lo = ram[LO] /\ AtMost(2)
                     \/ Ticked /\ STimerCnt <= time_to_tick

DelayInv ==
  /\ handler # "none" => ran = 0
  /\ pc \in Delaying /\ Fits => DelayShape

(* The integers of the argument. *)
LEMMA DelayTypes ==
  ASSUME TypeOK
  PROVE  /\ STimerCnt \in Nat /\ start \in Nat /\ elapsed \in Nat /\ time_to_tick \in Nat
         /\ ram[LO] \in Nat /\ ram[LO] < WordSize /\ lo \in Nat /\ lo < WordSize
         /\ ran \in Nat /\ ran <= GAP /\ torn \in BOOLEAN
         /\ WordSize * WordSize \in Nat \ {0} /\ Target \in Nat
         /\ Target \in {start + delay_cycles, start + delay_cycles + WordSize}
<1>1. WordSize * WordSize \in Nat \ {0}
  BY LabelsType, Turn
<1>2. STimerCnt \in Long /\ start \in Long /\ time_to_tick \in Long /\ lo \in Word
      /\ ram[LO] \in Word /\ elapsed \in 0 .. MaxElapsed /\ ran \in 0 .. GAP
      /\ torn \in BOOLEAN
  BY SampleIs DEF TypeOK
<1> QED BY <1>1, <1>2, Sizes DEF Long, Word, Target

(* A tick that is still to be counted finds room below the target. *)
LEMMA Room ==
  ASSUME TypeOK, DelayShape, Fits, pc \in Delaying, handler # "none"
  PROVE  /\ STimerCnt + 1 < WordSize * WordSize /\ elapsed < MaxElapsed
         /\ pc = "time_to_tick" => elapsed = 0 /\ lo = ram[LO]
         /\ pc \in {"do", "while"} => STimerCnt < time_to_tick /\ time_to_tick = Target
         /\ pc = "while" => lo = ram[LO]
<1>1. CASE pc = "time_to_tick"
  <2>1. elapsed = 0 /\ STimerCnt = start + elapsed /\ lo = ram[LO]
    BY <1>1 DEF DelayShape, Ticked
  <2> QED BY <1>1, <2>1, DelayTypes, Sizes DEF Fits
<1>2. CASE pc \in {"do", "while"}
  <2>1. STimerCnt < time_to_tick /\ time_to_tick = Target /\ STimerCnt = start + elapsed
    BY <1>2 DEF DelayShape, AtMost, Ticked
  <2>2. pc = "while" => lo = ram[LO]
    BY DEF DelayShape, Ticked
  <2> QED BY <1>2, <2>1, <2>2, DelayTypes, Sizes DEF Fits
<1> QED BY <1>1, <1>2 DEF Delaying

LEMMA DelayTick ==
  ASSUME TypeOK, DelayInv, IRQHandler_1
  PROVE  DelayInv'
<1>1. /\ handler = "IRQHandler_1" /\ handler' = "none" /\ ran' = ran
      /\ UNCHANGED <<pc, lo, time_to_tick, start, torn>>
  BY DEF IRQHandler_1, program
<1>2. ran = 0
  BY <1>1 DEF DelayInv
<1>3. ASSUME pc \in Delaying, Fits
      PROVE  DelayShape'
  <2>1. DelayShape
    BY <1>3 DEF DelayInv
  <2>2. /\ STimerCnt + 1 < WordSize * WordSize /\ elapsed < MaxElapsed
        /\ pc = "time_to_tick" => elapsed = 0 /\ lo = ram[LO]
        /\ pc \in {"do", "while"} => STimerCnt < time_to_tick /\ time_to_tick = Target
        /\ pc = "while" => lo = ram[LO]
    BY <1>1, <1>3, <2>1, Room
  <2>3. STimerCnt' = STimerCnt + 1 /\ elapsed' = elapsed + 1
    BY <2>2, Tick DEF IRQHandler_1
  <2>4. /\ ram[LO] < WordSize - 1 => ram'[LO] = ram[LO] + 1
        /\ ram[LO] = WordSize - 1 => ram'[LO] = 0
    BY Tick
  <2>5. STimerCnt' = start' + elapsed'
    BY <1>1, <2>1, <2>3, DelayTypes DEF DelayShape
  <2>6. pc' = "time_to_tick" => elapsed' = 1 /\ Ticked'
    BY <1>1, <1>2, <2>2, <2>3, <2>4 DEF Ticked
  <2>7. pc' \in {"do", "while"} => time_to_tick' = Target' /\ STimerCnt' <= time_to_tick'
    BY <1>1, <2>2, <2>3, DelayTypes DEF Target
  <2>8. pc' = "do" => AtMost(1)'
    BY <1>1, <1>2, <2>2, <2>3, DelayTypes DEF AtMost
  <2>9. pc' = "while" => Ticked'
    BY <1>1, <1>2, <2>2, <2>4 DEF Ticked
  <2> QED BY <2>5, <2>6, <2>7, <2>8, <2>9 DEF DelayShape
<1>4. handler' = "none"
  BY <1>1
<1> QED BY <1>1, <1>3, <1>4 DEF DelayInv, Fits

LEMMA DelayRequest ==
  ASSUME TypeOK, DelayInv, NEW cause \in Connected, IRQHandler(cause)
  PROVE  DelayInv'
<1>1. /\ handler = "none" /\ ran >= GAP /\ ran' = 0 /\ GAP >= 3
      /\ UNCHANGED <<pc, lo, time_to_tick, start, elapsed, torn, ram>>
  BY Sizes DEF IRQHandler, program, history
<1>2. STimerCnt' = STimerCnt /\ Target' = Target
  BY <1>1 DEF STimerCnt, Target
<1>3. ASSUME pc \in Delaying, Fits
      PROVE  DelayShape'
  <2>1. DelayShape /\ ~Ticked /\ ran > 2
    BY <1>1, <1>3, DelayTypes, Sizes DEF DelayInv, Ticked
  <2>2. AtMost(1) \/ AtMost(2) => STimerCnt < time_to_tick
    BY <2>1, DelayTypes DEF AtMost
  <2>3. STimerCnt < time_to_tick => AtMost(1)' /\ AtMost(2)'
    BY <1>1, <1>2 DEF AtMost
  <2> QED BY <1>1, <1>2, <2>1, <2>2, <2>3 DEF DelayShape
<1> QED BY <1>1, <1>3 DEF DelayInv, Fits

(* The first reading: what it is when a tick came between its loads. *)
LEMMA DelayStart ==
  ASSUME TypeOK, DelayInv, SetTimeToTick
  PROVE  DelayInv'
<1>1. /\ pc = "time_to_tick" /\ pc' = "do" /\ handler = "none" /\ handler' = "none"
      /\ time_to_tick' = (Sample + delay_cycles) % (WordSize * WordSize)
      /\ torn' = TornNow /\ ran' = IF ran < GAP THEN ran + 1 ELSE ran
      /\ UNCHANGED <<ram, start, elapsed>>
  BY DEF SetTimeToTick, Goto, Step
<1>2. ASSUME Fits
      PROVE  DelayShape'
  <2>1. /\ STimerCnt = start + elapsed
        /\ \/ elapsed = 0 /\ lo = ram[LO]
           \/ elapsed = 1 /\ Ticked
    BY <1>1, <1>2 DEF DelayInv, DelayShape, Delaying
  <2>2. Sample = STimerCnt - ram[LO] + lo
    BY SampleIs
  <2>3. /\ Sample = start + (IF TornNow THEN WordSize ELSE 0)
        /\ STimerCnt = start \/ (STimerCnt = start + 1 /\ ran = 0)
    <3>1. CASE elapsed = 0 /\ lo = ram[LO]
      BY <2>1, <2>2, <3>1, DelayTypes, Sizes DEF TornNow
    <3>2. CASE elapsed = 1 /\ Ticked /\ lo < WordSize - 1
      BY <2>1, <2>2, <3>2, DelayTypes, Sizes DEF TornNow, Ticked
    <3>3. CASE elapsed = 1 /\ Ticked /\ lo = WordSize - 1
      BY <2>1, <2>2, <3>3, DelayTypes, Sizes DEF TornNow, Ticked
    <3> QED BY <2>1, <3>1, <3>2, <3>3, DelayTypes, Sizes
  <2>4. Sample + delay_cycles \in Nat /\ Sample + delay_cycles < WordSize * WordSize
    BY <1>2, <2>3, DelayTypes, Sizes DEF Fits
  <2>5. time_to_tick' = Sample + delay_cycles
    BY <1>1, <2>4, DelayTypes, SmallMod
  <2>6. time_to_tick' = Target'
    BY <1>1, <2>3, <2>5, DelayTypes, Sizes DEF Target
  <2>7. STimerCnt' = STimerCnt
    BY <1>1 DEF STimerCnt
  <2>8. delay_cycles >= 1
    BY Sizes DEF Word
  <2>9. AtMost(1)'
    <3>1. CASE STimerCnt = start
      BY <2>3, <2>5, <2>7, <2>8, <3>1, DelayTypes, Sizes DEF AtMost
    <3>2. CASE STimerCnt = start + 1 /\ ran = 0
      BY <1>1, <2>3, <2>5, <2>7, <2>8, <3>2, DelayTypes, Sizes DEF AtMost
    <3> QED BY <2>3, <3>1, <3>2
  <2>10. STimerCnt' = start' + elapsed'
    BY <1>1, <2>1, <2>7
  <2> QED BY <1>1, <2>6, <2>9, <2>10 DEF DelayShape
<1> QED BY <1>1, <1>2 DEF DelayInv, Fits

LEMMA DelayStep == TypeOK /\ DelayInv /\ [Next]_vars => DelayInv'
<1> SUFFICES ASSUME TypeOK, DelayInv, [Next]_vars PROVE DelayInv'
  OBVIOUS
<1>0. Step => handler' = "none" /\ ran' = IF ran < GAP THEN ran + 1 ELSE ran
  BY DEF Step
<1>1. ASSUME Step, pc' \notin Delaying PROVE DelayInv'
  BY <1>0, <1>1 DEF DelayInv
<1>2. CASE _entry \/ copy_section \/ zero_section \/ _start
  <2>1. Step /\ pc' \in {"copy_section", "zero_section", "_start", "DIR"}
    BY <1>2 DEF _entry, copy_section, zero_section, _start, Goto
  <2> QED BY <1>1, <2>1 DEF Delaying
<1>3. CASE main \/ Write \/ Return
  <2>1. Step /\ pc' \in {"CLEAR", "loop"}
    BY <1>3 DEF main, Write, Return, Goto
  <2> QED BY <1>1, <2>1 DEF Delaying
<1>4. CASE CallDelay
  <2>1. /\ pc' = "time_to_tick" /\ lo' = ram[LO] /\ start' = STimerCnt /\ elapsed' = 0
        /\ ram' = ram /\ handler' = "none"
    BY <1>0, <1>4 DEF CallDelay, Goto
  <2>2. STimerCnt' = start' + elapsed'
    BY <2>1, DelayTypes DEF STimerCnt
  <2>3. DelayShape'
    BY <2>1, <2>2 DEF DelayShape
  <2> QED BY <2>1, <2>3 DEF DelayInv
<1>5. CASE SetTimeToTick
  BY <1>5, DelayStart
<1>6. CASE LoadLow
  <2>1. /\ pc = "do" /\ pc' = "while" /\ lo' = ram[LO] /\ handler' = "none"
        /\ ran' = IF ran < GAP THEN ran + 1 ELSE ran
        /\ UNCHANGED <<ram, start, elapsed, torn, time_to_tick>>
    BY <1>0, <1>6 DEF LoadLow, Goto, history
  <2>2. STimerCnt' = STimerCnt /\ Target' = Target /\ (Fits <=> Fits')
    BY <2>1 DEF STimerCnt, Target, Fits
  <2>3. AtMost(1) => AtMost(2)'
    BY <2>1, <2>2, DelayTypes, Sizes DEF AtMost
  <2>4. Fits => DelayShape
    BY <2>1 DEF DelayInv, Delaying
  <2>5. DelayShape => DelayShape'
    BY <2>1, <2>2, <2>3 DEF DelayShape
  <2> QED BY <2>1, <2>2, <2>4, <2>5 DEF DelayInv
<1>7. CASE KeepWaiting
  <2>1. /\ pc = "while" /\ pc' = "do" /\ time_to_tick > Sample /\ handler' = "none"
        /\ ran' = IF ran < GAP THEN ran + 1 ELSE ran
        /\ UNCHANGED <<ram, start, elapsed, torn, time_to_tick>>
    BY <1>0, <1>7 DEF KeepWaiting, Goto, history
  <2>2. STimerCnt' = STimerCnt /\ Target' = Target /\ (Fits <=> Fits')
    BY <2>1 DEF STimerCnt, Target, Fits
  <2>3. Fits => DelayShape
    BY <2>1 DEF DelayInv, Delaying
  <2>4. lo = ram[LO] => Sample = STimerCnt
    BY SampleIs, DelayTypes
  <2>5. DelayShape => AtMost(1)'
    <3>1. CASE lo = ram[LO]
      BY <2>1, <2>2, <2>4, <3>1 DEF AtMost
    <3>2. CASE Ticked /\ STimerCnt <= time_to_tick
      BY <2>1, <2>2, <3>2, DelayTypes, Sizes DEF AtMost, Ticked
    <3> QED BY <2>1, <3>1, <3>2 DEF DelayShape
  <2>6. DelayShape => DelayShape'
    BY <2>1, <2>2, <2>5 DEF DelayShape
  <2> QED BY <2>1, <2>2, <2>3, <2>6 DEF DelayInv
<1>8. ASSUME NEW cause \in Connected, IRQHandler(cause)
      PROVE  DelayInv'
  BY <1>8, DelayRequest
<1>9. CASE IRQHandler_1
  BY <1>9, DelayTick
<1>10. CASE Reset
  BY <1>10 DEF Reset, DelayInv, Delaying
<1>11. CASE UNCHANGED vars
  BY <1>11 DEF vars, program, history, DelayInv, DelayShape, Fits, Target, AtMost, Ticked, STimerCnt
<1> QED BY <1>2, <1>3, <1>4, <1>5, <1>6, <1>7, <1>8, <1>9, <1>10, <1>11 DEF Next, Program

(* A delay that sees its target sees it at the tick that reaches it. *)
LEMMA ReturnOnTime ==
  ASSUME TypeOK, DelayInv, Return, Fits, ~TornNow
  PROVE  elapsed = delay_cycles + (IF torn THEN WordSize ELSE 0)
<1>1. pc = "while" /\ time_to_tick <= Sample
  BY DEF Return
<1>2. DelayShape
  BY <1>1 DEF DelayInv, Delaying
<1>3. Sample = STimerCnt - ram[LO] + lo
  BY SampleIs
<1>4. CASE lo = ram[LO] /\ AtMost(2)
  <2>1. STimerCnt = time_to_tick
    BY <1>1, <1>3, <1>4, DelayTypes DEF AtMost
  <2>2. start + elapsed = Target
    BY <1>1, <1>2, <2>1 DEF DelayShape
  <2> QED BY <2>2, DelayTypes, Sizes DEF Target
<1>5. CASE Ticked /\ STimerCnt <= time_to_tick
  <2>1. lo < WordSize - 1
    BY <1>5, DelayTypes, Sizes DEF Ticked, TornNow
  <2>2. Sample = STimerCnt - 1
    BY <1>3, <1>5, <2>1, DelayTypes DEF Ticked
  <2> QED BY <1>1, <1>5, <2>2, DelayTypes
<1> QED BY <1>1, <1>2, <1>4, <1>5 DEF DelayShape

(***************************************************************************)
(* delay lasts exactly the ticks asked for, unless one of its readings is  *)
(* torn by the carry of STimerCnt (main.c 45-60).                          *)
(***************************************************************************)
THEOREM DelayAccurateHolds == Spec => DelayAccurate
<1>1. Init => DelayInv
  BY DEF Init, DelayInv, Delaying
<1>2. TypeOK /\ DelayInv =>
        (Return /\ start + WordSize + delay_cycles < WordSize * WordSize /\ ~TornNow =>
           elapsed = delay_cycles + (IF torn THEN WordSize ELSE 0))
  BY ReturnOnTime DEF Fits
<1> QED BY <1>1, <1>2, TypeInit, TypeStep, DelayStep, PTL DEF Spec, DelayAccurate

-----------------------------------------------------------------------------
(***************************************************************************)
(* The lamps.  Before a line of a scan they show the row lit last, if its  *)
(* lamps have not been cleared since; before the count they show the count *)
(* before it.  Every line but the delays writes the port, so the lines     *)
(* between the delays have to be followed too.                             *)
(***************************************************************************)
RowOf(n) == (n - 3) \div 3

Lit ==
  IF at \in 6 .. 3 * Len(Rows(show)) + 4 /\ at % 3 # 2
    THEN Lamps \cap Rows(show)[RowOf(at)] ELSE {}

LedShape ==
  IF show = "count"
    THEN \/ led = Lamps \cap BitsOf((ram[CNT] - 1) % CntSize)
         \/ led = {} /\ ram[CNT] = 0
    ELSE at # 3 => led = Lit

LedInv ==
  /\ pc \in {"DIR", "CLEAR"} => ram[CNT] = 0
  /\ pc \in {"loop"} \cup Delaying => ram[CNT] \in 0 .. CntSize - 1 /\ LedShape
  /\ pc \in Delaying => Loop(show)[at].op = "delay"

LEMMA Concat3 ==
  ASSUME NEW A \in Seq(Lines), NEW B \in Seq(Lines), NEW C \in Seq(Lines)
  PROVE  /\ Len(A \o B \o C) = Len(A) + Len(B) + Len(C)
         /\ \A i \in 1 .. Len(A) : (A \o B \o C)[i] = A[i]
         /\ \A i \in 1 .. Len(B) : (A \o B \o C)[Len(A) + i] = B[i]
         /\ \A i \in 1 .. Len(C) : (A \o B \o C)[Len(A) + Len(B) + i] = C[i]
<1>1. /\ A \o B \in Seq(Lines) /\ Len(A \o B) = Len(A) + Len(B)
      /\ \A i \in 1 .. Len(A) + Len(B) :
           (A \o B)[i] = IF i <= Len(A) THEN A[i] ELSE B[i - Len(A)]
  BY ConcatProperties, Zenon
<1> DEFINE AB == A \o B
<1>2. AB \in Seq(Lines)
  BY <1>1
<1> HIDE DEF AB
<1>3. /\ Len(AB \o C) = Len(AB) + Len(C)
      /\ \A i \in 1 .. Len(AB) + Len(C) :
           (AB \o C)[i] = IF i <= Len(AB) THEN AB[i] ELSE C[i - Len(AB)]
  BY <1>2, ConcatProperties, Zenon
<1>4. /\ Len(AB) = Len(A) + Len(B)
      /\ \A i \in 1 .. Len(A) + Len(B) : AB[i] = IF i <= Len(A) THEN A[i] ELSE B[i - Len(A)]
  BY <1>1 DEF AB
<1>5. Len(A) \in Nat /\ Len(B) \in Nat /\ Len(C) \in Nat
  OBVIOUS
<1>6. /\ Len(AB \o C) = Len(A) + Len(B) + Len(C)
      /\ \A i \in 1 .. Len(A) : (AB \o C)[i] = A[i]
      /\ \A i \in 1 .. Len(B) : (AB \o C)[Len(A) + i] = B[i]
      /\ \A i \in 1 .. Len(C) : (AB \o C)[Len(A) + Len(B) + i] = C[i]
  BY <1>3, <1>4, <1>5
<1> QED BY <1>6 DEF AB

(* The lines of a scan, one after the other. *)
LEMMA ScanIs ==
  ASSUME NEW masks \in Seq(SUBSET Int)
  PROVE  /\ Len(Scan(masks)) = 3 * Len(masks) + 3
         /\ Scan(masks)[1] = Clear(Bits) /\ Scan(masks)[2] = Delay
         /\ Scan(masks)[3 * Len(masks) + 3] = Delay
         /\ \A i \in 1 .. Len(masks) :
              /\ Scan(masks)[3 * i] = Set(masks[i])
              /\ Scan(masks)[3 * i + 1] = Delay
              /\ Scan(masks)[3 * i + 2] = Clear(IF i = Len(masks) THEN Bits ELSE masks[i])
<1> DEFINE N == Len(masks)
           n == 3 * N
           Line(k) == ScanLineAt(masks, k)
           A == <<Clear(Bits), Delay>>
           B == [k \in 1 .. n |-> Line(k)]
           C == <<Delay>>
           all == A \o B \o C
<1>1. N \in Nat /\ n \in Nat /\ n = 3 * N
  OBVIOUS
<1>2. ASSUME NEW i \in 1 .. N
      PROVE  /\ Line(3 * i - 2) = Set(masks[i]) /\ Line(3 * i - 1) = Delay
             /\ Line(3 * i) = Clear(IF i = Len(masks) THEN Bits ELSE masks[i])
  <2>1. i \in Nat
    BY <1>1
  <2>2. /\ (3 * i - 2) % 3 = 1 /\ ((3 * i - 2) + 2) \div 3 = i
        /\ (3 * i - 1) % 3 = 2
        /\ (3 * i) % 3 = 0 /\ (3 * i + 2) \div 3 = i
    BY <2>1
  <2>3. /\ \A k : k % 3 = 1 => Line(k) = Set(masks[(k + 2) \div 3])
        /\ \A k : k % 3 = 2 => Line(k) = Delay
        /\ \A k : k % 3 = 0 =>
             Line(k) = Clear(IF (k + 2) \div 3 = Len(masks) THEN Bits ELSE masks[(k + 2) \div 3])
    BY DEF ScanLineAt
  <2> HIDE DEF Line
  <2> QED BY <2>2, <2>3
<1>3. ASSUME NEW k \in 1 .. n
      PROVE  Line(k) \in Lines
  BY <1>3, ScanLine
<1>4. Scan(masks) = all
  BY DEF Scan, ScanLineAt
<1> HIDE DEF Line, N, n
<1>5. A \in Seq(Lines) /\ C \in Seq(Lines) /\ Len(A) = 2 /\ Len(C) = 1
      /\ A[1] = Clear(Bits) /\ A[2] = Delay /\ C[1] = Delay
  BY DEF Clear, Delay, Lines, Bits
<1>6. B \in Seq(Lines) /\ Len(B) = n
  BY <1>1, <1>3
<1>7. \A k \in 1 .. n : B[k] = Line(k)
  OBVIOUS
<1> HIDE DEF A, B, C
<1>8. /\ Len(all) = n + 3
      /\ all[1] = Clear(Bits) /\ all[2] = Delay /\ all[n + 3] = Delay
      /\ \A k \in 1 .. n : all[k + 2] = Line(k)
  <2>1. /\ Len(all) = Len(A) + Len(B) + Len(C)
        /\ \A i \in 1 .. Len(A) : all[i] = A[i]
        /\ \A i \in 1 .. Len(B) : all[Len(A) + i] = B[i]
        /\ \A i \in 1 .. Len(C) : all[Len(A) + Len(B) + i] = C[i]
    <3>1. A \in Seq(Lines) /\ B \in Seq(Lines) /\ C \in Seq(Lines)
      BY <1>5, <1>6
    <3> QED BY <3>1, Concat3
  <2> HIDE DEF all
  <2>2. \A k \in 1 .. n : all[2 + k] = Line(k) /\ 2 + k = k + 2
    BY <1>1, <1>5, <1>6, <1>7, <2>1
  <2>3. all[n + 3] = C[1]
    BY <1>1, <1>5, <1>6, <2>1
  <2> QED BY <1>1, <1>5, <1>6, <2>1, <2>2, <2>3
<1> HIDE DEF all
<1>9. ASSUME NEW i \in 1 .. N
      PROVE  /\ all[3 * i] = Set(masks[i]) /\ all[3 * i + 1] = Delay
             /\ all[3 * i + 2] = Clear(IF i = Len(masks) THEN Bits ELSE masks[i])
  <2>1. 3 * i - 2 \in 1 .. n /\ 3 * i - 1 \in 1 .. n /\ 3 * i \in 1 .. n
        /\ (3 * i - 2) + 2 = 3 * i /\ (3 * i - 1) + 2 = 3 * i + 1
    BY <1>1
  <2> QED BY <1>2, <1>8, <2>1
<1> QED BY <1>1, <1>4, <1>8, <1>9 DEF N, n

(* The loop of a show, numbered as at numbers it. *)
LEMMA LoopIs ==
  ASSUME NEW s \in Shows
  PROVE  /\ s = "count" => /\ Len(Loop(s)) = 2
                           /\ Loop(s)[1].op = "delay" /\ Loop(s)[2].op = "count"
         /\ s # "count" =>
              LET m == Rows(s)
                  N == Len(m)
              IN /\ m \in Seq(SUBSET Int) /\ N \in Nat \ {0} /\ Len(Loop(s)) = 3 * N + 5
                 /\ Loop(s)[1].op = "delay" /\ Loop(s)[2].op = "count"
                 /\ Loop(s)[3] = Clear(Bits) /\ Loop(s)[4].op = "delay"
                 /\ Loop(s)[3 * N + 5].op = "delay"
                 /\ \A i \in 1 .. N :
                      /\ Loop(s)[3 * i + 2] = Set(m[i])
                      /\ Loop(s)[3 * i + 3].op = "delay"
                      /\ Loop(s)[3 * i + 4] = Clear(IF i = N THEN Bits ELSE m[i])
<1> DEFINE A == <<Delay, Count>>
<1>1. /\ A \in Seq(Lines) /\ Len(A) = 2 /\ A[1].op = "delay" /\ A[2].op = "count"
      /\ Delay.op = "delay"
  BY DEF Delay, Count, Lines
<1>2. CASE s = "count"
  <2>1. Loop(s) = A \o <<>>
    BY <1>2 DEF Loop
  <2>2. A \o <<>> = A
    BY <1>1
  <2> QED BY <1>1, <1>2, <2>1, <2>2
<1>3. CASE s # "count"
  <2> DEFINE m == Rows(s)
             N == Len(m)
             B == Scan(m)
  <2>1. m \in Seq(SUBSET Int) /\ N \in Nat \ {0}
    <3>1. left_to_right \in Seq(SUBSET Int) /\ Len(left_to_right) = 8
      BY DEF left_to_right
    <3>2. right_to_left \in Seq(SUBSET Int) /\ Len(right_to_left) = 8
      BY DEF right_to_left
    <3>3. center_to_center \in Seq(SUBSET Int) /\ Len(center_to_center) = 7
      BY DEF center_to_center
    <3>4. m \in {left_to_right, right_to_left, center_to_center}
      BY <1>3 DEF Rows, Shows
    <3>5. m \in Seq(SUBSET Int) /\ Len(m) \in {7, 8}
      BY <3>1, <3>2, <3>3, <3>4, Zenon
    <3> HIDE DEF m
    <3> QED BY <3>5
  <2>2. Loop(s) = A \o B
    BY <1>3 DEF Loop
  <2> HIDE DEF m, N
  <2>3. /\ B \in Seq(Lines) /\ Len(B) = 3 * N + 3
        /\ B[1] = Clear(Bits) /\ B[2] = Delay /\ B[3 * N + 3] = Delay
        /\ \A i \in 1 .. N :
             /\ B[3 * i] = Set(m[i]) /\ B[3 * i + 1] = Delay
             /\ B[3 * i + 2] = Clear(IF i = N THEN Bits ELSE m[i])
    BY <2>1, ScanLines, ScanIs DEF N
  <2> HIDE DEF A, B
  <2>4. /\ Len(A \o B) = 2 + Len(B)
        /\ \A i \in 1 .. 2 + Len(B) : (A \o B)[i] = IF i <= 2 THEN A[i] ELSE B[i - 2]
    <3>1. /\ Len(A \o B) = Len(A) + Len(B)
          /\ \A i \in 1 .. Len(A) + Len(B) :
               (A \o B)[i] = IF i <= Len(A) THEN A[i] ELSE B[i - Len(A)]
      BY <1>1, <2>3, ConcatProperties, Zenon
    <3> QED BY <1>1, <3>1, Zenon
  <2> DEFINE L == A \o B
  <2> HIDE DEF L
  <2>5. /\ Len(L) = 3 * N + 5
        /\ L[1].op = "delay" /\ L[2].op = "count"
        /\ L[3] = Clear(Bits) /\ L[4].op = "delay" /\ L[3 * N + 5].op = "delay"
    <3>1. N \in Nat
      BY <2>1
    <3>2. Len(L) = 3 * N + 5
      BY <2>3, <2>4, <3>1 DEF L
    <3>3. 1 \in 1 .. 2 + Len(B) /\ 2 \in 1 .. 2 + Len(B) /\ 3 \in 1 .. 2 + Len(B)
          /\ 4 \in 1 .. 2 + Len(B) /\ 3 * N + 5 \in 1 .. 2 + Len(B)
          /\ 3 * N + 5 > 2 /\ (3 * N + 5) - 2 = 3 * N + 3
      BY <2>3, <3>1
    <3>4. L[1] = A[1] /\ L[2] = A[2] /\ L[3] = B[1] /\ L[4] = B[2] /\ L[3 * N + 5] = B[3 * N + 3]
      BY <2>4, <3>3 DEF L
    <3>5. B[2].op = "delay" /\ B[3 * N + 3].op = "delay"
      BY <2>3 DEF Delay
    <3> QED BY <1>1, <2>3, <3>2, <3>4, <3>5
  <2>6. ASSUME NEW i \in 1 .. N
        PROVE  /\ L[3 * i + 2] = Set(m[i]) /\ L[3 * i + 3].op = "delay"
               /\ L[3 * i + 4] = Clear(IF i = N THEN Bits ELSE m[i])
    <3>1. \A j \in {3 * i, 3 * i + 1, 3 * i + 2} : L[j + 2] = B[j]
      <4>1. N \in Nat /\ Len(B) = 3 * N + 3
        BY <2>1, <2>3
      <4>2. \A j \in {3 * i, 3 * i + 1, 3 * i + 2} :
              j + 2 \in 1 .. 2 + Len(B) /\ j + 2 > 2 /\ (j + 2) - 2 = j
        BY <4>1
      <4>3. \A j \in 1 .. 2 + Len(B) : j > 2 => L[j] = B[j - 2]
        <5>1. \A j \in 1 .. 2 + Len(B) : L[j] = IF j <= 2 THEN A[j] ELSE B[j - 2]
          BY <2>4 DEF L
        <5>2. \A j \in 1 .. 2 + Len(B) : j > 2 => ~(j <= 2)
          BY <4>1
        <5> QED BY <5>1, <5>2
      <4> QED BY <4>2, <4>3
    <3>2. 3 * i + 3 = (3 * i + 1) + 2 /\ 3 * i + 4 = (3 * i + 2) + 2
      BY <2>1
    <3>3. /\ B[3 * i] = Set(m[i]) /\ B[3 * i + 1] = Delay
          /\ B[3 * i + 2] = Clear(IF i = N THEN Bits ELSE m[i])
      BY <2>3
    <3>4. L[3 * i + 2] = B[3 * i] /\ L[3 * i + 3] = B[3 * i + 1] /\ L[3 * i + 4] = B[3 * i + 2]
      BY <3>1, <3>2
    <3> QED BY <1>1, <3>3, <3>4
  <2>7. Loop(s) = L
    BY <2>2 DEF L
  <2> QED BY <1>3, <2>1, <2>5, <2>6, <2>7 DEF m, N
<1> QED BY <1>2, <1>3

(* Which line of a scan at is, and what is lit there. *)
LEMMA LineCases ==
  ASSUME TypeOK, show # "count"
  PROVE  LET m == Rows(show)
             N == Len(m)
         IN /\ N \in Nat \ {0} /\ m \in Seq(SUBSET Int) /\ at \in Nat
            /\ \/ at \in {1, 2, 3, 4, 3 * N + 5}
               \/ \E i \in 1 .. N : at \in {3 * i + 2, 3 * i + 3, 3 * i + 4}
<1> DEFINE N == Len(Rows(show))
<1>1. N \in Nat \ {0} /\ Rows(show) \in Seq(SUBSET Int) /\ at \in 1 .. 3 * N + 5
  BY LoopIs, LoopLines DEF TypeOK
<1> HIDE DEF N
<1>2. ASSUME at \notin {1, 2, 3, 4, 3 * N + 5}
      PROVE  \E i \in 1 .. N : at \in {3 * i + 2, 3 * i + 3, 3 * i + 4}
  <2>1. \A a, b \in Nat : 5 <= a /\ a <= 3 * b + 4 =>
           (a - 2) \div 3 \in 1 .. b /\ a - 2 - 3 * ((a - 2) \div 3) \in {0, 1, 2}
    OBVIOUS
  <2>2. at \in Nat /\ 5 <= at /\ at <= 3 * N + 4
    BY <1>1, <1>2
  <2>3. (at - 2) \div 3 \in 1 .. N
    BY <1>1, <2>1, <2>2
  <2>4. at - 2 - 3 * ((at - 2) \div 3) \in {0, 1, 2}
    BY <1>1, <2>1, <2>2
  <2> WITNESS (at - 2) \div 3 \in 1 .. N
  <2>5. (at - 2) \div 3 \in Int
    BY <2>3
  <2> QED BY <2>2, <2>4, <2>5
<1> QED BY <1>1, <1>2 DEF N

(* Lit at each line; LitAt is Lit with the line as a parameter. *)
LitAt(n) ==
  IF n \in 6 .. 3 * Len(Rows(show)) + 4 /\ n % 3 # 2
    THEN Lamps \cap Rows(show)[RowOf(n)] ELSE {}

LEMMA LitIs ==
  ASSUME TypeOK, show # "count"
  PROVE  LET N == Len(Rows(show))
         IN /\ LitAt(1) = {} /\ LitAt(2) = {} /\ LitAt(4) = {} /\ LitAt(5) = {}
            /\ LitAt(3 * N + 5) = {}
            /\ \A i \in 1 .. N :
                 /\ LitAt(3 * i + 2) = {}
                 /\ LitAt(3 * i + 3) = Lamps \cap Rows(show)[i]
                 /\ LitAt(3 * i + 4) = Lamps \cap Rows(show)[i]
<1> DEFINE N == Len(Rows(show))
<1>1. N \in Nat \ {0}
  BY LineCases
<1> HIDE DEF N
<1>2. LitAt(1) = {} /\ LitAt(2) = {} /\ LitAt(4) = {} /\ LitAt(5) = {}
  BY DEF LitAt
<1>3. LitAt(3 * N + 5) = {}
  BY <1>1 DEF LitAt, N
<1>4. ASSUME NEW i \in 1 .. N
      PROVE  /\ LitAt(3 * i + 2) = {}
             /\ LitAt(3 * i + 3) = Lamps \cap Rows(show)[i]
             /\ LitAt(3 * i + 4) = Lamps \cap Rows(show)[i]
  <2>1. i \in Nat /\ i >= 1 /\ i <= N
    BY <1>1
  <2>2. (3 * i + 2) % 3 = 2 /\ (3 * i + 3) % 3 = 0 /\ (3 * i + 4) % 3 = 1
    BY <2>1
  <2>3. RowOf(3 * i + 3) = i /\ RowOf(3 * i + 4) = i
    BY <2>1 DEF RowOf
  <2>4. 3 * i + 3 \in 6 .. 3 * N + 4 /\ 3 * i + 4 \in 6 .. 3 * N + 4
    BY <1>1, <2>1
  <2> QED BY <2>2, <2>3, <2>4 DEF LitAt, N
<1> QED BY <1>2, <1>3, <1>4 DEF N

(* A delay leaves the lamps as they are, and the next line finds them so. *)
LEMMA AfterDelay ==
  ASSUME TypeOK, LedShape, Loop(show)[at].op = "delay", at' = NextLine,
         show' = show, led' = led, ram'[CNT] = ram[CNT]
  PROVE  LedShape'
<1>1. show \in Shows /\ show' = show
  BY DEF TypeOK
<1>2. CASE show = "count"
  BY <1>1, <1>2 DEF LedShape
<1>3. CASE show # "count"
  <2> DEFINE N == Len(Rows(show))
  <2>1. led = LitAt(at) \/ at = 3
    BY <1>3 DEF LedShape, Lit, LitAt
  <2>2. Lit' = LitAt(NextLine)
    BY <1>1 DEF Lit, LitAt
  <2>3. at # 3 /\ at # 2
    BY <1>1, <1>3, LoopIs DEF Clear
  <2>4. NextLine = IF at = 3 * N + 5 THEN 1 ELSE at + 1
    BY <1>1, <1>3, LoopIs DEF NextLine
  <2>5. LitAt(NextLine) = LitAt(at) \/ NextLine = 3
    <3>1. CASE at \in {1, 2, 3, 4, 3 * N + 5}
      <4>1. N \in Nat \ {0}
        BY <1>3, LineCases
      <4> HIDE DEF N
      <4>2. at = 1 => NextLine = 2
        BY <2>4, <4>1
      <4>3. at = 4 => NextLine = 5
        BY <2>4, <4>1
      <4>4. at = 3 * N + 5 => NextLine = 1
        BY <2>4
      <4> QED BY <1>3, <2>3, <3>1, <4>2, <4>3, <4>4, LitIs DEF N
    <3>2. ASSUME NEW i \in 1 .. N, at \in {3 * i + 2, 3 * i + 3, 3 * i + 4}
          PROVE  LitAt(NextLine) = LitAt(at)
      <4>1. N \in Nat \ {0}
        BY <1>3, LineCases
      <4>2. at = 3 * i + 3
        <5>1. /\ Loop(show)[3 * i + 2] = Set(Rows(show)[i])
              /\ Loop(show)[3 * i + 4] = Clear(IF i = N THEN Bits ELSE Rows(show)[i])
          BY <1>1, <1>3, <3>2, LoopIs
        <5>2. \A mask : Set(mask).op = "SET" /\ Clear(mask).op = "CLEAR"
          BY DEF Set, Clear
        <5>3. at # 3 * i + 2 /\ at # 3 * i + 4
          BY <5>1, <5>2
        <5> QED BY <3>2, <5>3
      <4>3. NextLine = 3 * i + 4
        <5> HIDE DEF N
        <5> QED BY <2>4, <4>1, <4>2
      <4> QED BY <1>3, <4>2, <4>3, LitIs
    <3> QED BY <1>3, <3>1, <3>2, LineCases
  <2> QED BY <1>1, <1>3, <2>1, <2>2, <2>3, <2>5 DEF LedShape
<1> QED BY <1>2, <1>3

(* The count that was shown, from the one that comes next. *)
LEMMA CountBack ==
  ASSUME NEW cnt \in 0 .. CntSize - 1
  PROVE  (cnt + 1) % CntSize \in 0 .. CntSize - 1
         /\ (((cnt + 1) % CntSize) - 1) % CntSize = cnt
<1>1. CntSize \in Nat \ {0} /\ cnt \in Nat /\ cnt < CntSize
  BY Sizes
<1>2. CASE cnt + 1 < CntSize
  BY <1>1, <1>2
<1>3. CASE cnt + 1 = CntSize
  <2>1. (cnt + 1) % CntSize = 0
    BY <1>1, <1>3
  <2>2. (0 - 1) % CntSize = CntSize - 1
    BY <1>1
  <2> QED BY <1>1, <1>3, <2>1, <2>2
<1> QED BY <1>1, <1>2, <1>3

LEMMA PortIs ==
  ASSUME NEW mask
  PROVE  /\ Port(OUT, mask) => led' = Lamps \cap mask
         /\ Port(OUTSET, mask) => led' = Lamps \cap (led \cup mask)
         /\ Port(OUTCLR, mask) => led' = Lamps \cap (led \ mask)
         /\ Port(DIR, mask) => led' = Lamps \cap led
  BY DEF Port, OUT, OUTSET, OUTCLR, DIR

(* A line that writes the port leaves what the next line wants to find. *)
LEMMA AfterWrite ==
  ASSUME TypeOK, LedInv, Write
  PROVE  LedShape' /\ ram'[CNT] \in 0 .. CntSize - 1
<1> DEFINE line == Loop(show)[at]
           cnt == ram[CNT]
<1>1. /\ pc = "loop" /\ at' = NextLine /\ show' = show /\ show \in Shows
      /\ cnt \in 0 .. CntSize - 1 /\ LedShape /\ led \subseteq Lamps /\ Lamps \subseteq Bits
      /\ ram \in [Cells -> Word] /\ CNT \in Cells
      /\ line.op \in {"count", "SET", "CLEAR"}
  BY AppAssumption, Sizes DEF Write, Step, TypeOK, LedInv
<1>2. line.op = "count" =>
        led' = Lamps \cap BitsOf(cnt) /\ ram'[CNT] = (cnt + 1) % CntSize
  <2>1. line.op = "count" =>
          Port(OUT, BitsOf(cnt)) /\ ram' = [ram EXCEPT ![CNT] = (cnt + 1) % CntSize]
    BY DEF Write
  <2> HIDE DEF line, cnt
  <2>2. ram' = [ram EXCEPT ![CNT] = (cnt + 1) % CntSize] => ram'[CNT] = (cnt + 1) % CntSize
    BY <1>1
  <2> QED BY <2>1, <2>2, PortIs
<1>3. line.op = "SET" => led' = Lamps \cap (led \cup line.mask) /\ ram' = ram
  <2>1. line.op = "SET" => Port(OUTSET, line.mask) /\ ram' = ram
    BY DEF Write
  <2> HIDE DEF line
  <2> QED BY <2>1, PortIs
<1>4. line.op = "CLEAR" => led' = Lamps \cap (led \ line.mask) /\ ram' = ram
  <2>1. line.op = "CLEAR" => Port(OUTCLR, line.mask) /\ ram' = ram
    BY DEF Write
  <2> HIDE DEF line
  <2> QED BY <2>1, PortIs
<1>5. ram'[CNT] \in 0 .. CntSize - 1
  BY <1>1, <1>2, <1>3, <1>4, CountBack
<1>6. CASE show = "count"
  <2>1. line.op = "count"
    BY <1>1, <1>6, LoopIs, LoopLines DEF TypeOK
  <2>2. led' = Lamps \cap BitsOf((ram'[CNT] - 1) % CntSize)
    BY <1>1, <1>2, <2>1, CountBack
  <2> QED BY <1>1, <1>5, <1>6, <2>2 DEF LedShape
<1>7. CASE show # "count"
  <2> DEFINE m == Rows(show)
             N == Len(m)
  <2>1. N \in Nat \ {0} /\ m \in Seq(SUBSET Int)
    BY <1>7, LineCases
  <2>2. NextLine = IF at = 3 * N + 5 THEN 1 ELSE at + 1
    BY <1>1, <1>7, LoopIs DEF NextLine
  <2>3. ASSUME led' = LitAt(NextLine) \/ NextLine = 3
        PROVE  LedShape'
    BY <1>1, <1>7, <2>3 DEF LedShape, Lit, LitAt
  <2>4. \A mask : Set(mask).op = "SET" /\ Set(mask).mask = mask
                  /\ Clear(mask).op = "CLEAR" /\ Clear(mask).mask = mask
    BY DEF Set, Clear
  <2>5. led = LitAt(at) \/ at = 3
    BY <1>1, <1>7 DEF LedShape, Lit, LitAt
  <2> HIDE DEF N, m, line, cnt
  <2>6. CASE at \in {1, 2, 3, 4, 3 * N + 5}
    <3>1. at = 2 \/ at = 3
      BY <1>1, <1>7, <2>6, LoopIs DEF line, m, N
    <3>2. at = 2 => NextLine = 3
      BY <2>1, <2>2
    <3>3. at = 3 => NextLine = 4
      BY <2>1, <2>2
    <3>4. at = 3 => led' = {}
      <4>1. at = 3 => line = Clear(Bits)
        BY <1>1, <1>7, LoopIs DEF line
      <4> QED BY <1>1, <1>4, <2>4, <4>1
    <3> QED BY <1>5, <1>7, <2>3, <3>1, <3>2, <3>3, <3>4, LitIs
  <2>7. ASSUME NEW i \in 1 .. N, at \in {3 * i + 2, 3 * i + 3, 3 * i + 4}
        PROVE  LedShape'
    <3>1. /\ Loop(show)[3 * i + 2] = Set(m[i]) /\ Loop(show)[3 * i + 3].op = "delay"
          /\ Loop(show)[3 * i + 4] = Clear(IF i = N THEN Bits ELSE m[i])
      BY <1>1, <1>7, LoopIs DEF m, N
    <3>2. /\ LitAt(3 * i + 2) = {} /\ LitAt(3 * i + 3) = Lamps \cap m[i]
          /\ LitAt(3 * i + 4) = Lamps \cap m[i]
          /\ LitAt(3 * N + 5) = {}
      BY <1>7, LitIs DEF m, N
    <3>3. i \in Nat /\ i <= N
      BY <2>1
    <3>4. CASE at = 3 * i + 2
      <4>1. led' = Lamps \cap (led \cup m[i])
        BY <1>3, <2>4, <3>1, <3>4 DEF line
      <4>2. led = {}
        BY <2>5, <3>2, <3>3, <3>4
      <4>3. NextLine = 3 * i + 3
        BY <2>1, <2>2, <3>3, <3>4
      <4> QED BY <2>3, <3>2, <4>1, <4>2, <4>3
    <3>5. CASE at = 3 * i + 4
      <4>1. led' = Lamps \cap (led \ (IF i = N THEN Bits ELSE m[i]))
        BY <1>4, <2>4, <3>1, <3>5 DEF line
      <4>2. led = Lamps \cap m[i]
        BY <2>5, <3>2, <3>3, <3>5
      <4>3. led' = {}
        BY <1>1, <4>1, <4>2
      <4>4. CASE i = N
        BY <2>1, <2>2, <2>3, <3>2, <3>5, <4>3, <4>4
      <4>5. CASE i < N
        <5>1. i + 1 \in 1 .. N /\ NextLine = 3 * (i + 1) + 2
          BY <2>1, <2>2, <3>3, <3>5, <4>5
        <5>2. LitAt(3 * (i + 1) + 2) = {}
          BY <1>7, <5>1, LitIs DEF N, m
        <5> QED BY <2>3, <4>3, <5>1, <5>2
      <4> QED BY <2>1, <3>3, <4>4, <4>5
    <3>6. at # 3 * i + 3
      BY <1>1, <3>1 DEF line
    <3> QED BY <2>7, <3>4, <3>5, <3>6
  <2>8. \/ at \in {1, 2, 3, 4, 3 * N + 5}
        \/ \E i \in 1 .. N : at \in {3 * i + 2, 3 * i + 3, 3 * i + 4}
    BY <1>7, LineCases DEF N, m
  <2> QED BY <1>5, <2>6, <2>7, <2>8
<1> QED BY <1>5, <1>6, <1>7

LEMMA LedStep == TypeOK /\ BootInv /\ LedInv /\ [Next]_vars => LedInv'
<1> SUFFICES ASSUME TypeOK, BootInv, LedInv, [Next]_vars PROVE LedInv'
  OBVIOUS
<1>0. show' = show /\ show \in Shows
  BY DEF Next, Program, _entry, copy_section, zero_section, _start, main, Write, CallDelay,
         SetTimeToTick, LoadLow, KeepWaiting, Return, Step, IRQHandler, IRQHandler_1, Reset,
         vars, TypeOK
<1>1. ASSUME pc' \in {"_entry", "copy_section", "zero_section", "_start"}
      PROVE  LedInv'
  BY <1>1 DEF LedInv, Delaying
<1>2. CASE _entry \/ copy_section \/ zero_section \/ Reset
  <2>1. pc' \in {"_entry", "copy_section", "zero_section", "_start"}
    BY <1>2 DEF _entry, copy_section, zero_section, Goto, Reset
  <2> QED BY <1>1, <2>1
<1>3. CASE _start
  <2>1. CASE UNCHANGED pc
    BY <1>1, <1>3, <2>1 DEF _start
  <2>2. CASE Goto("DIR") /\ UNCHANGED <<ram, elapsed>>
    BY <1>3, <2>2 DEF _start, Goto, BootInv, LedInv, Delaying
  <2> QED BY <1>3, <2>1, <2>2 DEF _start
<1>4. CASE main
  <2>1. /\ pc \in {"DIR", "CLEAR"} /\ pc' = (IF pc = "DIR" THEN "CLEAR" ELSE "loop")
        /\ at' = 1 /\ ram' = ram /\ ram[CNT] = 0
    BY <1>4 DEF main, Goto, LedInv
  <2>2. pc = "CLEAR" => led' = {}
    BY <1>4, PortIs, AppAssumption DEF main, TypeOK
  <2>3. pc = "CLEAR" => LedShape'
    BY <1>0, <2>1, <2>2 DEF LedShape, Lit
  <2>4. 0 \in 0 .. CntSize - 1
    BY Sizes
  <2> QED BY <2>1, <2>3, <2>4 DEF LedInv, Delaying
<1>5. CASE Write
  <2>1. pc' = "loop"
    BY <1>5 DEF Write
  <2> QED BY <1>5, <2>1, AfterWrite DEF LedInv, Delaying
<1>6. ASSUME pc \in {"loop"} \cup Delaying, pc' \in {"loop"} \cup Delaying,
             LedShape', ram'[CNT] = ram[CNT],
             pc' \in Delaying => Loop(show)[at'].op = "delay"
      PROVE  LedInv'
  BY <1>0, <1>6 DEF LedInv, Delaying
<1>7. (pc \in {"loop"} \cup Delaying /\ UNCHANGED <<at, led>> /\ ram'[CNT] = ram[CNT]) => LedShape'
  BY <1>0 DEF LedInv, LedShape, Lit
<1>8. CASE CallDelay
  <2>1. /\ pc = "loop" /\ Loop(show)[at].op = "delay" /\ pc' = "time_to_tick"
        /\ UNCHANGED <<at, led, ram>>
    BY <1>8 DEF CallDelay, Goto
  <2> QED BY <1>6, <1>7, <2>1 DEF Delaying
<1>9. CASE SetTimeToTick \/ LoadLow \/ KeepWaiting
  <2>1. pc \in Delaying /\ pc' \in Delaying /\ UNCHANGED <<at, led, ram>>
    BY <1>9 DEF SetTimeToTick, LoadLow, KeepWaiting, Goto, Delaying
  <2>2. Loop(show)[at].op = "delay"
    BY <2>1 DEF LedInv
  <2> QED BY <1>6, <1>7, <2>1, <2>2
<1>10. CASE Return
  <2>1. /\ pc \in Delaying /\ pc' = "loop" /\ at' = NextLine /\ UNCHANGED <<led, ram>>
    BY <1>10 DEF Return, Goto, Delaying
  <2>2. LedShape /\ Loop(show)[at].op = "delay"
    BY <2>1 DEF LedInv
  <2>3. LedShape'
    BY <1>0, <2>1, <2>2, AfterDelay
  <2> QED BY <1>6, <2>1, <2>3 DEF Delaying
<1>11. ASSUME UNCHANGED <<pc, at, led>>, ram'[CNT] = ram[CNT]
       PROVE  LedInv'
  BY <1>0, <1>7, <1>11 DEF LedInv
<1>12. ASSUME NEW cause \in Connected, IRQHandler(cause)
       PROVE  LedInv'
  BY <1>11, <1>12 DEF IRQHandler, program
<1>13. CASE IRQHandler_1
  <2>1. ram'[CNT] = ram[CNT]
    BY <1>13, Tick, Sizes
  <2> QED BY <1>11, <1>13, <2>1 DEF IRQHandler_1, program
<1>14. CASE UNCHANGED vars
  BY <1>11, <1>14 DEF vars, program
<1> QED BY <1>2, <1>3, <1>4, <1>5, <1>8, <1>9, <1>10, <1>12, <1>13, <1>14 DEF Next, Program

(***************************************************************************)
(* While delay runs the lamps show one row of the pattern, or none, in     *)
(* every show and for every set of lamps on the board (main.c 63-151).     *)
(***************************************************************************)
THEOREM LedShowsHolds == Spec => []LedShows
<1>1. Init => LedInv /\ BootInv
  BY DEF Init, LedInv, BootInv, Delaying
<1>2. TypeOK /\ LedInv => LedShows
  <2> SUFFICES ASSUME TypeOK, LedInv, pc \in Delaying
               PROVE  IF show = "count"
                        THEN \/ led = Lamps \cap BitsOf((ram[CNT] - 1) % CntSize)
                             \/ led = {} /\ ram[CNT] = 0
                        ELSE led = IF \E i \in DOMAIN Rows(show) : at = 3 * i + 3
                                     THEN Lamps \cap Rows(show)[(at - 3) \div 3]
                                     ELSE {}
    BY DEF LedShows
  <2>1. LedShape /\ Loop(show)[at].op = "delay" /\ show \in Shows
    BY DEF LedInv, TypeOK
  <2>2. CASE show = "count"
    BY <2>1, <2>2 DEF LedShape
  <2>3. CASE show # "count"
    <3> DEFINE m == Rows(show)
               N == Len(m)
    <3>1. N \in Nat \ {0} /\ m \in Seq(SUBSET Int) /\ DOMAIN m = 1 .. N
      BY <2>3, LineCases
    <3>2. \A mask : Set(mask).op = "SET" /\ Clear(mask).op = "CLEAR"
      BY DEF Set, Clear
    <3>3. at # 3
      BY <2>1, <2>3, <3>2, LoopIs
    <3>4. led = LitAt(at)
      BY <2>1, <2>3, <3>3 DEF LedShape, Lit, LitAt
    <3> HIDE DEF m, N
    <3>5. ASSUME NEW i \in 1 .. N, at \in {3 * i + 2, 3 * i + 3, 3 * i + 4}
          PROVE  at = 3 * i + 3
      <4>1. /\ Loop(show)[3 * i + 2] = Set(m[i])
            /\ Loop(show)[3 * i + 4] = Clear(IF i = N THEN Bits ELSE m[i])
        BY <2>1, <2>3, LoopIs DEF m, N
      <4> QED BY <2>1, <3>2, <3>5, <4>1
    <3>6. CASE \E i \in 1 .. N : at = 3 * i + 3
      <4>1. PICK i \in 1 .. N : at = 3 * i + 3
        BY <3>6
      <4>2. (at - 3) \div 3 = i
        BY <3>1, <4>1
      <4>3. led = Lamps \cap m[i]
        BY <2>3, <3>4, <4>1, LitIs DEF m, N
      <4> QED BY <2>3, <3>1, <3>6, <4>2, <4>3 DEF m
    <3>7. CASE ~\E i \in 1 .. N : at = 3 * i + 3
      <4>1. at \in {1, 2, 3, 4, 3 * N + 5}
        BY <2>3, <3>5, <3>7, LineCases DEF m, N
      <4>2. led = {}
        BY <2>3, <3>3, <3>4, <4>1, LitIs DEF m, N
      <4> QED BY <2>3, <3>1, <3>7, <4>2 DEF m
    <3> QED BY <3>6, <3>7
  <2> QED BY <2>2, <2>3
<1> QED BY <1>1, <1>2, TypeInit, TypeStep, BootStep, LedStep, PTL DEF Spec
=============================================================================
