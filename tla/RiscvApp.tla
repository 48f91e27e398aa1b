------------------------------ MODULE RiscvApp ------------------------------
(***************************************************************************)
(* The example application on its board, from reset: _entry (entry.S),     *)
(* _begin (init.c) which initialises .data and .bss, main and delay        *)
(* (main.c), the timer interrupt with its table of handlers (riscv_hal.c), *)
(* and the LED port of arduFPGA.v.                                         *)
(*                                                                         *)
(* A step of the program is one access to memory or to the port: these are *)
(* the places an interrupt can tell apart.  That a handler returns to what *)
(* it interrupted, with interrupts masked meanwhile, is what RiscvHandler  *)
(* and RiscvCore show; here it runs as a whole between two steps.          *)
(*                                                                         *)
(* The 64-bit STimerCnt is two words, read low word first, as in the image *)
(* core1ROM_LightTest.mem of both boards.                                  *)
(***************************************************************************)
EXTENDS Integers, Sequences

CONSTANTS
  WordSize,       \* number of values of a 32-bit word
  CntSize,        \* of the unsigned char cnt
  DataWords,      \* words of .data
  LoadImage,      \* what the linker put at __data_load_addr__
  delay_cycles,
  Lamps,          \* the bits of the LED port that exist: led[2:0] on the Lattice board
  Connected,      \* interrupt inputs with a device behind them; rtc is 0
  GAP,            \* steps of the program that fit between two requests of rtc
  MaxElapsed      \* where the history stops counting ticks

Word == 0 .. WordSize - 1
Long == 0 .. WordSize * WordSize - 1
Bits == 0 .. 7

ASSUME AppAssumption ==
  /\ WordSize \in Nat /\ WordSize >= 2 /\ CntSize \in 1 .. WordSize
  /\ DataWords \in Nat /\ LoadImage \in [1 .. DataWords -> Word]
  /\ delay_cycles \in Word \ {0} /\ Lamps \subseteq Bits
  /\ Connected \subseteq 0 .. 15
  /\ GAP \in Nat /\ GAP >= 3
  /\ MaxElapsed \in Nat /\ MaxElapsed > WordSize + delay_cycles

-----------------------------------------------------------------------------
(* The words of RAM that the linker script places, .data before .bss. *)
LO    == DataWords + 1
HI    == DataWords + 2
CNT   == DataWords + 3
Cells == 1 .. CNT

VARIABLES
  pc, p, at,          \* where the program is, in which word, in which line of the loop
  show,               \* which of main.c 163-166 the loop calls
  lo, time_to_tick,   \* registers of delay
  handler,            \* the handler that is running, or "none"
  sp_set,             \* whether sp points to the stack
  ram, led,
  ran,                \* steps since the last request of rtc, up to GAP
  start, elapsed, torn  \* history of a delay: the count when it began, the ticks
                        \* since then, whether its first reading was torn

program == <<pc, p, at, lo, time_to_tick>>
history == <<start, elapsed, torn>>
vars    == <<program, history, show, handler, sp_set, ram, led, ran>>

STimerCnt == WordSize * ram[HI] + ram[LO]

-----------------------------------------------------------------------------
(***************************************************************************)
(* What main's loop does: the lines of its body, and of the functions that *)
(* lines 164-166 call when their comment marks are taken away.             *)
(***************************************************************************)
Delay       == [op |-> "delay", mask |-> {}]
Count       == [op |-> "count", mask |-> {}]
Set(mask)   == [op |-> "SET",   mask |-> mask]
Clear(mask) == [op |-> "CLEAR", mask |-> mask]

WrongScan(masks) ==
  <<Clear(Bits), Delay>>
  \o [k \in 1 .. 3 * Len(masks) |->
        LET i == (k + 2) \div 3
        IN CASE k % 3 = 1 -> Set(masks[i])
             [] k % 3 = 2 -> Delay
             [] k % 3 = 0 -> Clear(IF i = 1 THEN Bits ELSE masks[i - 1])]
  \o <<Delay>>

(* A row of lamps lit one after the other, dark before and after. *)
Scan(masks) ==
  <<Clear(Bits), Delay>>
  \o [k \in 1 .. 3 * Len(masks) |->
        LET i == (k + 2) \div 3
        IN CASE k % 3 = 1 -> Set(masks[i])
             [] k % 3 = 2 -> Delay
             [] k % 3 = 0 -> Clear(IF i = Len(masks) THEN Bits ELSE masks[i])]
  \o <<Delay>>

left_to_right    == [i \in 1 .. 8 |-> {i - 1}]
right_to_left    == [i \in 1 .. 8 |-> {8 - i}]
center_to_center == [i \in 1 .. 7 |-> IF i <= 4 THEN {i - 1, 8 - i} ELSE {7 - i, i}]

Shows == {"count", "left_to_right", "right_to_left", "center_to_center"}

Rows(s) == CASE s = "left_to_right"    -> left_to_right
             [] s = "right_to_left"    -> right_to_left
             [] s = "center_to_center" -> center_to_center

Loop(s) == <<Delay, Count>> \o (IF s = "count" THEN <<>> ELSE Scan(Rows(s)))

(* The bits of cnt that are on. *)
BitsOf(n) == {b \in Bits : (n \div 2 ^ b) % 2 = 1}

-----------------------------------------------------------------------------
(***************************************************************************)
(* The port decodes bits 3:2 of the address: OUT, OUTSET, OUTCLR; DIR is   *)
(* none of them.                                                           *)
(***************************************************************************)
OUT    == 0
OUTSET == 4
OUTCLR == 8
DIR    == 12

Port(reg, mask) ==
  led' = Lamps \cap CASE reg = OUT    -> mask
                      [] reg = OUTSET -> led \cup mask
                      [] reg = OUTCLR -> led \ mask
                      [] OTHER        -> led

(* A step of the program, with no handler running. *)
Step ==
  /\ handler = "none"
  /\ ran' = IF ran < GAP THEN ran + 1 ELSE ran
  /\ UNCHANGED <<show, handler>>

Goto(label) == pc' = label

-----------------------------------------------------------------------------
(* Registers and RAM hold anything at power-up, the port is cleared. *)
Init ==
  /\ pc = "_entry" /\ p = 1 /\ at = 1 /\ lo = 0 /\ time_to_tick = 0
  /\ show \in Shows
  /\ handler = "none" /\ sp_set = FALSE
  /\ ram \in [Cells -> {0, CntSize - 1}]
  /\ led = {} /\ ran = 0
  /\ start = 0 /\ elapsed = 0 /\ torn = FALSE

_entry ==
  /\ pc = "_entry"
  /\ Goto("copy_section") /\ p' = 1
  /\ sp_set' = TRUE
  /\ Step
  /\ UNCHANGED <<at, lo, time_to_tick, ram, led, history>>

copy_section ==
  /\ pc = "copy_section"
  /\ IF p < LO
       THEN p' = p + 1 /\ ram' = [ram EXCEPT ![p] = LoadImage[p]] /\ UNCHANGED pc
       ELSE p' = LO /\ Goto("zero_section") /\ UNCHANGED ram
  /\ Step
  /\ UNCHANGED <<at, lo, time_to_tick, sp_set, led, history>>

(* One word of .bss; clearing the low word of STimerCnt starts a count. *)
Zero ==
  /\ p' = p + 1
  /\ ram' = [ram EXCEPT ![p] = 0]
  /\ elapsed' = IF p = LO THEN 0 ELSE elapsed

Wrongzero_section ==
  /\ pc = "zero_section"
  /\ IF p < CNT
       THEN Zero /\ UNCHANGED pc
       ELSE p' = LO /\ Goto("_start") /\ UNCHANGED <<ram, elapsed>>
  /\ Step
  /\ UNCHANGED <<at, lo, time_to_tick, sp_set, led, start, torn>>

zero_section ==
  /\ pc = "zero_section"
  /\ IF p <= CNT
       THEN Zero /\ UNCHANGED pc
       ELSE p' = LO /\ Goto("_start") /\ UNCHANGED <<ram, elapsed>>
  /\ Step
  /\ UNCHANGED <<at, lo, time_to_tick, sp_set, led, start, torn>>

(* The library's start-up code calls main; it may clear .bss once more. *)
_start ==
  /\ pc = "_start"
  /\ \/ p <= CNT /\ Zero /\ UNCHANGED pc
     \/ p \in {LO, CNT + 1} /\ p' = 1 /\ Goto("DIR") /\ UNCHANGED <<ram, elapsed>>
  /\ Step
  /\ UNCHANGED <<at, lo, time_to_tick, sp_set, led, start, torn>>

(* main.c 158-159: before the loop. *)
main ==
  /\ \/ pc = "DIR"   /\ Port(DIR, Bits)    /\ Goto("CLEAR")
     \/ pc = "CLEAR" /\ Port(OUTCLR, Bits) /\ Goto("loop")
  /\ at' = 1
  /\ Step
  /\ UNCHANGED <<p, lo, time_to_tick, sp_set, ram, history>>

WrongNextLine == at + 1

NextLine == IF at = Len(Loop(show)) THEN 1 ELSE at + 1

(* A line of the loop that writes the port. *)
Write ==
  /\ pc = "loop"
  /\ LET line == Loop(show)[at]
         cnt  == ram[CNT]
     IN CASE line.op = "count" ->
               /\ Port(OUT, BitsOf(cnt))
               /\ ram' = [ram EXCEPT ![CNT] = (cnt + 1) % CntSize]
          [] line.op = "SET"   -> Port(OUTSET, line.mask) /\ UNCHANGED ram
          [] line.op = "CLEAR" -> Port(OUTCLR, line.mask) /\ UNCHANGED ram
          [] OTHER             -> FALSE
  /\ at' = NextLine
  /\ Step
  /\ UNCHANGED <<pc, p, lo, time_to_tick, sp_set, history>>

-----------------------------------------------------------------------------
(***************************************************************************)
(* delay(delay_cycles): time_to_tick is computed from two loads of         *)
(* STimerCnt, and so is every value it is compared with.  Registers that   *)
(* delay no longer needs go back to zero.                                  *)
(***************************************************************************)
Sample == WordSize * ram[HI] + lo

(* A reading is torn when the low word has wrapped between its loads. *)
TornNow == ram[LO] < lo

CallDelay ==
  /\ pc = "loop" /\ Loop(show)[at].op = "delay"
  /\ lo' = ram[LO] /\ Goto("time_to_tick")
  /\ start' = STimerCnt /\ elapsed' = 0 /\ torn' = FALSE
  /\ Step
  /\ UNCHANGED <<p, at, time_to_tick, sp_set, ram, led>>

SetTimeToTick ==
  /\ pc = "time_to_tick"
  /\ time_to_tick' = (Sample + delay_cycles) % (WordSize * WordSize)
  /\ torn' = TornNow
  /\ lo' = 0 /\ Goto("do")
  /\ Step
  /\ UNCHANGED <<p, at, sp_set, ram, led, start, elapsed>>

LoadLow ==
  /\ pc = "do"
  /\ lo' = ram[LO] /\ Goto("while")
  /\ Step
  /\ UNCHANGED <<p, at, time_to_tick, sp_set, ram, led, history>>

KeepWaiting ==
  /\ pc = "while" /\ time_to_tick > Sample
  /\ lo' = 0 /\ Goto("do")
  /\ Step
  /\ UNCHANGED <<p, at, time_to_tick, sp_set, ram, led, history>>

WrongReturn ==
  /\ pc = "while" /\ time_to_tick <= Sample + 1
  /\ lo' = 0 /\ time_to_tick' = 0 /\ Goto("loop") /\ at' = NextLine
  /\ Step
  /\ UNCHANGED <<p, sp_set, ram, led, history>>

Return ==
  /\ pc = "while" /\ time_to_tick <= Sample
  /\ lo' = 0 /\ time_to_tick' = 0 /\ Goto("loop") /\ at' = NextLine
  /\ Step
  /\ UNCHANGED <<p, sp_set, ram, led, history>>

-----------------------------------------------------------------------------
(***************************************************************************)
(* Interrupts.  g_pfnVectors is indexed by the cause, which is zero-based; *)
(* every handler but main.c's IRQHandler_1 is IntDefaultHandler.           *)
(***************************************************************************)
IRQHandlers(nr) == IF nr = 1 THEN "IRQHandler_1" ELSE "IntDefaultHandler"

Wrongg_pfnVectors == [cause \in 0 .. 15 |-> IRQHandlers(cause)]

g_pfnVectors == [cause \in 0 .. 15 |-> IRQHandlers(cause + 1)]

WrongIRQHandler(cause) ==
  /\ handler = "none"
  /\ handler' = g_pfnVectors[cause]
  /\ ran' = 0
  /\ UNCHANGED <<program, history, show, sp_set, ram, led>>

(* rtc asks again when its period has passed. *)
IRQHandler(cause) ==
  /\ handler = "none" /\ ran >= GAP
  /\ handler' = g_pfnVectors[cause]
  /\ ran' = 0
  /\ UNCHANGED <<program, history, show, sp_set, ram, led>>

WrongIRQHandler_1 ==
  /\ handler = "IRQHandler_1"
  /\ ram' = [ram EXCEPT ![LO] = (ram[LO] + 1) % WordSize]
  /\ elapsed' = IF elapsed < MaxElapsed THEN elapsed + 1 ELSE elapsed
  /\ handler' = "none"
  /\ UNCHANGED <<program, start, torn, show, sp_set, led, ran>>

(* IntDefaultHandler has no step: it loops until a reset. *)
IRQHandler_1 ==
  /\ handler = "IRQHandler_1"
  /\ LET low == (ram[LO] + 1) % WordSize
     IN ram' = [ram EXCEPT ![LO] = low,
                           ![HI] = IF low = 0 THEN (@ + 1) % WordSize ELSE @]
  /\ elapsed' = IF elapsed < MaxElapsed THEN elapsed + 1 ELSE elapsed
  /\ handler' = "none"
  /\ UNCHANGED <<program, start, torn, show, sp_set, led, ran>>

(* Reset clears the port and rtc; RAM and the register file stay. *)
Reset ==
  /\ pc' = "_entry" /\ p' = 1 /\ at' = 1 /\ lo' = 0 /\ time_to_tick' = 0
  /\ handler' = "none" /\ led' = {} /\ ran' = 0
  /\ start' = 0 /\ elapsed' = 0 /\ torn' = FALSE
  /\ UNCHANGED <<show, sp_set, ram>>

Program ==
  \/ _entry \/ copy_section \/ zero_section \/ _start \/ main \/ Write
  \/ CallDelay \/ SetTimeToTick \/ LoadLow \/ KeepWaiting \/ Return

Next ==
  \/ Program
  \/ \E cause \in Connected : IRQHandler(cause)
  \/ IRQHandler_1
  \/ Reset

(* The core runs, and rtc keeps asking (reset holds neither for ever). *)
Fairness ==
  /\ WF_vars(Program) /\ WF_vars(IRQHandler_1)
  /\ \A cause \in Connected : WF_vars(IRQHandler(cause))

Spec == Init /\ [][Next]_vars /\ Fairness

-----------------------------------------------------------------------------
Delaying == {"time_to_tick", "do", "while"}

Labels == Delaying \cup
  {"_entry", "copy_section", "zero_section", "_start", "DIR", "CLEAR", "loop"}

(* Every variable keeps its type. *)
TypeOK ==
  /\ pc \in Labels /\ p \in 1 .. CNT + 1 /\ at \in DOMAIN Loop(show) /\ show \in Shows
  /\ lo \in Word /\ time_to_tick \in Long
  /\ handler \in {"none", "IRQHandler_1", "IntDefaultHandler"}
  /\ sp_set \in BOOLEAN
  /\ ram \in [Cells -> Word] /\ led \subseteq Lamps
  /\ ran \in 0 .. GAP
  /\ start \in Long /\ elapsed \in 0 .. MaxElapsed /\ torn \in BOOLEAN

(***************************************************************************)
(* main finds .data as linked, cnt at zero, and in STimerCnt the ticks     *)
(* since its low word was cleared, whatever RAM held before, whenever the  *)
(* last reset and the timer's interrupts came (init.c 29-55).              *)
(***************************************************************************)
Initialised ==
  pc = "DIR" /\ handler = "none" =>
    /\ \A w \in 1 .. DataWords : ram[w] = LoadImage[w]
    /\ ram[CNT] = 0
    /\ elapsed < WordSize => STimerCnt = elapsed

(***************************************************************************)
(* No handler pushes a frame before _entry has set sp, although reset      *)
(* leaves interrupts enabled (risc-v-v2.v:293, entry.S:54).                *)
(***************************************************************************)
StackReady == handler # "none" => sp_set

(***************************************************************************)
(* delay returns after exactly the ticks asked for, but for two races of   *)
(* its two-load readings with the carry of STimerCnt (main.c 47, 51): a    *)
(* torn sample may end it early, a torn start makes it a whole turn of the *)
(* low word longer.  The counter itself must not overflow meanwhile.       *)
(***************************************************************************)
DelayAccurate ==
  [][Return /\ start + WordSize + delay_cycles < WordSize * WordSize /\ ~TornNow =>
       elapsed = delay_cycles + (IF torn THEN WordSize ELSE 0)]_vars

(***************************************************************************)
(* While delay runs the lamps show one row of the pattern, or none, and    *)
(* never what an earlier row left on (main.c 63-151, 163).                 *)
(***************************************************************************)
LedShows ==
  pc \in Delaying =>
    IF show = "count"
      THEN \/ led = Lamps \cap BitsOf((ram[CNT] - 1) % CntSize)
           \/ led = {} /\ ram[CNT] = 0
      ELSE led = IF \E i \in DOMAIN Rows(show) : at = 3 * i + 3
                   THEN Lamps \cap Rows(show)[(at - 3) \div 3]
                   ELSE {}

(* Every delay ends, or a reset ends it (main.c 52). *)
DelayEnds == (pc \in Delaying) ~> (pc \notin Delaying)

(***************************************************************************)
(* While no reset comes the lamps keep changing: the handler, the count,   *)
(* the delay and the loop work together (main.c 160-167).                  *)
(***************************************************************************)
LedKeepsChanging == <>[][~Reset]_vars => []<><<led' # led>>_vars
=============================================================================
