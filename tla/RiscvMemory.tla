----------------------------- MODULE RiscvMemory -----------------------------
(***************************************************************************)
(* The memories of the examples: ram and the data port of rom_dp           *)
(* (memory.v), joined by io_bus_dmux and selected by the address decoder   *)
(* of arduFPGA.v.  Each clock the core drives one request; the word it     *)
(* asks for is registered, and is on the bus in the next clock.            *)
(*                                                                         *)
(* The ram keeps four arrays, one per byte lane, and its cells repeat      *)
(* through the quarter of the address space that selects it, as the rom's  *)
(* do through its half.  SYNCHRONOUS_OUTPUT is TRUE and EXTENSION_C FALSE, *)
(* as in the examples.                                                     *)
(***************************************************************************)
EXTENDS RiscvArch

CONSTANTS
  PLATFORM,       \* "XILINX" (inferred memory; both examples) or "iCE40UP"
  LaneSize,       \* number of values of a byte lane
  RAM_CELLS,      \* words in the ram, (2^ADDR_BUS_LEN) / 4
  ROM_CELLS,
  Rom,            \* the contents of the rom
  RomWords,       \* the words the linker script places in the rom
  PowerUp,        \* what a lane that nothing clears may hold at power-up
  Requests,       \* what the core may drive
  BusOr(_, _)     \* the bitwise or of two words

RamCells == 0 .. RAM_CELLS - 1
RomCells == 0 .. ROM_CELLS - 1
Lanes    == 0 .. 3

ASSUME MemoryAssumption ==
  /\ RAM_CELLS \in Nat \ {0} /\ ROM_CELLS \in Nat \ {0} /\ LaneSize \in Nat \ {0}
  /\ WordSize = LaneSize * LaneSize * LaneSize * LaneSize
  /\ AddrSize % 16 = 0
  /\ Rom \in [RomCells -> Word]
  /\ PowerUp \subseteq 0 .. LaneSize - 1
  /\ \A w \in Word : BusOr(w, 0) = w /\ BusOr(0, w) = w

(* The word of four lanes, and lane k of a word. *)
Compose(f) == f[0] + LaneSize * (f[1] + LaneSize * (f[2] + LaneSize * f[3]))

LaneOf(w, k) ==
  (w \div (CASE k = 0 -> 1 [] k = 1 -> LaneSize [] k = 2 -> LaneSize * LaneSize
             [] k = 3 -> LaneSize * LaneSize * LaneSize)) % LaneSize

LaneValue == 0 .. LaneSize - 1

(***************************************************************************)
(* What a program expects of a store (risc-v-l-h.v 79-81 sb, sh, sw): the  *)
(* lanes of its size from its address on take the low lanes of rs2, the    *)
(* others keep what they hold; half a word at an odd address goes nowhere. *)
(***************************************************************************)
Stored(op, l) ==
  {k \in Lanes : \/ op = "SW"
                 \/ op = "SH" /\ l \in {0, 2} /\ k \in {l, l + 1}
                 \/ op = "SB" /\ k = l}

ASSUME MergeAssumption ==
  \A r \in Requests : r.op \in Stores =>
    LET l == r.addr % 4
    IN \A f \in [Lanes -> LaneValue] :
         Merge(r.op, l, Compose(f), r.data) =
           Compose([k \in Lanes |-> IF k \in Stored(r.op, l)
                                      THEN LaneOf(r.data, IF r.op = "SW" THEN k ELSE k - l)
                                      ELSE f[k]])

-----------------------------------------------------------------------------
(* The address decoder, by the top two bits of the address. *)
SelectsRam(a) == AddrSize \div 4 <= a /\ a < AddrSize \div 2
SelectsRom(a) == AddrSize \div 2 <= a

RamCell(a) == WordOf(a) % RAM_CELLS
RomCell(a) == WordOf(a) % ROM_CELLS

(***************************************************************************)
(* Programs keep to the words the linker script places, none of which      *)
(* shares a cell with another, and to addresses that select no memory      *)
(* (system registers and ports).                                           *)
(***************************************************************************)
ASSUME LinkerAssumption ==
  /\ \A w \in RamWords : SelectsRam(4 * w)
  /\ \A w \in RomWords : SelectsRom(4 * w)
  /\ \A u, w \in RamWords : RamCell(4 * u) = RamCell(4 * w) => u = w
  /\ \A u, w \in RomWords : RomCell(4 * u) = RomCell(4 * w) => u = w
  /\ \A r \in Requests :
       /\ r.addr \in Addr /\ r.op \in Stores \cup {"READ"} /\ r.data \in Word
       /\ SelectsRam(r.addr) => WordOf(r.addr) \in RamWords
       /\ SelectsRom(r.addr) => WordOf(r.addr) \in RomWords

VARIABLES
  request,              \* what the core drives in this clock
  mem_b,                \* the lanes of the ram
  TMP, cs_del,          \* the word the ram has read, whether it was selected
  TMP_rom, cs_p2_del    \* the same of the rom

vars == <<request, mem_b, TMP, cs_del, TMP_rom, cs_p2_del>>

data_en == SelectsRam(request.addr)
pgm_en  == SelectsRom(request.addr)

RamWord(c) == Compose([k \in Lanes |-> mem_b[k][c]])

(***************************************************************************)
(* The loop that clears the inferred ram stops one cell early.  Nothing    *)
(* clears the SP256K of the iCE40UP.                                       *)
(***************************************************************************)
Uncleared == IF PLATFORM = "iCE40UP" THEN RamCells ELSE {RAM_CELLS - 1}

Init ==
  /\ request \in Requests
  /\ \E left \in [Lanes -> [Uncleared -> PowerUp]] :
       mem_b = [k \in Lanes |-> [c \in RamCells |-> IF c \in Uncleared THEN left[k][c] ELSE 0]]
  /\ TMP = 0 /\ cs_del = FALSE
  /\ TMP_rom = 0 /\ cs_p2_del = FALSE

-----------------------------------------------------------------------------
(***************************************************************************)
(* The lanes a store writes, from its size and addr[1:0], and what it      *)
(* writes to lane k.                                                       *)
(***************************************************************************)
WrongWriteEnable(op, l) ==
  CASE op = "SW" -> Lanes
    [] op = "SH" -> {0, 1}
    [] op = "SB" -> {l}
    [] OTHER     -> {}

WriteEnable(op, l) ==
  CASE op = "SW" -> Lanes
    [] op = "SH" -> IF l % 2 = 0 THEN {l, l + 1} ELSE {}
    [] op = "SB" -> {l}
    [] OTHER     -> {}

WriteData(op, l, w, k) == IF op = "SW" THEN LaneOf(w, k) ELSE LaneOf(w, (k - l) % 4)

(***************************************************************************)
(* On an iCE40UP the strobes become a mask of half-lanes.  The branch for  *)
(* the upper half-word repeats the label of the lower one and is never     *)
(* taken, and the mask of byte 2 is that of byte 1, whose data is zero.    *)
(***************************************************************************)
WriteEnable_iCE40UP(op, l) ==
  CASE op = "SW" -> Lanes
    [] op = "SH" -> IF l < 2 THEN {0, 1} ELSE {}
    [] op = "SB" -> IF l = 2 THEN {1} ELSE {l}
    [] OTHER     -> {}

WriteData_iCE40UP(op, l, w, k) ==
  CASE op = "SW" -> LaneOf(w, k)
    [] op = "SH" -> LaneOf(w, k)
    [] op = "SB" -> IF k = l THEN LaneOf(w, 0) ELSE 0

WE(op, l)       == IF PLATFORM = "iCE40UP" THEN WriteEnable_iCE40UP(op, l) ELSE WriteEnable(op, l)
DI(op, l, w, k) == IF PLATFORM = "iCE40UP" THEN WriteData_iCE40UP(op, l, w, k)
                   ELSE WriteData(op, l, w, k)

-----------------------------------------------------------------------------
(* A clock in which the ram is selected; without one it still reads. *)
WriteRam ==
  /\ data_en /\ request.op \in Stores
  /\ LET l == request.addr % 4
     IN mem_b' = [k \in Lanes |->
                    IF k \in WE(request.op, l)
                      THEN [mem_b[k] EXCEPT ![RamCell(request.addr)] = DI(request.op, l, request.data, k)]
                      ELSE mem_b[k]]

KeepRam ==
  /\ ~(data_en /\ request.op \in Stores)
  /\ UNCHANGED mem_b

(* Every clock registers what is read; the SP256K of the iCE40UP only when selected. *)
Register ==
  /\ TMP' = IF PLATFORM = "iCE40UP" /\ ~data_en THEN TMP ELSE RamWord(RamCell(request.addr))
  /\ cs_del' = data_en
  /\ TMP_rom' = Rom[RomCell(request.addr)]
  /\ cs_p2_del' = pgm_en
  /\ request' \in Requests

Next == (WriteRam \/ KeepRam) /\ Register

Spec == Init /\ [][Next]_vars

-----------------------------------------------------------------------------
(* What each memory puts on the bus: zero unless it was selected. *)
Wrongram_out == TMP

ram_out == IF (IF PLATFORM = "iCE40UP" THEN data_en ELSE cs_del) THEN TMP ELSE 0
rom_out == IF cs_p2_del THEN TMP_rom ELSE 0

data_i == BusOr(ram_out, rom_out)

(* The memory the programmer sees. *)
mem == [w \in WordIdx |-> IF w \in RamWords THEN RamWord(RamCell(4 * w))
                          ELSE IF w \in RomWords THEN Rom[RomCell(4 * w)]
                          ELSE 0]

Bus == INSTANCE RiscvBus WITH Programs <- Memories

(***************************************************************************)
(* The memories, the decoder and the multiplexer together are the flat     *)
(* memory that the core needs: every store reaches exactly its lanes of    *)
(* its word, every read returns its word one clock later, whatever is      *)
(* asked for meanwhile (memory.v 23-139, 615-763; io_bus_dmux.v 36-49).    *)
(***************************************************************************)
ImplementsBus == Bus!Spec

(***************************************************************************)
(* io_bus_dmux.v 47 joins the buses by or, not by select: two memories     *)
(* must never drive it at once.                                            *)
(***************************************************************************)
BusesDisjoint == ram_out = 0 \/ rom_out = 0

(***************************************************************************)
(* A store changes the lanes of its size and address and nothing else, as  *)
(* RISC-V has it (risc-v-l-h.v 79-81 sb, sh, sw).                          *)
(***************************************************************************)
StoresMerge ==
  [][mem' = IF request.op \in Stores
              THEN StoreAt(mem, request.addr, request.op, request.data)
              ELSE mem]_vars
=============================================================================
