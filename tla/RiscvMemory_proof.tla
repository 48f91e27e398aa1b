-------------------------- MODULE RiscvMemory_proof --------------------------
(***************************************************************************)
(* Proofs about the memories as both examples build them: what a read      *)
(* brings and what a store leaves alone, for every size of lane, ram and   *)
(* rom and every placement the linker assumption admits.                   *)
(***************************************************************************)
EXTENDS RiscvMemory, TLAPS

MemoryType ==
  /\ request \in Requests
  /\ mem_b \in [Lanes -> [RamCells -> LaneValue]]
  /\ TMP \in Word /\ TMP_rom \in Word
  /\ cs_del \in BOOLEAN /\ cs_p2_del \in BOOLEAN

(* The selects are registered together, so they stay exclusive. *)
MemoryInv == MemoryType /\ ~(cs_del /\ cs_p2_del)

Sizes ==
  /\ LaneSize \in Nat /\ LaneSize > 0 /\ WordSize = LaneSize * LaneSize * LaneSize * LaneSize
  /\ RAM_CELLS \in Nat /\ RAM_CELLS > 0 /\ ROM_CELLS \in Nat /\ ROM_CELLS > 0
  /\ AddrSize \in Nat /\ AddrSize % 16 = 0 /\ WordSize \in Nat

LEMMA SizesHold == Sizes
  BY SizesAssumption, MemoryAssumption DEF Sizes

-----------------------------------------------------------------------------
(* One more lane in front of a number below n. *)
LEMMA Digits ==
  ASSUME NEW L \in Nat, NEW n \in Nat, NEW a \in 0 .. L - 1, NEW b \in 0 .. n - 1
  PROVE  a + L * b \in 0 .. L * n - 1
<1>1. L * b <= L * (n - 1)
  OBVIOUS
<1>2. L * (n - 1) = L * n - L /\ L * b \in Nat /\ L * n \in Nat
  OBVIOUS
<1> QED BY <1>1, <1>2

LEMMA RamWordType ==
  ASSUME mem_b \in [Lanes -> [RamCells -> LaneValue]], NEW c \in RamCells
  PROVE  RamWord(c) \in Word
<1> DEFINE L == LaneSize
           upper == mem_b[2][c] + L * mem_b[3][c]
           high  == mem_b[1][c] + L * upper
           n2 == L * L
           n3 == L * n2
<1>0. L \in Nat /\ WordSize = L * L * L * L
  BY SizesHold DEF Sizes
<1>1. \A k \in 0 .. 3 : mem_b[k][c] \in 0 .. L - 1
  BY DEF Lanes, LaneValue
<1>2. n2 \in Nat /\ n3 \in Nat /\ L * n3 = WordSize
  BY <1>0
<1>3. upper \in 0 .. n2 - 1
  BY <1>0, <1>1, Digits
<1> HIDE DEF n2, upper
<1>4. high \in 0 .. n3 - 1
  BY <1>0, <1>1, <1>2, <1>3, Digits
<1> HIDE DEF n3, high
<1>5. mem_b[0][c] + L * high \in 0 .. L * n3 - 1
  BY <1>0, <1>1, <1>2, <1>4, Digits
<1>6. mem_b[0][c] + L * high = RamWord(c)
  BY DEF RamWord, Compose, Lanes, high, upper
<1> QED BY <1>2, <1>5, <1>6 DEF Word

LEMMA LaneOfType ==
  ASSUME NEW w \in Word, NEW k \in Lanes
  PROVE  LaneOf(w, k) \in LaneValue
<1> DEFINE L == LaneSize
<1>0. L \in Nat /\ L > 0 /\ w \in Nat
  BY SizesHold DEF Sizes, Word
<1>1. \A d \in Nat : d > 0 => (w \div d) % L \in 0 .. L - 1
  BY <1>0
<1>2. L * L \in Nat /\ L * L > 0 /\ L * L * L \in Nat /\ L * L * L > 0
  BY <1>0
<1>3. CASE k = 0
  BY <1>0, <1>1, <1>3 DEF LaneOf, LaneValue
<1>4. CASE k = 1
  BY <1>0, <1>1, <1>4 DEF LaneOf, LaneValue
<1>5. CASE k = 2
  BY <1>1, <1>2, <1>5 DEF LaneOf, LaneValue
<1>6. CASE k = 3
  BY <1>1, <1>2, <1>6 DEF LaneOf, LaneValue
<1> QED BY <1>3, <1>4, <1>5, <1>6 DEF Lanes

-----------------------------------------------------------------------------
(* The words of the programs, and the cells and selects of their addresses. *)
LEMMA Placement ==
  ASSUME NEW r \in Requests
  PROVE  /\ r.addr \in Addr /\ r.data \in Word /\ r.addr % 4 \in Lanes
         /\ RamCell(r.addr) \in RamCells /\ RomCell(r.addr) \in RomCells
         /\ WordOf(r.addr) \in WordIdx
         /\ RamCell(4 * WordOf(r.addr)) = RamCell(r.addr)
         /\ RomCell(4 * WordOf(r.addr)) = RomCell(r.addr)
         /\ SelectsRam(r.addr) <=> WordOf(r.addr) \in RamWords
         /\ SelectsRom(r.addr) <=> WordOf(r.addr) \in RomWords
         /\ ~(SelectsRam(r.addr) /\ SelectsRom(r.addr))
<1> DEFINE a == r.addr
<1>1. a \in Nat /\ a < AddrSize /\ r.addr \in Addr /\ r.data \in Word
  BY LinkerAssumption, SizesHold DEF Addr, Sizes
<1>2. a \div 4 \in Nat /\ 4 * (a \div 4) <= a /\ a < 4 * (a \div 4) + 4
      /\ (4 * (a \div 4)) \div 4 = a \div 4 /\ a % 4 \in 0 .. 3
  <2>1. \A n \in Nat : /\ n \div 4 \in Nat /\ 4 * (n \div 4) <= n /\ n < 4 * (n \div 4) + 4
                       /\ (4 * (n \div 4)) \div 4 = n \div 4 /\ n % 4 \in 0 .. 3
    OBVIOUS
  <2> QED BY <1>1, <2>1
<1>3. (a \div 4) % RAM_CELLS \in RamCells /\ (a \div 4) % ROM_CELLS \in RomCells
  BY <1>2, SizesHold DEF Sizes, RamCells, RomCells
<1>4. WordOf(a) \in WordIdx
  BY <1>1, SizesHold DEF WordOf, WordIdx, NWords, Sizes
<1>5. (SelectsRam(4 * WordOf(a)) <=> SelectsRam(a)) /\ (SelectsRom(4 * WordOf(a)) <=> SelectsRom(a))
  BY <1>1, SizesHold DEF SelectsRam, SelectsRom, WordOf, Sizes
<1>6. ~(SelectsRam(a) /\ SelectsRom(a))
  BY <1>1, SizesHold DEF SelectsRam, SelectsRom, Sizes
<1>7. (SelectsRam(a) <=> WordOf(a) \in RamWords) /\ (SelectsRom(a) <=> WordOf(a) \in RomWords)
  BY <1>5, LinkerAssumption
<1> QED BY <1>1, <1>2, <1>3, <1>4, <1>6, <1>7 DEF RamCell, RomCell, WordOf, Lanes
-----------------------------------------------------------------------------
LEMMA MemoryInit == Init => MemoryInv
<1> SUFFICES ASSUME Init PROVE MemoryInv
  OBVIOUS
<1>1. 0 \in Word /\ 0 \in LaneValue
  BY SizesHold, SizesAssumption DEF Sizes, Word, LaneValue
<1>2. mem_b \in [Lanes -> [RamCells -> LaneValue]]
  <2> PICK left \in [Lanes -> [Uncleared -> PowerUp]] :
         mem_b = [k \in Lanes |-> [c \in RamCells |-> IF c \in Uncleared THEN left[k][c] ELSE 0]]
    BY DEF Init
  <2>1. \A k \in Lanes : \A c \in Uncleared : left[k][c] \in LaneValue
    BY MemoryAssumption DEF LaneValue
  <2> QED BY <1>1, <2>1
<1> QED BY <1>1, <1>2 DEF Init, MemoryInv, MemoryType

LEMMA MemoryStep ==
  ASSUME PLATFORM = "XILINX", MemoryInv, [Next]_vars
  PROVE  MemoryInv'
<1>1. CASE Next
  <2>1. /\ request' \in Requests /\ TMP_rom' = Rom[RomCell(request.addr)]
        /\ TMP' = RamWord(RamCell(request.addr))
        /\ cs_del' = data_en /\ cs_p2_del' = pgm_en
    BY <1>1 DEF Next, Register
  <2>2. TMP' \in Word /\ TMP_rom' \in Word
    BY <2>1, RamWordType, Placement, MemoryAssumption DEF MemoryInv, MemoryType
  <2>3. (cs_del \in BOOLEAN /\ cs_p2_del \in BOOLEAN /\ ~(cs_del /\ cs_p2_del))'
    BY <2>1, Placement DEF MemoryInv, MemoryType, data_en, pgm_en, SelectsRam, SelectsRom
  <2>4. (mem_b \in [Lanes -> [RamCells -> LaneValue]])'
    <3>1. CASE KeepRam
      BY <3>1 DEF KeepRam, MemoryInv, MemoryType
    <3>2. CASE WriteRam
      <4> DEFINE l == request.addr % 4
                 c == RamCell(request.addr)
                 new(k) == IF k \in WE(request.op, l)
                             THEN [mem_b[k] EXCEPT ![c] = DI(request.op, l, request.data, k)]
                             ELSE mem_b[k]
      <4>1. mem_b' = [k \in Lanes |-> new(k)]
        BY <3>2 DEF WriteRam
      <4>2. \A k \in Lanes : DI(request.op, l, request.data, k) \in LaneValue
        <5>1. \A k \in Lanes : (k - l) % 4 \in Lanes
          BY Placement DEF MemoryInv, MemoryType, Lanes
        <5> QED BY <5>1, LaneOfType, Placement DEF DI, WriteData, MemoryInv, MemoryType
      <4>3. ASSUME NEW k \in Lanes PROVE new(k) \in [RamCells -> LaneValue]
        BY <4>2 DEF MemoryInv, MemoryType
      <4> QED BY <4>1, <4>3
    <3> QED BY <1>1, <3>1, <3>2 DEF Next
  <2> QED BY <2>1, <2>2, <2>3, <2>4 DEF MemoryInv, MemoryType
<1>2. CASE UNCHANGED vars
  BY <1>2 DEF vars, MemoryInv, MemoryType
<1> QED BY <1>1, <1>2

LEMMA MemoryCorrect ==
  ASSUME PLATFORM = "XILINX" PROVE Spec => []MemoryInv
  BY MemoryInit, MemoryStep, PTL DEF Spec

(***************************************************************************)
(* The bus is never driven twice: the or of io_bus_dmux.v 47 is a choice   *)
(* (memory.v 133-136 and 752, with the decoder of arduFPGA.v).             *)
(***************************************************************************)
THEOREM BusesDisjointHolds ==
  ASSUME PLATFORM = "XILINX" PROVE Spec => []BusesDisjoint
<1>1. MemoryInv => BusesDisjoint
  BY DEF MemoryInv, MemoryType, BusesDisjoint, ram_out, rom_out
<1> QED BY <1>1, MemoryCorrect, PTL

(* What was asked for arrives. *)
LEMMA ReadArrives ==
  ASSUME PLATFORM = "XILINX", MemoryInv, Next
  PROVE  data_i' = mem[WordOf(request.addr)]
<1> DEFINE w == WordOf(request.addr)
           ram == RamWord(RamCell(request.addr))
           rom == Rom[RomCell(request.addr)]
<1>1. request \in Requests
  BY DEF MemoryInv, MemoryType
<1>2. ram \in Word /\ rom \in Word
  BY <1>1, RamWordType, Placement, MemoryAssumption DEF MemoryInv, MemoryType
<1>3. ram_out' = (IF data_en THEN ram ELSE 0) /\ rom_out' = (IF pgm_en THEN rom ELSE 0)
  BY DEF Next, Register, ram_out, rom_out
<1>4. mem[w] = IF w \in RamWords THEN ram ELSE IF w \in RomWords THEN rom ELSE 0
  BY <1>1, Placement DEF mem
<1>5. data_i' = BusOr(ram_out', rom_out')
  BY DEF data_i
<1>6. 0 \in Word /\ \A v \in Word : BusOr(v, 0) = v /\ BusOr(0, v) = v
  BY MemoryAssumption, SizesAssumption DEF Word
<1>7. CASE data_en
  BY <1>1, <1>2, <1>3, <1>4, <1>5, <1>6, <1>7, Placement DEF data_en, pgm_en
<1>8. CASE ~data_en
  BY <1>1, <1>2, <1>3, <1>4, <1>5, <1>6, <1>8, Placement DEF data_en, pgm_en
<1> QED BY <1>7, <1>8

(***************************************************************************)
(* The word on the bus is the one the previous clock asked for, as it was  *)
(* when it was asked for, and zero where there is no memory.               *)
(***************************************************************************)
ReadsArrive == [][data_i' = mem[WordOf(request.addr)]]_vars

(* Every read arrives, whatever is stored and read around it. *)
THEOREM ReadsArriveHolds ==
  ASSUME PLATFORM = "XILINX" PROVE Spec => ReadsArrive
<1>1. ASSUME MemoryInv, Next
      PROVE  data_i' = mem[WordOf(request.addr)]
  BY <1>1, ReadArrives
<1>2. MemoryInv /\ [Next]_vars => [data_i' = mem[WordOf(request.addr)]]_vars
  BY <1>1
<1> QED BY <1>2, MemoryCorrect, PTL DEF Spec, ReadsArrive

(* A store leaves the other words alone. *)
LEMMA StoreKeepsOthers ==
  ASSUME PLATFORM = "XILINX", MemoryInv, Next
  PROVE  \A w \in WordIdx :
           (request.op \in Stores /\ w = WordOf(request.addr)) \/ mem'[w] = mem[w]
<1> SUFFICES ASSUME NEW w \in WordIdx, ~(request.op \in Stores /\ w = WordOf(request.addr))
             PROVE  mem'[w] = mem[w]
  OBVIOUS
<1>1. CASE KeepRam
  BY <1>1 DEF KeepRam, mem, RamWord, Compose
<1>2. CASE WriteRam /\ w \notin RamWords
  BY <1>2 DEF mem
<1>3. CASE WriteRam /\ w \in RamWords
  <2> DEFINE a == request.addr
  <2>1. WordOf(a) \in RamWords /\ RamCell(4 * WordOf(a)) = RamCell(a) /\ w # WordOf(a)
    BY <1>3, Placement DEF MemoryInv, MemoryType, WriteRam, data_en
  <2>2. RamCell(4 * w) # RamCell(a)
    BY <1>3, <2>1, LinkerAssumption
  <2>3. \A k \in Lanes : mem_b'[k][RamCell(4 * w)] = mem_b[k][RamCell(4 * w)]
    BY <1>3, <2>2 DEF WriteRam, MemoryInv, MemoryType
  <2>4. RamWord(RamCell(4 * w))' = RamWord(RamCell(4 * w))
    BY <2>3 DEF RamWord, Compose, Lanes
  <2> QED BY <1>3, <2>4 DEF mem
<1> QED BY <1>1, <1>2, <1>3 DEF Next

(***************************************************************************)
(* A store reaches its own word only: the cells that repeat through the    *)
(* address space, and the lanes shared by all words, lead to no other.     *)
(***************************************************************************)
StoresKeepOthers ==
  [][\A w \in WordIdx :
       (request.op \in Stores /\ w = WordOf(request.addr)) \/ mem'[w] = mem[w]]_vars

(* No store of any size changes a word of another address. *)
THEOREM StoresKeepOthersHold ==
  ASSUME PLATFORM = "XILINX" PROVE Spec => StoresKeepOthers
<1> DEFINE Kept == \A w \in WordIdx :
                     (request.op \in Stores /\ w = WordOf(request.addr)) \/ mem'[w] = mem[w]
<1>1. ASSUME MemoryInv, Next
      PROVE  Kept
  BY <1>1, StoreKeepsOthers
<1>2. MemoryInv /\ [Next]_vars => [Kept]_vars
  BY <1>1
<1> QED BY <1>2, MemoryCorrect, PTL DEF Spec, StoresKeepOthers

-----------------------------------------------------------------------------
(***************************************************************************)
(* The refinement of RiscvBus.  Its operators are those of RiscvArch.      *)
(***************************************************************************)
LEMMA BusOperators ==
  /\ Bus!Stores = Stores
  /\ \A a : Bus!WordOf(a) = WordOf(a)
  /\ \A m, a, f, v : Bus!StoreAt(m, a, f, v) = StoreAt(m, a, f, v)
  BY DEF Bus!Stores, Stores, Bus!WordOf, WordOf, Bus!StoreAt, StoreAt

(* The strobes of memory.v 615-664 are the lanes a store names. *)
LEMMA StrobesAreLanes ==
  ASSUME PLATFORM = "XILINX", NEW op \in Stores, NEW l \in Lanes, NEW k \in Lanes, NEW v
  PROVE  /\ k \in WE(op, l) <=> k \in Stored(op, l)
         /\ k \in Stored(op, l) => DI(op, l, v, k) = LaneOf(v, IF op = "SW" THEN k ELSE k - l)
<1>1. l \in {0, 1, 2, 3} /\ k \in {0, 1, 2, 3}
  BY DEF Lanes
<1>2. \A i, j \in 0 .. 3 : i >= j => (i - j) % 4 = i - j
  OBVIOUS
<1>3. CASE op = "SW"
  BY <1>1, <1>3 DEF WE, DI, WriteEnable, WriteData, Stored, Lanes
<1>4. CASE op = "SH"
  <2>1. WE(op, l) = IF l % 2 = 0 THEN {l, l + 1} ELSE {}
    BY <1>4 DEF WE, WriteEnable
  <2>2. l % 2 = 0 <=> l \in {0, 2}
    BY <1>1
  <2>3. k \in Stored(op, l) <=> l \in {0, 2} /\ k \in {l, l + 1}
    BY <1>4 DEF Stored
  <2>4. DI(op, l, v, k) = LaneOf(v, (k - l) % 4)
    BY <1>4 DEF DI, WriteData
  <2>5. k \in {l, l + 1} => k >= l
    BY <1>1
  <2> QED BY <1>1, <1>2, <1>4, <2>1, <2>2, <2>3, <2>4, <2>5
<1>5. CASE op = "SB"
  <2>1. WE(op, l) = {l} /\ (k \in Stored(op, l) <=> k = l)
    BY <1>5 DEF WE, WriteEnable, Stored
  <2>2. DI(op, l, v, k) = LaneOf(v, (k - l) % 4)
    BY <1>5 DEF DI, WriteData
  <2> QED BY <1>1, <1>2, <1>5, <2>1, <2>2
<1>6. CASE op = "S_undefined"
  BY <1>6 DEF WE, WriteEnable, Stored
<1> QED BY <1>3, <1>4, <1>5, <1>6 DEF Stores

(* The memory the programmer sees has a word at every index. *)
LEMMA MemoryTyped == MemoryInv => mem \in Memories
<1> SUFFICES ASSUME MemoryInv, NEW w \in WordIdx
             PROVE  (IF w \in RamWords THEN RamWord(RamCell(4 * w))
                     ELSE IF w \in RomWords THEN Rom[RomCell(4 * w)]
                     ELSE 0) \in Word
  BY DEF mem, Memories
<1>1. w \in Nat
  BY SizesHold DEF WordIdx, NWords, Sizes
<1>2. WordOf(4 * w) = w
  BY <1>1 DEF WordOf
<1>3. RamCell(4 * w) \in RamCells /\ RomCell(4 * w) \in RomCells
  BY <1>1, <1>2, SizesHold DEF Sizes, RamCell, RomCell, RamCells, RomCells
<1>4. 0 \in Word
  BY SizesAssumption DEF Word
<1> QED BY <1>3, <1>4, RamWordType, MemoryAssumption DEF MemoryInv, MemoryType

(* What is written into the lanes is the word merged. *)
LEMMA StoreMerges ==
  ASSUME PLATFORM = "XILINX", MemoryInv, WriteRam
  PROVE  mem'[WordOf(request.addr)] =
           Merge(request.op, request.addr % 4, mem[WordOf(request.addr)], request.data)
<1> DEFINE a == request.addr
           l == a % 4
           c == RamCell(a)
           old == [k \in Lanes |-> mem_b[k][c]]
           new == [k \in Lanes |-> mem_b'[k][c]]
           merged == [k \in Lanes |-> IF k \in Stored(request.op, l)
                                        THEN LaneOf(request.data, IF request.op = "SW" THEN k ELSE k - l)
                                        ELSE old[k]]
<1>1. request \in Requests /\ request.op \in Stores /\ data_en /\ l \in Lanes /\ c \in RamCells
  BY Placement DEF MemoryInv, MemoryType, WriteRam
<1>2. WordOf(a) \in RamWords /\ WordOf(a) \in WordIdx /\ RamCell(4 * WordOf(a)) = c
  BY <1>1, Placement DEF data_en
<1>3. mem[WordOf(a)] = Compose(old) /\ mem'[WordOf(a)] = Compose(new)
  BY <1>2 DEF mem, RamWord
<1>4. old \in [Lanes -> LaneValue]
  BY <1>1 DEF MemoryInv, MemoryType
<1>5. Merge(request.op, l, Compose(old), request.data) = Compose(merged)
  BY <1>1, <1>4, MergeAssumption
<1>6. ASSUME NEW k \in Lanes PROVE new[k] = merged[k]
  <2>1. mem_b'[k] = IF k \in WE(request.op, l)
                      THEN [mem_b[k] EXCEPT ![c] = DI(request.op, l, request.data, k)]
                      ELSE mem_b[k]
    BY DEF WriteRam
  <2>2. mem_b[k] \in [RamCells -> LaneValue]
    BY DEF MemoryInv, MemoryType
  <2> QED BY <1>1, <2>1, <2>2, StrobesAreLanes
<1>7. new = merged
  BY <1>6
<1> QED BY <1>3, <1>5, <1>7

(* Every clock of the memories is a cycle of the bus. *)
LEMMA CycleImplements ==
  ASSUME PLATFORM = "XILINX", MemoryInv, Next
  PROVE  Bus!Cycle
<1> DEFINE a == request.addr
           i == WordOf(a)
<1>1. request' \in Requests /\ request \in Requests /\ i \in WordIdx
  BY Placement DEF Next, Register, MemoryInv, MemoryType
<1>2. data_i' = mem[i]
  BY ReadArrives
<1>3. \A w \in WordIdx : (request.op \in Stores /\ w = i) \/ mem'[w] = mem[w]
  BY StoreKeepsOthers
<1>4. mem = [w \in WordIdx |-> mem[w]] /\ mem' = [w \in WordIdx |-> mem'[w]]
  BY DEF mem
<1>5. mem' = IF request.op \in Stores THEN StoreAt(mem, a, request.op, request.data) ELSE mem
  <2>1. CASE request.op \notin Stores
    BY <1>3, <1>4, <2>1
  <2>2. CASE request.op \in Stores /\ i \notin RamWords
    <3>1. mem'[i] = mem[i]
      BY <1>1, <2>2 DEF mem
    <3> QED BY <1>3, <1>4, <2>2, <3>1 DEF StoreAt
  <2>3. CASE request.op \in Stores /\ i \in RamWords
    <3>1. WriteRam
      BY <1>1, <2>3, Placement DEF Next, KeepRam, data_en
    <3>2. mem'[i] = Merge(request.op, a % 4, mem[i], request.data)
      BY <3>1, StoreMerges
    <3> DEFINE stored == [mem EXCEPT ![i] = Merge(request.op, a % 4, mem[i], request.data)]
    <3>3. stored = [w \in WordIdx |-> stored[w]]
      BY <1>4
    <3>4. \A w \in WordIdx : mem'[w] = stored[w]
      BY <1>3, <1>4, <3>2
    <3>5. mem' = stored
      BY <1>4, <3>3, <3>4
    <3> QED BY <2>3, <3>5 DEF StoreAt
  <2> QED BY <2>1, <2>2, <2>3
<1> QED BY <1>1, <1>2, <1>5, BusOperators DEF Bus!Cycle

(***************************************************************************)
(* The memories of the examples, behind the decoder and the multiplexer,   *)
(* are the flat memory the core needs (memory.v 23-139, 615-763,           *)
(* io_bus_dmux.v 36-49), whatever their sizes and wherever the linker      *)
(* script puts the words.                                                  *)
(***************************************************************************)
THEOREM XilinxImplementsBus ==
  ASSUME PLATFORM = "XILINX" PROVE Spec => ImplementsBus
<1>1. Init => Bus!Init
  <2> SUFFICES ASSUME Init PROVE Bus!Init
    OBVIOUS
  <2>1. request \in Requests /\ mem \in Memories
    BY MemoryInit, MemoryTyped DEF Init
  <2>2. data_i = 0
    BY MemoryAssumption, SizesAssumption DEF Init, data_i, ram_out, rom_out, Word
  <2> QED BY <2>1, <2>2 DEF Bus!Init
<1>2. ASSUME MemoryInv, [Next]_vars PROVE [Bus!Cycle]_(Bus!vars)
  <2>1. CASE Next
    BY <1>2, <2>1, CycleImplements
  <2>2. CASE UNCHANGED vars
    BY <2>2 DEF vars, Bus!vars, mem, data_i, RamWord, Compose, ram_out, rom_out, data_en
  <2> QED BY <1>2, <2>1, <2>2
<1> QED BY <1>1, <1>2, MemoryCorrect, PTL DEF Spec, ImplementsBus, Bus!Spec
=============================================================================
