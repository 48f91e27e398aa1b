SPECIFICATION Spec
CONSTANTS
  PLATFORM = "XILINX"
  LaneSize = 4
  WordSize = 256
  AddrSize = 128
  SysSize = 32
  RESET_VECTOR = 64
  VECTOR_INT_TABLE_SIZE = 1
  RAM_CELLS = 2
  ROM_CELLS = 3
  RamWords = {8, 9}
  RomWords = {16, 17, 18}
  Regs = {0}
  PowerUp = {3}
  Rom <- MCRom
  Requests <- MCRequests
  BusOr <- WordOr
  Decode <- MCDecode
  Alu <- MCAlu
  Narrow <- MCNarrow
  Merge <- MCMerge
INVARIANT BusesDisjoint
PROPERTY ImplementsBus
