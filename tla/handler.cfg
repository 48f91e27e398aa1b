SPECIFICATION HSpec
CONSTANTS
  WordSize = 256
  AddrSize = 256
  SysSize = 32
  RESET_VECTOR = 96
  VECTOR_INT_TABLE_SIZE = 2
  RamWords <- MCRam
  Regs <- MCRegs
  Decode <- MCDecode
  Alu <- MCAlu
  Narrow <- MCNarrow
  Merge <- MCMerge
  Programs <- MCPrograms
  NReg = 4
  t1 = 4
  Stack <- MCStack
  Main <- MCMain
  Body <- MCBody
  MaxNesting = 2
INVARIANTS MaskedWhileHandled StoreHarmless
PROPERTIES ResumesInterrupted ProgramBehaves
