SPECIFICATION TimedSpec
CONSTANTS
  SINGLE_BUS = TRUE
  WordSize = 256
  AddrSize = 128
  SysSize = 32
  RESET_VECTOR = 64
  RESET_HOLD = 2
  VECTOR_INT_TABLE_SIZE = 1
  RamWords = {8, 9}
  Regs <- MCRegs
  Decode <- MCDecode
  Alu <- MCAlu
  Narrow <- MCNarrow
  Merge <- MCMerge
  Programs <- SinglePrograms
INVARIANTS TypeOK PipelineShape ResetShape FetchAligned HeldAligned TimingAsDocumented LatencyBounded
PROPERTIES ImplementsIsa MaskKept
