SPECIFICATION Spec
CONSTANTS
  Width = 4
  Wrap = 16
  Power <- MCPower
  BitXor <- MCXor
  BitOr <- MCOr
  BitAnd <- MCAnd
  Seconds <- MCSeconds
INVARIANTS TypeOK Correct
