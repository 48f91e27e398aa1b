SPECIFICATION Spec
CONSTANTS
  WordSize = 256
  Digits = 2
  Place <- MCPlace
  _end = 130
  _heap_end = 211
  Fds = {0, 1, 2, 3}
  Texts <- MCTexts
  Codes <- MCCodes
  Increments <- MCIncrements
  Message <- MCMessage
  MaxSent = 3
INVARIANTS TypeOK UartReady
PROPERTIES HeapExact ImplementsConsole
