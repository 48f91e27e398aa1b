SPECIFICATION Spec
CONSTANTS
  WordSize = 4
  CntSize = 4
  DataWords = 1
  LoadImage <- MCLoadImage
  delay_cycles = 2
  Lamps = {0, 1, 2}
  Connected = {0}
  GAP = 3
  MaxElapsed = 8
INVARIANTS TypeOK Initialised StackReady LedShows
PROPERTIES DelayAccurate DelayEnds LedKeepsChanging
