\* The snake program: keys, ring, delays and interrupts, until mtime has run
\* over.
SPECIFICATION Spec
CONSTANTS
  WordSize = 12
  Key = {w, s}
  RingSize = 3
  Cycles = 4
  StepTicks = 1
  MaxKeys = 4
  Horizon <- MCHorizon
SYMMETRY Symmetry
INVARIANTS
  TypeOK
  RingIsFifo
  RepeatsFiltered
  OneWakeUpPerDelay
  ReturnsInTime
  InterruptsOnlyTheWait
PROPERTIES
  NoEarlyReturn
