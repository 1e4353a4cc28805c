\* Programs that trap and return, from every privilege level.
SPECIFICATION Spec
CONSTANTS
  NumRegs = 3
  WordSize = 24
  CodeSize = 24
  PageInstrs = 2
  DataSize = 12
  Misaligned = {3}
  UnmappedData = {9}
  UnmappedCode = {18, 19, 22, 23}
  Programs <- TrapPrograms
  Contexts <- TrapContexts
  InitData <- CountingData
  StackPointer = 5
  TimerLevels = {FALSE}
  PreciseInterrupts = TRUE
INVARIANTS
  Precise
PROPERTIES
  ExecutesSequentially
