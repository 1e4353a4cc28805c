\* Interrupts at any tick, and programs and contexts that leave the sequential
\* machine in every way the code can.
SPECIFICATION Spec
CONSTANTS
  NumRegs = 3
  WordSize = 11
  CodeSize = 11
  PageInstrs = 2
  DataSize = 8
  Misaligned = {3}
  UnmappedData = {6}
  UnmappedCode = {4, 5, 7}
  Programs <- WildPrograms
  Contexts <- WildContexts
  InitData <- CountingData
  StackPointer = 5
  TimerLevels = {TRUE, FALSE}
  PreciseInterrupts = FALSE
PROPERTIES
  SequentialWhenPrecise
