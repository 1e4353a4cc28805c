\* What an interrupt saves as the interrupted instruction.
SPECIFICATION Spec
CONSTANTS
  NumRegs = 3
  WordSize = 12
  CodeSize = 11
  PageInstrs = 4
  DataSize = 8
  Misaligned = {}
  UnmappedData = {}
  UnmappedCode = {}
  Programs <- InterruptPrograms
  Contexts <- InterruptContexts
  InitData <- CountingData
  StackPointer = 5
  TimerLevels = {TRUE, FALSE}
  PreciseInterrupts = TRUE
PROPERTIES
  InterruptSavesNextPc
