\* A fetch page fault behind instructions in flight.
SPECIFICATION Spec
CONSTANTS
  NumRegs = 3
  WordSize = 8
  CodeSize = 8
  PageInstrs = 2
  DataSize = 8
  Misaligned = {3}
  UnmappedData = {}
  UnmappedCode = {4, 5, 7}
  Programs <- CornerPrograms
  Contexts <- CornerContexts
  InitData <- CountingData
  StackPointer = 5
  TimerLevels = {FALSE}
  PreciseInterrupts = TRUE
PROPERTIES
  FetchTrapKeepsOlder
