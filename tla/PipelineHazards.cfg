\* All programs of three or four instructions that exercise the data and control hazards.
SPECIFICATION FairSpec
CONSTANTS
  NumRegs = 3
  WordSize = 8
  CodeSize = 8
  PageInstrs = 4
  DataSize = 8
  Misaligned = {}
  UnmappedData = {}
  UnmappedCode = {}
  Programs <- HazardPrograms
  Contexts <- ResetContext
  InitData <- CountingData
  StackPointer = 5
  TimerLevels = {FALSE}
  PreciseInterrupts = TRUE
INVARIANTS
  TypeOK
  LanesInOrder
  PairsAllowed
PROPERTIES
  ExecutesSequentially
  KeepsExecuting
  StopsEventually
