\* The trap logic under every order of events.
SPECIFICATION Spec
CONSTANTS
  Boots <- MCBoots
  Faults <- MCFaults
  SoftwareWrites <- MCWrites
  CodePcs <- MCCodePcs
INVARIANTS
  TypeOK
  ReturnPrivilegeLegal
  OnlyImplementedPending
  TrapReturnRestores
PROPERTIES
  ExceptionsNeverLowerPrivilege
  EntryMasksInterrupts
  SupervisorConfined
