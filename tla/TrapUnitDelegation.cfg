\* Interrupts delegated to S-mode that arrive while the core is in M-mode.
SPECIFICATION Spec
CONSTANTS
  Boots <- DelegatingBoots
  Faults <- MCFaults
  SoftwareWrites <- MCWrites
  CodePcs <- MCCodePcs
PROPERTY InterruptsNeverLowerPrivilege
