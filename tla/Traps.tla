------------------------------- MODULE Traps -------------------------------
(***************************************************************************)
(* Trap entry and return, as functions from the context they find to the   *)
(* context they leave.  A context holds what they read and write: the CSR  *)
(* file, the privilege level and the fetch pc.  What they also do to the   *)
(* pipeline latches belongs to the modules that call them.                 *)
(***************************************************************************)
EXTENDS Csr

Exception(code) == [interrupt |-> FALSE, code |-> code]
Interrupt(code) == [interrupt |-> TRUE,  code |-> code]

MCAUSE_ILLEGAL          == Exception(2)
MCAUSE_LOAD_MISALIGNED  == Exception(4)
MCAUSE_STORE_MISALIGNED == Exception(6)
MCAUSE_ECALL_U          == Exception(8)
MCAUSE_ECALL_S          == Exception(9)
MCAUSE_ECALL_M          == Exception(11)
MCAUSE_INST_PAGE_FAULT  == Exception(12)
MCAUSE_LOAD_PAGE_FAULT  == Exception(13)
MCAUSE_STORE_PAGE_FAULT == Exception(15)

EcallCause(prv) ==
  CASE prv = PRV_M -> MCAUSE_ECALL_M
    [] prv = PRV_S -> MCAUSE_ECALL_S
    [] OTHER       -> MCAUSE_ECALL_U

-----------------------------------------------------------------------------
(* Entry                                                                   *)

\* Defect for the mutant runs: SIE stays set.
SupervisorEntryKeepingSie(old, prv) ==
  old \cup (IF MSTATUS_SIE \subseteq old THEN MSTATUS_SPIE ELSE {}) \cup ShiftLeft(prv, 8)

\* sstatus after an entry in S-mode: SPIE takes SIE, SIE is cleared, SPP takes
\* the privilege.  (There are no other bits in the view.  prv << 8 reaches bit
\* 9 when prv is M; writing sstatus drops that bit.)
SupervisorEntryStatus(old, prv) ==
  (IF MSTATUS_SIE \subseteq old THEN MSTATUS_SPIE ELSE {}) \cup ShiftLeft(prv, 8)

EnterSupervisor(c, epc, cause) ==
  LET new == SupervisorEntryStatus(ReadCsr(c.csr, "sstatus"), c.prv)
  IN  [csr |-> [WriteCsr(c.csr, "sstatus", new)
                  EXCEPT !.sepc = epc, !.scause = cause],
       prv |-> PRV_S,
       pc  |-> c.csr.stvec]

\* Defect for the mutant runs: MPP taken for bits 12 and 13.
MachineEntryShifted(old, prv) ==
  (old \ (MSTATUS_MIE \cup MSTATUS_MPIE \cup MSTATUS_MPP))
    \cup (IF MSTATUS_MIE \subseteq old THEN MSTATUS_MPIE ELSE {})
    \cup ShiftLeft(prv, 12)

\* mstatus after an entry in M-mode: MPIE takes MIE, MIE is cleared, MPP takes
\* the privilege.
MachineEntryStatus(old, prv) ==
  (old \ (MSTATUS_MIE \cup MSTATUS_MPIE \cup MSTATUS_MPP))
    \cup (IF MSTATUS_MIE \subseteq old THEN MSTATUS_MPIE ELSE {})
    \cup ShiftLeft(prv, 11)

EnterMachine(c, epc, cause) ==
  [csr |-> [c.csr EXCEPT !.mstatus = MachineEntryStatus(@, c.prv),
                         !.mepc = epc, !.mcause = cause],
   prv |-> PRV_M,
   pc  |-> c.csr.mtvec]

\* Defect for the mutant runs: delegation whatever the privilege.
DelegatedFromAnyLevel(c, cause) == ExceptionDelegated(c.csr, cause)

TrapDelegated(c, cause) == ExceptionDelegated(c.csr, cause) /\ c.prv # PRV_M

HandleTrap(c, epc, cause, tval) ==
  IF TrapDelegated(c, cause)
    THEN LET s == EnterSupervisor(c, epc, cause)
         IN  [s EXCEPT !.csr.stval = tval]
    ELSE LET m == EnterMachine(c, epc, cause)
         IN  [m EXCEPT !.csr.mtval = tval]

-----------------------------------------------------------------------------
(* Interrupts                                                              *)

GlobalInterruptEnable(c) ==
  IF c.prv = PRV_M THEN MSTATUS_MIE \subseteq c.csr.mstatus
                   ELSE MSTATUS_SIE \subseteq c.csr.mstatus

\* The order of the table the code scans: MEI, MSI, MTI, SEI, SSI, STI.
Priority == [b \in {1, 3, 5, 7, 9, 11} |->
               CASE b = 11 -> 1 [] b = 3 -> 2 [] b = 7 -> 3
                 [] b = 9  -> 4 [] b = 1 -> 5 [] b = 5 -> 6]

\* Outside M-mode only the supervisor views of mie and mip are looked at.
PendingInterrupts(c) ==
  IF c.prv = PRV_M
    THEN c.csr.mie \cap c.csr.mip \cap DOMAIN Priority
    ELSE ReadCsr(c.csr, "sie") \cap ReadCsr(c.csr, "sip")

InterruptDue(c) == GlobalInterruptEnable(c) /\ PendingInterrupts(c) # {}

SelectedInterrupt(c) ==
  Interrupt(CHOOSE b \in PendingInterrupts(c) :
              \A o \in PendingInterrupts(c) : Priority[b] <= Priority[o])

TakeInterrupt(c) ==
  LET cause == SelectedInterrupt(c)
  IN  IF InterruptDelegated(c.csr, cause) \/ c.prv # PRV_M
        THEN EnterSupervisor(c, c.pc, cause)
        ELSE EnterMachine(c, c.pc, cause)

-----------------------------------------------------------------------------
(* Return                                                                  *)

\* Defects for the mutant runs: one bit of MPP is cleared; MIE is left alone.
MretClearingHalfOfMpp(old) ==
  (old \ (MSTATUS_MIE \cup {11}))
    \cup (IF MSTATUS_MPIE \subseteq old THEN MSTATUS_MIE ELSE {}) \cup MSTATUS_MPIE
MretLeavingMie(old) == (old \ MSTATUS_MPP) \cup MSTATUS_MPIE

\* MIE takes MPIE, MPIE is set, MPP becomes U.
MretStatus(old) ==
  (old \ (MSTATUS_MIE \cup MSTATUS_MPP))
    \cup (IF MSTATUS_MPIE \subseteq old THEN MSTATUS_MIE ELSE {}) \cup MSTATUS_MPIE

\* The privilege is the old MPP, in its encoding.
Mret(c) == [csr |-> [c.csr EXCEPT !.mstatus = MretStatus(@)],
            prv |-> {b \in {0, 1} : b + 11 \in c.csr.mstatus},
            pc  |-> c.csr.mepc]

\* SIE takes SPIE, SPIE is set, SPP becomes U; the privilege is the old SPP.
Sret(c) ==
  LET old == ReadCsr(c.csr, "sstatus")
      new == (old \ (MSTATUS_SIE \cup MSTATUS_SPP))
               \cup (IF MSTATUS_SPIE \subseteq old THEN MSTATUS_SIE ELSE {})
               \cup MSTATUS_SPIE
  IN  [csr |-> WriteCsr(c.csr, "sstatus", new),
       prv |-> IF MSTATUS_SPP \subseteq old THEN PRV_S ELSE PRV_U,
       pc  |-> c.csr.sepc]
=============================================================================
