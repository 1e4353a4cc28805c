---------------------------- MODULE TrapsProofs -----------------------------
(***************************************************************************)
(* Facts about the functions of Csr and Traps that hold for every register *)
(* file and every context, whatever machine they are part of.              *)
(***************************************************************************)
EXTENDS Traps, TLAPS

\* Contexts with any encoding of the privilege, the reserved one included.
AnyContext == [csr : CsrFile, prv : SUBSET {0, 1}, pc : Int]

\* A flag register written with flags leaves a CSR file.
LEMMA WriteFlagType ==
  ASSUME NEW f \in CsrFile, NEW name \in FlagCsrs, NEW data \in Bits
  PROVE  WriteCsr(f, name, data) \in CsrFile
<1>1. /\ \A d \in Bits : [f EXCEPT !.mstatus = d] \in CsrFile /\ [f EXCEPT !.mie = d] \in CsrFile
      /\ \A d \in Bits : [f EXCEPT !.mip = d] \in CsrFile
      /\ \A d \in Bits : [f EXCEPT !.medeleg = d] \in CsrFile /\ [f EXCEPT !.mideleg = d] \in CsrFile
  BY DEF CsrFile
<1>2. \A old \in Bits : \A mask : Merge(old, data, mask) \in Bits /\ data \cap mask \in Bits
  BY DEF Bits, Merge
<1>3. f.mstatus \in Bits /\ f.mie \in Bits /\ f.mip \in Bits
  BY DEF CsrFile
<1> QED BY <1>1, <1>2, <1>3 DEF FlagCsrs, WriteCsr

\* A word register written with a number leaves a CSR file.
LEMMA WriteWordType ==
  ASSUME NEW f \in CsrFile, NEW name \in WordCsrs, NEW data \in Int
  PROVE  WriteCsr(f, name, data) \in CsrFile
  BY DEF CsrFile, WordCsrs, WriteCsr

\* Writing sstatus leaves MPP and every other register alone.
LEMMA WriteSstatus ==
  ASSUME NEW f \in CsrFile, NEW data, data \cap SSTATUS_MASK \in Bits
  PROVE  /\ WriteCsr(f, "sstatus", data) = [f EXCEPT !.mstatus = Merge(f.mstatus, data, SSTATUS_MASK)]
         /\ Merge(f.mstatus, data, SSTATUS_MASK) \in Bits
         /\ Merge(f.mstatus, data, SSTATUS_MASK) \cap MSTATUS_MPP = f.mstatus \cap MSTATUS_MPP
         /\ WriteCsr(f, "sstatus", data) \in CsrFile
<1>1. WriteCsr(f, "sstatus", data) = [f EXCEPT !.mstatus = Merge(f.mstatus, data, SSTATUS_MASK)]
  BY DEF WriteCsr
<1>2. Merge(f.mstatus, data, SSTATUS_MASK) \in Bits
  BY DEF CsrFile, Bits, Merge
<1>3. Merge(f.mstatus, data, SSTATUS_MASK) \cap MSTATUS_MPP = f.mstatus \cap MSTATUS_MPP
  BY DEF Merge, SSTATUS_MASK, MSTATUS_SIE, MSTATUS_SPIE, MSTATUS_SPP, MSTATUS_MPP
<1>4. WriteCsr(f, "sstatus", data) \in CsrFile
  <2> DEFINE ms == Merge(f.mstatus, data, SSTATUS_MASK)
  <2> HIDE DEF ms
  <2>1. ms \in Bits /\ WriteCsr(f, "sstatus", data) = [f EXCEPT !.mstatus = ms]
    BY <1>1, <1>2 DEF ms
  <2> QED BY <2>1 DEF CsrFile
<1> QED BY <1>1, <1>2, <1>3, <1>4

\* What the sstatus mask lets through is a set of flags.
LEMMA SstatusBits == \A data : data \cap SSTATUS_MASK \in Bits
  BY DEF Bits, SSTATUS_MASK, MSTATUS_SIE, MSTATUS_SPIE, MSTATUS_SPP

\* The scan of the interrupt table ends at an interrupt that is pending.
LEMMA SelectedIsPending ==
  ASSUME NEW c, InterruptDue(c)
  PROVE  /\ SelectedInterrupt(c) \in Causes
         /\ SelectedInterrupt(c).interrupt
         /\ SelectedInterrupt(c).code \in PendingInterrupts(c)
<1> DEFINE P == PendingInterrupts(c)
           First(b) == \A o \in P : Priority[b] <= Priority[o]
<1>1. P # {} /\ P \subseteq {1, 3, 5, 7, 9, 11}
  BY DEF InterruptDue, PendingInterrupts, Priority, ReadCsr, SIE_MASK, MIP_SSIP, MIP_STIP, MIP_SEIP
<1>2. /\ Priority[11] = 1 /\ Priority[3] = 2 /\ Priority[7] = 3
      /\ Priority[9] = 4 /\ Priority[1] = 5 /\ Priority[5] = 6
  BY DEF Priority
<1> HIDE DEF P
<1>3. \E b \in P : First(b)
  <2>1. CASE 11 \in P  BY <2>1, <1>1, <1>2
  <2>2. CASE 11 \notin P /\ 3 \in P  BY <2>2, <1>1, <1>2
  <2>3. CASE P \cap {11, 3} = {} /\ 7 \in P  BY <2>3, <1>1, <1>2
  <2>4. CASE P \cap {11, 3, 7} = {} /\ 9 \in P  BY <2>4, <1>1, <1>2
  <2>5. CASE P \cap {11, 3, 7, 9} = {} /\ 1 \in P  BY <2>5, <1>1, <1>2
  <2>6. CASE P \cap {11, 3, 7, 9, 1} = {} /\ 5 \in P  BY <2>6, <1>1, <1>2
  <2> QED BY <2>1, <2>2, <2>3, <2>4, <2>5, <2>6, <1>1
<1> DEFINE b == CHOOSE b \in P : First(b)
<1>4. b \in P
  BY <1>3
<1>5. SelectedInterrupt(c) = Interrupt(b)
  BY DEF SelectedInterrupt, P
<1> HIDE DEF b
<1>6. Interrupt(b) \in Causes /\ Interrupt(b).interrupt /\ Interrupt(b).code = b
  BY <1>1, <1>4 DEF Interrupt, Causes
<1> QED BY <1>4, <1>5, <1>6 DEF P

-----------------------------------------------------------------------------
(* Every function of Traps leads from contexts to contexts.                *)

\* The timer comparison.
LEMMA TickedType ==
  ASSUME NEW c \in AnyContext, NEW level \in BOOLEAN
  PROVE  [c EXCEPT !.csr = HwSetMtip(c.csr, level)] \in AnyContext
  BY DEF AnyContext, CsrFile, Bits, HwSetMtip, MIP_MTIP

\* Entry in S-mode.
LEMMA EnterSupervisorType ==
  ASSUME NEW c \in AnyContext, NEW epc \in Int, NEW cause \in Causes
  PROVE  EnterSupervisor(c, epc, cause) \in AnyContext
<1> DEFINE new == SupervisorEntryStatus(ReadCsr(c.csr, "sstatus"), c.prv)
<1>1. c.csr \in CsrFile
  BY DEF AnyContext
<1>2. WriteCsr(c.csr, "sstatus", new) \in CsrFile
  BY <1>1, WriteSstatus, SstatusBits
<1> HIDE DEF new
<1>3. [WriteCsr(c.csr, "sstatus", new) EXCEPT !.sepc = epc, !.scause = cause] \in CsrFile
  BY <1>2 DEF CsrFile
<1>4. PRV_S \in SUBSET {0, 1} /\ c.csr.stvec \in Int
  BY <1>1 DEF PRV_S, CsrFile
<1> QED BY <1>3, <1>4 DEF EnterSupervisor, AnyContext, new

\* Entry in M-mode.
LEMMA EnterMachineType ==
  ASSUME NEW c \in AnyContext, NEW epc \in Int, NEW cause \in Causes
  PROVE  EnterMachine(c, epc, cause) \in AnyContext
<1> DEFINE ms == MachineEntryStatus(c.csr.mstatus, c.prv)
<1>1. c.csr \in CsrFile /\ c.csr.mstatus \in Bits /\ c.prv \in SUBSET {0, 1}
  BY DEF AnyContext, CsrFile
<1>2. ms \in Bits
  <2>1. ShiftLeft(c.prv, 11) \subseteq 0..31
    BY <1>1 DEF ShiftLeft
  <2>2. MSTATUS_MPIE \subseteq 0..31
    BY DEF MSTATUS_MPIE
  <2> QED BY <1>1, <2>1, <2>2 DEF MachineEntryStatus, Bits
<1>3. EnterMachine(c, epc, cause)
        = [csr |-> [c.csr EXCEPT !.mstatus = ms, !.mepc = epc, !.mcause = cause],
           prv |-> PRV_M, pc |-> c.csr.mtvec]
  BY <1>1 DEF EnterMachine, CsrFile
<1> HIDE DEF ms
<1>4. [c.csr EXCEPT !.mstatus = ms, !.mepc = epc, !.mcause = cause] \in CsrFile
  BY <1>1, <1>2 DEF CsrFile
<1>5. PRV_M \in SUBSET {0, 1} /\ c.csr.mtvec \in Int
  BY <1>1 DEF PRV_M, CsrFile
<1> QED BY <1>3, <1>4, <1>5 DEF AnyContext

\* The handling of an exception.
LEMMA HandleTrapType ==
  ASSUME NEW c \in AnyContext, NEW epc \in Int, NEW cause \in Causes, NEW tval \in Int
  PROVE  HandleTrap(c, epc, cause, tval) \in AnyContext
<1> DEFINE s == EnterSupervisor(c, epc, cause)
           m == EnterMachine(c, epc, cause)
<1>1. s \in AnyContext /\ m \in AnyContext
  BY EnterSupervisorType, EnterMachineType
<1>2. HandleTrap(c, epc, cause, tval) \in {[s EXCEPT !.csr.stval = tval], [m EXCEPT !.csr.mtval = tval]}
  BY DEF HandleTrap
<1> HIDE DEF s, m
<1>3. [s EXCEPT !.csr.stval = tval] \in AnyContext /\ [m EXCEPT !.csr.mtval = tval] \in AnyContext
  BY <1>1 DEF AnyContext, CsrFile
<1> QED BY <1>2, <1>3

\* Taking an interrupt that is due.
LEMMA TakeInterruptType ==
  ASSUME NEW c \in AnyContext, InterruptDue(c)
  PROVE  TakeInterrupt(c) \in AnyContext
<1>1. SelectedInterrupt(c) \in Causes /\ c.pc \in Int
  BY SelectedIsPending DEF AnyContext
<1> QED BY <1>1, EnterSupervisorType, EnterMachineType DEF TakeInterrupt

\* MRET.
LEMMA MretType ==
  ASSUME NEW c \in AnyContext
  PROVE  Mret(c) \in AnyContext
<1> DEFINE ms == MretStatus(c.csr.mstatus)
           p  == {b \in {0, 1} : b + 11 \in c.csr.mstatus}
<1>1. c.csr \in CsrFile /\ c.csr.mstatus \in Bits
  BY DEF AnyContext, CsrFile
<1>2. ms \in Bits
  BY <1>1 DEF MretStatus, Bits, MSTATUS_MIE, MSTATUS_MPIE
<1>3. Mret(c) = [csr |-> [c.csr EXCEPT !.mstatus = ms], prv |-> p, pc |-> c.csr.mepc]
  BY <1>1 DEF Mret, CsrFile
<1>4. p \in SUBSET {0, 1}
  OBVIOUS
<1> HIDE DEF ms, p
<1>5. [c.csr EXCEPT !.mstatus = ms] \in CsrFile /\ c.csr.mepc \in Int
  BY <1>1, <1>2 DEF CsrFile
<1> QED BY <1>3, <1>4, <1>5 DEF AnyContext

\* SRET.
LEMMA SretType ==
  ASSUME NEW c \in AnyContext
  PROVE  Sret(c) \in AnyContext
<1> DEFINE old == ReadCsr(c.csr, "sstatus")
           new == (old \ (MSTATUS_SIE \cup MSTATUS_SPP))
                    \cup (IF MSTATUS_SPIE \subseteq old THEN MSTATUS_SIE ELSE {})
                    \cup MSTATUS_SPIE
           p   == IF MSTATUS_SPP \subseteq old THEN PRV_S ELSE PRV_U
<1>1. c.csr \in CsrFile
  BY DEF AnyContext
<1> HIDE DEF old
<1>2. Sret(c) = [csr |-> WriteCsr(c.csr, "sstatus", new), prv |-> p, pc |-> c.csr.sepc]
  BY DEF Sret, old
<1>3. p \in SUBSET {0, 1}
  BY DEF PRV_S, PRV_U
<1> HIDE DEF new, p
<1>4. WriteCsr(c.csr, "sstatus", new) \in CsrFile /\ c.csr.sepc \in Int
  BY <1>1, WriteSstatus, SstatusBits DEF CsrFile
<1> QED BY <1>2, <1>3, <1>4 DEF AnyContext
=============================================================================
