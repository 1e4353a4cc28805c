--------------------------- MODULE TrapUnitProofs ---------------------------
(***************************************************************************)
(* What TrapUnit keeps for every boot context, every set of faults and     *)
(* software writes.  The inductive invariant is Legal(Context): it says    *)
(* more than the type invariant, because the privilege an MRET returns to  *)
(* is legal only if MPP was.  One lemma for each function of Csr and Traps *)
(* shows that it leads from legal contexts to legal contexts.              *)
(***************************************************************************)
EXTENDS TrapUnit, TrapsProofs

\* The timer comparison changes MTIP only, an implemented bit.
LEMMA HwSetMtipLegal ==
  ASSUME NEW c, Legal(c), NEW level \in BOOLEAN
  PROVE  Legal([c EXCEPT !.csr = HwSetMtip(c.csr, level)])
  BY DEF Legal, Contexts, CsrFile, Bits, HwSetMtip, Implemented,
         MIP_SSIP, MIP_MSIP, MIP_MTIP, LegalMpp

(* Lemmas about trap entry and return.                                     *)

\* A file that differs in mstatus (with the same MPP) and in registers no one
\* is restricted in writing is as legal as before.
LEMMA LegalFields ==
  ASSUME NEW c, Legal(c), NEW f \in CsrFile, NEW p \in Privileges, NEW a \in Int,
         LegalMpp(f.mstatus), f.mip = c.csr.mip,
         f.mideleg = c.csr.mideleg, f.medeleg = c.csr.medeleg
  PROVE  Legal([csr |-> f, prv |-> p, pc |-> a])
  BY DEF Legal, Contexts

\* Entry in S-mode leaves MPP, the pending bits and the delegation alone.
LEMMA EnterSupervisorLegal ==
  ASSUME NEW c, Legal(c), NEW epc \in Int, NEW cause \in Causes
  PROVE  Legal(EnterSupervisor(c, epc, cause))
<1> DEFINE new == SupervisorEntryStatus(ReadCsr(c.csr, "sstatus"), c.prv)
           ms  == Merge(c.csr.mstatus, new, SSTATUS_MASK)
           f   == [[c.csr EXCEPT !.mstatus = ms] EXCEPT !.sepc = epc, !.scause = cause]
<1>1. c.csr \in CsrFile /\ LegalMpp(c.csr.mstatus)
  BY DEF Legal, Contexts
<1>2. /\ WriteCsr(c.csr, "sstatus", new) = [c.csr EXCEPT !.mstatus = ms]
      /\ ms \in Bits /\ ms \cap MSTATUS_MPP = c.csr.mstatus \cap MSTATUS_MPP
  BY <1>1, WriteSstatus, SstatusBits
<1>3. EnterSupervisor(c, epc, cause) = [csr |-> f, prv |-> PRV_S, pc |-> c.csr.stvec]
  BY <1>2 DEF EnterSupervisor
<1> HIDE DEF ms
<1>4. /\ f \in CsrFile
      /\ f.mstatus = ms /\ f.mip = c.csr.mip
      /\ f.mideleg = c.csr.mideleg /\ f.medeleg = c.csr.medeleg
  BY <1>1, <1>2 DEF CsrFile
<1>5. LegalMpp(f.mstatus)
  BY <1>1, <1>2, <1>4 DEF LegalMpp
<1>6. PRV_S \in Privileges /\ c.csr.stvec \in Int
  BY <1>1 DEF Privileges, CsrFile
<1> HIDE DEF f
<1> QED BY <1>3, <1>4, <1>5, <1>6, LegalFields

\* The privilege shifted to MPP, for each of the three levels.
LEMMA ShiftedPrivilege ==
  ASSUME NEW p \in Privileges
  PROVE  ShiftLeft(p, 11) \in {{}, {11}, {11, 12}}
<1>1. CASE p = PRV_U
  BY <1>1 DEF ShiftLeft, PRV_U
<1>2. CASE p = PRV_S
  <2>1. ShiftLeft(p, 11) = {11}
    BY <1>2 DEF ShiftLeft, PRV_S
  <2> QED BY <2>1
<1>3. CASE p = PRV_M
  <2>1. ShiftLeft(p, 11) = {11, 12}
    BY <1>3 DEF ShiftLeft, PRV_M
  <2> QED BY <2>1
<1> QED BY <1>1, <1>2, <1>3 DEF Privileges

\* mstatus after an entry in M-mode holds one of the three levels in MPP.
LEMMA MachineEntryStatusLegal ==
  ASSUME NEW old \in Bits, NEW p \in Privileges
  PROVE  MachineEntryStatus(old, p) \in Bits /\ LegalMpp(MachineEntryStatus(old, p))
<1> DEFINE s == ShiftLeft(p, 11)
           t == IF MSTATUS_MIE \subseteq old THEN MSTATUS_MPIE ELSE {}
           r == old \ (MSTATUS_MIE \cup MSTATUS_MPIE \cup MSTATUS_MPP)
<1>1. s \in {{}, {11}, {11, 12}}
  BY ShiftedPrivilege
<1>2. t \subseteq {7}
  BY DEF MSTATUS_MPIE
<1>3. r \in Bits /\ r \cap {11, 12} = {}
  BY DEF Bits, MSTATUS_MPP
<1>4. MachineEntryStatus(old, p) = r \cup t \cup s
  BY DEF MachineEntryStatus
<1> HIDE DEF r, s, t
<1>5. r \cup t \cup s \in Bits
  <2>1. s \subseteq 0..31 /\ t \subseteq 0..31 /\ r \subseteq 0..31
    BY <1>1, <1>2, <1>3 DEF Bits
  <2> QED BY <2>1 DEF Bits
<1>6. (r \cup t \cup s) \cap {11, 12} = s
  BY <1>1, <1>2, <1>3
<1>7. s # {12}
  BY <1>1
<1> QED BY <1>4, <1>5, <1>6, <1>7 DEF LegalMpp, MSTATUS_MPP

\* Entry in M-mode stores the privilege, one of the three levels, in MPP.
LEMMA EnterMachineLegal ==
  ASSUME NEW c, Legal(c), NEW epc \in Int, NEW cause \in Causes
  PROVE  Legal(EnterMachine(c, epc, cause))
<1> DEFINE ms == MachineEntryStatus(c.csr.mstatus, c.prv)
           f  == [c.csr EXCEPT !.mstatus = ms, !.mepc = epc, !.mcause = cause]
<1>1. c.csr \in CsrFile /\ c.prv \in Privileges
  BY DEF Legal, Contexts
<1>2. ms \in Bits /\ LegalMpp(ms)
  BY <1>1, MachineEntryStatusLegal DEF CsrFile
<1>3. EnterMachine(c, epc, cause) = [csr |-> f, prv |-> PRV_M, pc |-> c.csr.mtvec]
  BY <1>1 DEF EnterMachine, CsrFile
<1> HIDE DEF ms
<1>4. /\ f \in CsrFile
      /\ f.mstatus = ms /\ f.mip = c.csr.mip
      /\ f.mideleg = c.csr.mideleg /\ f.medeleg = c.csr.medeleg
  BY <1>1, <1>2 DEF CsrFile
<1>5. PRV_M \in Privileges /\ c.csr.mtvec \in Int
  BY <1>1 DEF Privileges, CsrFile
<1> HIDE DEF f
<1> QED BY <1>2, <1>3, <1>4, <1>5, LegalFields

\* Delegated or not, the handling of an exception is legal.
LEMMA HandleTrapLegal ==
  ASSUME NEW c, Legal(c), NEW epc \in Int, NEW cause \in Causes, NEW tval \in Int
  PROVE  Legal(HandleTrap(c, epc, cause, tval))
<1> DEFINE s == EnterSupervisor(c, epc, cause)
           m == EnterMachine(c, epc, cause)
<1>1. Legal(s) /\ Legal(m)
  BY EnterSupervisorLegal, EnterMachineLegal
<1>2. HandleTrap(c, epc, cause, tval) \in {[s EXCEPT !.csr.stval = tval], [m EXCEPT !.csr.mtval = tval]}
  BY DEF HandleTrap
<1> HIDE DEF s, m
<1>3. Legal([s EXCEPT !.csr.stval = tval]) /\ Legal([m EXCEPT !.csr.mtval = tval])
  BY <1>1 DEF Legal, Contexts, CsrFile
<1> QED BY <1>2, <1>3

\* Taking an interrupt is legal.
LEMMA TakeInterruptLegal ==
  ASSUME NEW c, Legal(c), InterruptDue(c)
  PROVE  Legal(TakeInterrupt(c))
<1>1. SelectedInterrupt(c) \in Causes /\ c.pc \in Int
  BY SelectedIsPending DEF Legal, Contexts
<1> QED BY <1>1, EnterSupervisorLegal, EnterMachineLegal DEF TakeInterrupt

\* MRET leaves U in MPP and returns to the level MPP named, a legal one.
LEMMA MretLegal ==
  ASSUME NEW c, Legal(c)
  PROVE  Legal(Mret(c))
<1> DEFINE old == c.csr.mstatus
           ms  == MretStatus(old)
           f   == [c.csr EXCEPT !.mstatus = ms]
           p   == {b \in {0, 1} : b + 11 \in old}
<1>1. c.csr \in CsrFile /\ old \in Bits /\ LegalMpp(old)
  BY DEF Legal, Contexts, CsrFile
<1>2. ms \in Bits /\ LegalMpp(ms)
  <2> DEFINE t == IF MSTATUS_MPIE \subseteq old THEN MSTATUS_MIE ELSE {}
             r == old \ (MSTATUS_MIE \cup MSTATUS_MPP)
  <2>1. t \subseteq {3} /\ r \in Bits /\ r \cap {11, 12} = {}
    BY <1>1 DEF MSTATUS_MIE, MSTATUS_MPP, Bits
  <2>2. ms = r \cup t \cup {7}
    BY DEF MretStatus, MSTATUS_MPIE
  <2> HIDE DEF r, t, ms
  <2>3. r \cup t \cup {7} \in Bits /\ (r \cup t \cup {7}) \cap {11, 12} = {}
    BY <2>1 DEF Bits
  <2> QED BY <2>2, <2>3 DEF LegalMpp, MSTATUS_MPP
<1>3. p \in Privileges
  <2>1. ~(12 \in old /\ 11 \notin old)
    BY <1>1 DEF LegalMpp, MSTATUS_MPP
  <2>2. CASE 11 \notin old
    BY <2>1, <2>2 DEF Privileges, PRV_U
  <2>3. CASE 11 \in old /\ 12 \notin old
    <3>1. p = {0}  BY <2>3
    <3> QED BY <3>1 DEF Privileges, PRV_S
  <2>4. CASE 11 \in old /\ 12 \in old
    <3>1. p = {0, 1}  BY <2>4
    <3> QED BY <3>1 DEF Privileges, PRV_M
  <2> QED BY <2>2, <2>3, <2>4
<1>4. Mret(c) = [csr |-> f, prv |-> p, pc |-> c.csr.mepc]
  BY <1>1 DEF Mret, CsrFile
<1> HIDE DEF ms, p
<1>5. /\ f \in CsrFile /\ f.mstatus = ms /\ f.mip = c.csr.mip
      /\ f.mideleg = c.csr.mideleg /\ f.medeleg = c.csr.medeleg /\ c.csr.mepc \in Int
  BY <1>1, <1>2 DEF CsrFile
<1> HIDE DEF f
<1> QED BY <1>2, <1>3, <1>4, <1>5, LegalFields

\* SRET reaches mstatus through the supervisor mask: MPP stays.
LEMMA SretLegal ==
  ASSUME NEW c, Legal(c)
  PROVE  Legal(Sret(c))
<1> DEFINE old == ReadCsr(c.csr, "sstatus")
           new == (old \ (MSTATUS_SIE \cup MSTATUS_SPP))
                    \cup (IF MSTATUS_SPIE \subseteq old THEN MSTATUS_SIE ELSE {})
                    \cup MSTATUS_SPIE
           ms  == Merge(c.csr.mstatus, new, SSTATUS_MASK)
           f   == [c.csr EXCEPT !.mstatus = ms]
           p   == IF MSTATUS_SPP \subseteq old THEN PRV_S ELSE PRV_U
<1>1. c.csr \in CsrFile /\ LegalMpp(c.csr.mstatus)
  BY DEF Legal, Contexts
<1> HIDE DEF old
<1>2. p \in Privileges
  BY DEF Privileges
<1>3. Sret(c) = [csr |-> WriteCsr(c.csr, "sstatus", new), prv |-> p, pc |-> c.csr.sepc]
  BY DEF Sret, old
<1> HIDE DEF new, p
<1>4. /\ WriteCsr(c.csr, "sstatus", new) = f
      /\ ms \in Bits /\ ms \cap MSTATUS_MPP = c.csr.mstatus \cap MSTATUS_MPP
  BY <1>1, WriteSstatus, SstatusBits
<1> HIDE DEF ms
<1>5. /\ f \in CsrFile /\ f.mstatus = ms /\ f.mip = c.csr.mip
      /\ f.mideleg = c.csr.mideleg /\ f.medeleg = c.csr.medeleg /\ c.csr.sepc \in Int
  BY <1>1, <1>4 DEF CsrFile
<1>6. LegalMpp(f.mstatus)
  BY <1>1, <1>4, <1>5 DEF LegalMpp
<1> HIDE DEF f
<1> QED BY <1>2, <1>3, <1>4, <1>5, <1>6, LegalFields

\* A write software may issue, to any of the registers.
LEMMA SoftwareWriteLegal ==
  ASSUME NEW c, Legal(c), NEW w \in SoftwareWrites
  PROVE  Legal([c EXCEPT !.csr = WriteCsr(c.csr, w.name, w.data)])
<1> DEFINE f == WriteCsr(c.csr, w.name, w.data)
<1>1. /\ c.csr \in CsrFile /\ c.prv \in Privileges /\ c.pc \in Int
      /\ LegalMpp(c.csr.mstatus) /\ c.csr.mip \subseteq Implemented
      /\ c.csr.mideleg \subseteq MIDELEG_MASK /\ c.csr.medeleg \subseteq MEDELEG_MASK
      /\ [c EXCEPT !.csr = f] = [csr |-> f, prv |-> c.prv, pc |-> c.pc]
  BY DEF Legal, Contexts
<1>2. /\ w.name \in FlagCsrs => w.data \in Bits
      /\ w.name \in WordCsrs => w.data \in Int
      /\ w.name = "mstatus" => LegalMpp(w.data)
      /\ w.name \in FlagCsrs \cup WordCsrs
  BY WritesAssumption DEF LegalWrite
<1>3. f \in CsrFile
  BY <1>1, <1>2, WriteFlagType, WriteWordType
<1>4. LegalMpp(f.mstatus)
  <2>1. CASE w.name = "sstatus"
    <3>1. /\ f = [c.csr EXCEPT !.mstatus = Merge(c.csr.mstatus, w.data, SSTATUS_MASK)]
          /\ Merge(c.csr.mstatus, w.data, SSTATUS_MASK) \cap MSTATUS_MPP
               = c.csr.mstatus \cap MSTATUS_MPP
      BY <1>1, <2>1, WriteSstatus, SstatusBits
    <3>2. f.mstatus = Merge(c.csr.mstatus, w.data, SSTATUS_MASK)
      BY <1>1, <3>1 DEF CsrFile
    <3> QED BY <1>1, <3>1, <3>2 DEF LegalMpp
  <2>2. CASE w.name = "mstatus"
    <3>1. f.mstatus = w.data
      BY <1>1, <2>2 DEF WriteCsr, CsrFile
    <3> QED BY <1>2, <2>2, <3>1
  <2>3. CASE w.name \notin {"sstatus", "mstatus"}
    <3>1. f.mstatus = c.csr.mstatus
      BY <1>1, <1>2, <2>3 DEF WriteCsr, CsrFile, FlagCsrs, WordCsrs
    <3> QED BY <1>1, <3>1
  <2> QED BY <2>1, <2>2, <2>3
<1>5. f.mip \subseteq Implemented
  <2>1. f.mip \in {c.csr.mip, Merge(c.csr.mip, w.data, MIP_WRITABLE),
                   Merge(c.csr.mip, w.data, SIP_WRITABLE)}
    BY <1>1, <1>2 DEF WriteCsr, CsrFile, FlagCsrs, WordCsrs
  <2> QED BY <1>1, <2>1 DEF Merge, MIP_WRITABLE, SIP_WRITABLE, Implemented
<1>6. f.mideleg \subseteq MIDELEG_MASK /\ f.medeleg \subseteq MEDELEG_MASK
  <2>1. f.mideleg \in {c.csr.mideleg, w.data \cap MIDELEG_MASK}
    BY <1>1, <1>2 DEF WriteCsr, CsrFile, FlagCsrs, WordCsrs
  <2>2. f.medeleg \in {c.csr.medeleg, w.data \cap MEDELEG_MASK}
    BY <1>1, <1>2 DEF WriteCsr, CsrFile, FlagCsrs, WordCsrs
  <2> QED BY <1>1, <2>1, <2>2
<1> HIDE DEF f
<1>7. Legal([csr |-> f, prv |-> c.prv, pc |-> c.pc])
  BY <1>1, <1>3, <1>4, <1>5, <1>6 DEF Legal, Contexts
<1> QED BY <1>1, <1>7 DEF f

-----------------------------------------------------------------------------
(* The inductive invariant.                                                *)

IInv == Legal(Context)

\* A step that takes the next context from a legal one is legal.
LEMMA BecomesLegal ==
  ASSUME NEW c, Legal(c), Becomes(c)
  PROVE  IInv'
<1>1. c = [csr |-> c.csr, prv |-> c.prv, pc |-> c.pc]
  BY DEF Legal, Contexts
<1> QED BY <1>1 DEF Becomes, IInv, Context

\* Boot code leaves a legal context.
LEMMA InitIInv == Init => IInv
<1> SUFFICES ASSUME NEW c \in Boots, csr = c.csr, prv = c.prv, pc = c.pc
             PROVE  IInv
  BY DEF Init
<1>1. Legal(c)
  BY BootsAssumption
<1>2. c = [csr |-> c.csr, prv |-> c.prv, pc |-> c.pc]
  BY <1>1 DEF Legal, Contexts
<1> QED BY <1>1, <1>2 DEF IInv, Context

\* Every step keeps the context legal.
LEMMA NextIInv == IInv /\ [Next]_vars => IInv'
<1> SUFFICES ASSUME IInv, [Next]_vars
             PROVE  IInv'
  OBVIOUS
<1>1. Legal(Context) /\ Context \in Contexts /\ pc \in Int
  BY DEF IInv, Legal, Context, Contexts
<1>2. ASSUME NEW level \in BOOLEAN
      PROVE  Legal(Ticked(level))
  BY <1>1, HwSetMtipLegal DEF Ticked, Context
<1>3. ASSUME NEW level \in BOOLEAN, TickQuiet(level)
      PROVE  IInv'
  BY <1>2, <1>3, BecomesLegal DEF TickQuiet
<1>4. ASSUME NEW level \in BOOLEAN, TickInterrupt(level)
      PROVE  IInv'
  BY <1>2, <1>4, TakeInterruptLegal, BecomesLegal DEF TickInterrupt
<1>5. ASSUME NEW cause \in Faults, Fault(cause)
      PROVE  IInv'
  <2>1. cause \in Causes
    BY FaultsAssumption DEF Causes
  <2> QED BY <1>1, <1>5, <2>1, HandleTrapLegal, BecomesLegal DEF Fault
<1>6. CASE Ecall
  <2>1. EcallCause(prv) \in Causes
    BY DEF EcallCause, MCAUSE_ECALL_M, MCAUSE_ECALL_S, MCAUSE_ECALL_U, Exception, Causes
  <2> QED BY <1>1, <1>6, <2>1, HandleTrapLegal, BecomesLegal DEF Ecall
<1>7. CASE ReturnMachine
  BY <1>1, <1>7, MretLegal, BecomesLegal DEF ReturnMachine
<1>8. CASE ReturnSupervisor
  BY <1>1, <1>8, SretLegal, BecomesLegal DEF ReturnSupervisor
<1>9. ASSUME NEW w \in SoftwareWrites, SoftwareWrite(w)
      PROVE  IInv'
  <2> DEFINE d == [Context EXCEPT !.csr = WriteCsr(Context.csr, w.name, w.data)]
  <2>1. Legal(d)
    BY <1>1, SoftwareWriteLegal
  <2>2. Becomes(d)
    BY <1>9 DEF SoftwareWrite, Becomes, Context
  <2> HIDE DEF d
  <2> QED BY <2>1, <2>2, BecomesLegal
<1>10. ASSUME NEW next \in CodePcs, Run(next)
       PROVE  IInv'
  BY <1>1, <1>10, PcsAssumption DEF Run, IInv, Legal, Context, Contexts
<1>11. CASE UNCHANGED vars
  BY <1>11 DEF vars, IInv, Context
<1> QED BY <1>3, <1>4, <1>5, <1>6, <1>7, <1>8, <1>9, <1>10, <1>11 DEF Next

\* Spec keeps the context legal.
THEOREM Invariance == Spec => []IInv
  BY InitIInv, NextIInv, PTL DEF Spec

\* The registers, the privilege and the delegation masks are well typed.
THEOREM TypeCorrect == Spec => []TypeOK
<1>1. IInv => TypeOK
  BY DEF IInv, Legal, Contexts, Context, TypeOK
<1> QED BY <1>1, Invariance, PTL

\* An MRET at any moment returns to U, S or M (HandleTrap and MRET only ever
\* store legal levels in MPP).
THEOREM ReturnPrivilegeIsLegal == Spec => []ReturnPrivilegeLegal
<1>1. IInv => ReturnPrivilegeLegal
  BY DEF IInv, Legal, Context, ReturnPrivilegeLegal
<1> QED BY <1>1, Invariance, PTL

\* STIP, SEIP and MEIP are never pending, whatever software writes.
THEOREM PendingIsImplemented == Spec => []OnlyImplementedPending
<1>1. IInv => OnlyImplementedPending
  BY DEF IInv, Legal, Context, OnlyImplementedPending
<1> QED BY <1>1, Invariance, PTL

-----------------------------------------------------------------------------
(* Action properties.                                                      *)

\* The three encodings are three levels.
LEMMA LevelsDiffer == PRV_M # PRV_S /\ PRV_M # PRV_U /\ PRV_S # PRV_U
<1>1. 1 \in PRV_M /\ 1 \notin PRV_S /\ 1 \notin PRV_U /\ 0 \in PRV_S /\ 0 \notin PRV_U
  BY DEF PRV_M, PRV_S, PRV_U
<1> QED BY <1>1

\* Handling an exception does not lower the privilege: a delegated one came
\* from S or U and goes to S, the others go to M.
LEMMA HandleTrapPrivilege ==
  ASSUME NEW c, NEW epc, NEW cause, NEW tval, c.prv \in Privileges
  PROVE  Rank(HandleTrap(c, epc, cause, tval).prv) >= Rank(c.prv)
<1> DEFINE h == HandleTrap(c, epc, cause, tval)
<1>1. \/ h.prv = PRV_M
      \/ h.prv = PRV_S /\ c.prv # PRV_M
  BY DEF HandleTrap, TrapDelegated, EnterSupervisor, EnterMachine
<1>2. PRV_M # PRV_S /\ PRV_M # PRV_U /\ PRV_S # PRV_U
  BY LevelsDiffer
<1>3. Rank(PRV_M) = 3 /\ Rank(PRV_S) = 1 /\ Rank(PRV_U) = 0
  BY <1>2 DEF Rank
<1> HIDE DEF h
<1>4. Rank(h.prv) >= Rank(c.prv)
  BY <1>1, <1>3 DEF Privileges
<1> QED BY <1>4 DEF h

\* No exception is handled below the privilege it was raised at.
THEOREM ExceptionPrivilege == Spec => ExceptionsNeverLowerPrivilege
<1>1. IInv /\ [Next]_vars => [ExceptionStep => Rank(prv') >= Rank(prv)]_vars
  <2> SUFFICES ASSUME IInv, ExceptionStep
               PROVE  Rank(prv') >= Rank(prv)
    OBVIOUS
  <2>1. Context.prv = prv /\ prv \in Privileges
    BY DEF IInv, Legal, Contexts, Context
  <2>2. \E epc, cause, tval : prv' = HandleTrap(Context, epc, cause, tval).prv
    BY DEF ExceptionStep, Fault, Ecall, Becomes
  <2> QED BY <2>1, <2>2, HandleTrapPrivilege
<1> QED BY <1>1, Invariance, PTL DEF Spec, ExceptionsNeverLowerPrivilege

\* mstatus after an entry in S-mode has SIE off, after one in M-mode MIE.
LEMMA EntryMasks ==
  ASSUME NEW c, Legal(c), NEW epc \in Int, NEW cause \in Causes
  PROVE  /\ ~GlobalInterruptEnable(EnterSupervisor(c, epc, cause))
         /\ ~GlobalInterruptEnable(EnterMachine(c, epc, cause))
<1> DEFINE new == SupervisorEntryStatus(ReadCsr(c.csr, "sstatus"), c.prv)
           ms  == Merge(c.csr.mstatus, new, SSTATUS_MASK)
<1>1. c.csr \in CsrFile /\ c.prv \in Privileges
  BY DEF Legal, Contexts
<1>2. WriteCsr(c.csr, "sstatus", new) = [c.csr EXCEPT !.mstatus = ms]
  BY <1>1, WriteSstatus, SstatusBits
<1>3. 1 \notin ms
  <2>1. 1 \notin ShiftLeft(c.prv, 8)
    BY <1>1 DEF ShiftLeft, Privileges, PRV_U, PRV_S, PRV_M
  <2>2. 1 \notin new
    BY <2>1 DEF SupervisorEntryStatus, MSTATUS_SPIE
  <2>3. 1 \in SSTATUS_MASK
    BY DEF SSTATUS_MASK, MSTATUS_SIE
  <2> QED BY <2>2, <2>3 DEF Merge
<1> HIDE DEF ms
<1>4. /\ EnterSupervisor(c, epc, cause).csr.mstatus = ms
      /\ EnterSupervisor(c, epc, cause).prv = PRV_S
  BY <1>1, <1>2 DEF EnterSupervisor, CsrFile
<1>5. 3 \notin MachineEntryStatus(c.csr.mstatus, c.prv)
  <2>1. 3 \notin ShiftLeft(c.prv, 11)
    BY <1>1 DEF ShiftLeft, Privileges, PRV_U, PRV_S, PRV_M
  <2> QED BY <2>1 DEF MachineEntryStatus, MSTATUS_MIE, MSTATUS_MPIE
<1>6. /\ EnterMachine(c, epc, cause).csr.mstatus = MachineEntryStatus(c.csr.mstatus, c.prv)
      /\ EnterMachine(c, epc, cause).prv = PRV_M
  BY <1>1 DEF EnterMachine, CsrFile
<1>7. PRV_S # PRV_M
  BY LevelsDiffer
<1> QED
  BY <1>3, <1>4, <1>5, <1>6, <1>7 DEF GlobalInterruptEnable, MSTATUS_SIE, MSTATUS_MIE

\* The same for the handling of an exception: the trap value is no flag.
LEMMA HandleTrapMasks ==
  ASSUME NEW c, Legal(c), NEW epc \in Int, NEW cause \in Causes, NEW tval \in Int
  PROVE  ~GlobalInterruptEnable(HandleTrap(c, epc, cause, tval))
<1> DEFINE s == EnterSupervisor(c, epc, cause)
           m == EnterMachine(c, epc, cause)
           h == HandleTrap(c, epc, cause, tval)
<1>1. /\ s.csr \in CsrFile /\ m.csr \in CsrFile /\ s \in Contexts /\ m \in Contexts
      /\ ~GlobalInterruptEnable(s) /\ ~GlobalInterruptEnable(m)
  BY EnterSupervisorLegal, EnterMachineLegal, EntryMasks DEF Legal, Contexts
<1>2. h \in {[s EXCEPT !.csr.stval = tval], [m EXCEPT !.csr.mtval = tval]}
  BY DEF HandleTrap
<1> HIDE DEF s, m, h
<1>3. \/ h.prv = s.prv /\ h.csr.mstatus = s.csr.mstatus
      \/ h.prv = m.prv /\ h.csr.mstatus = m.csr.mstatus
  BY <1>1, <1>2 DEF Contexts, CsrFile
<1>4. ~GlobalInterruptEnable(h)
  BY <1>1, <1>3 DEF GlobalInterruptEnable
<1> QED BY <1>4 DEF h

\* Trap entry always leaves the interrupts of the handler's level off.
THEOREM EntryMasksAll == Spec => EntryMasksInterrupts
<1>1. IInv /\ [Next]_vars
        => [ExceptionStep \/ InterruptStep => ~GlobalInterruptEnable(Context')]_vars
  <2> SUFFICES ASSUME IInv, ExceptionStep \/ InterruptStep
               PROVE  ~GlobalInterruptEnable(Context')
    OBVIOUS
  <2>1. Legal(Context) /\ pc \in Int
    BY DEF IInv, Legal, Contexts, Context
  <2>2. ASSUME NEW d, Becomes(d)
        PROVE  Context'.prv = d.prv /\ Context'.csr = d.csr
    BY <2>2 DEF Becomes, Context
  <2>3. ASSUME NEW cause \in Faults, Fault(cause)
        PROVE  ~GlobalInterruptEnable(Context')
    <3>1. cause \in Causes
      BY FaultsAssumption DEF Causes
    <3>2. ~GlobalInterruptEnable(HandleTrap(Context, pc, cause, 0))
      BY <2>1, <3>1, HandleTrapMasks
    <3> QED BY <2>2, <2>3, <3>2 DEF Fault, GlobalInterruptEnable
  <2>4. CASE Ecall
    <3>1. EcallCause(prv) \in Causes
      BY DEF EcallCause, MCAUSE_ECALL_M, MCAUSE_ECALL_S, MCAUSE_ECALL_U, Exception, Causes
    <3>2. ~GlobalInterruptEnable(HandleTrap(Context, pc + 1, EcallCause(prv), 0))
      BY <2>1, <3>1, HandleTrapMasks
    <3> QED BY <2>2, <2>4, <3>2 DEF Ecall, GlobalInterruptEnable
  <2>5. ASSUME NEW level \in BOOLEAN, TickInterrupt(level)
        PROVE  ~GlobalInterruptEnable(Context')
    <3> DEFINE t == Ticked(level)
               cause == SelectedInterrupt(t)
    <3>1. Legal(t)
      BY <2>1, HwSetMtipLegal DEF Ticked, Context
    <3>2. cause \in Causes /\ t.pc \in Int
      BY <2>5, <3>1, SelectedIsPending DEF TickInterrupt, Legal, Contexts
    <3>3. TakeInterrupt(t) \in {EnterSupervisor(t, t.pc, cause), EnterMachine(t, t.pc, cause)}
      BY DEF TakeInterrupt
    <3> HIDE DEF t, cause
    <3>4. ~GlobalInterruptEnable(TakeInterrupt(t))
      BY <3>1, <3>2, <3>3, EntryMasks
    <3>5. Becomes(TakeInterrupt(t))
      BY <2>5 DEF TickInterrupt, t
    <3> QED BY <2>2, <3>4, <3>5 DEF GlobalInterruptEnable
  <2> QED BY <2>3, <2>4, <2>5 DEF ExceptionStep, InterruptStep
<1> QED BY <1>1, Invariance, PTL DEF Spec, EntryMasksInterrupts

-----------------------------------------------------------------------------
(* A trap and the return from it.                                          *)

\* mstatus through an entry in M-mode and an MRET.
LEMMA MachineRoundTrip ==
  ASSUME NEW old \in Bits, NEW p \in Privileges
  PROVE  /\ {b \in {0, 1} : b + 11 \in MachineEntryStatus(old, p)} = p
         /\ MretStatus(MachineEntryStatus(old, p)) \cap (MSTATUS_MIE \cup SupervisorStatus)
              = old \cap (MSTATUS_MIE \cup SupervisorStatus)
<1> DEFINE ms == MachineEntryStatus(old, p)
<1>1. /\ 0 \in p <=> 11 \in ShiftLeft(p, 11)
      /\ 1 \in p <=> 12 \in ShiftLeft(p, 11)
      /\ \A x \in {1, 3, 5, 7, 8} : x \notin ShiftLeft(p, 11)
      /\ p \subseteq {0, 1}
  BY DEF ShiftLeft, Privileges, PRV_U, PRV_S, PRV_M
<1>2. /\ 11 \in ms <=> 0 \in p
      /\ 12 \in ms <=> 1 \in p
      /\ 7 \in ms <=> 3 \in old
      /\ \A x \in {1, 5, 8} : x \in ms <=> x \in old
  BY <1>1 DEF MachineEntryStatus, MSTATUS_MIE, MSTATUS_MPIE, MSTATUS_MPP
<1> HIDE DEF ms
<1>3. {b \in {0, 1} : b + 11 \in ms} = p
  <2>1. \A b \in {0, 1} : b + 11 \in ms <=> b \in p
    BY <1>2
  <2> QED BY <1>1, <2>1, Zenon
<1>4. \A x \in {1, 3, 5, 8} : x \in MretStatus(ms) <=> x \in old
  BY <1>2 DEF MretStatus, MSTATUS_MIE, MSTATUS_MPIE, MSTATUS_MPP
<1>5. MSTATUS_MIE \cup SupervisorStatus = {1, 3, 5, 8}
  BY DEF SupervisorStatus, MSTATUS_MIE, MSTATUS_SIE, MSTATUS_SPIE, MSTATUS_SPP
<1>6. MretStatus(ms) \cap {1, 3, 5, 8} = old \cap {1, 3, 5, 8}
  BY <1>4
<1> QED BY <1>3, <1>5, <1>6 DEF ms

\* The same for a handler in M-mode.
LEMMA MachineRestores ==
  ASSUME NEW cause \in Causes, IInv, HandleTrap(Context, pc, cause, 0).prv = PRV_M
  PROVE  LET h == HandleTrap(Context, pc, cause, 0)
         IN  Restores(h, Mret(h), MSTATUS_MIE \cup SupervisorStatus)
<1> DEFINE m == EnterMachine(Context, pc, cause)
           h == HandleTrap(Context, pc, cause, 0)
<1>1. csr \in CsrFile /\ csr.mstatus \in Bits /\ prv \in Privileges /\ pc \in Int
  BY DEF IInv, Legal, Contexts, Context, CsrFile
<1>2. h = [m EXCEPT !.csr.mtval = 0]
  BY LevelsDiffer DEF HandleTrap, EnterSupervisor
<1>3. /\ m.csr = [csr EXCEPT !.mstatus = MachineEntryStatus(csr.mstatus, prv),
                            !.mepc = pc, !.mcause = cause]
      /\ h.csr = [m.csr EXCEPT !.mtval = 0]
  BY <1>1, <1>2 DEF EnterMachine, Context
<1>4. /\ h.csr.mstatus = MachineEntryStatus(csr.mstatus, prv)
      /\ h.csr.mepc = pc
      /\ "mstatus" \in DOMAIN h.csr
  <2> DEFINE ms == MachineEntryStatus(csr.mstatus, prv)
  <2> HIDE DEF h, m, ms
  <2>1. m.csr = [csr EXCEPT !.mstatus = ms, !.mepc = pc, !.mcause = cause]
    BY <1>3 DEF ms
  <2>2. m.csr.mstatus = ms /\ m.csr.mepc = pc /\ DOMAIN m.csr = DOMAIN csr
    BY <1>1, <2>1 DEF CsrFile
  <2>3. /\ h.csr.mstatus = m.csr.mstatus /\ h.csr.mepc = m.csr.mepc
        /\ DOMAIN h.csr = DOMAIN m.csr
    BY <1>3
  <2> QED BY <1>1, <2>2, <2>3 DEF CsrFile, ms
<1> HIDE DEF h
<1>5. Mret(h).csr.mstatus = MretStatus(h.csr.mstatus)
  BY <1>4 DEF Mret
<1>6. Mret(h).prv = {b \in {0, 1} : b + 11 \in h.csr.mstatus} /\ Mret(h).pc = h.csr.mepc
  BY DEF Mret
<1>7. /\ {b \in {0, 1} : b + 11 \in h.csr.mstatus} = prv
      /\ MretStatus(h.csr.mstatus) \cap (MSTATUS_MIE \cup SupervisorStatus)
           = csr.mstatus \cap (MSTATUS_MIE \cup SupervisorStatus)
  BY <1>1, <1>4, MachineRoundTrip
<1> QED BY <1>4, <1>5, <1>6, <1>7 DEF Restores, h

\* mstatus through an entry in S-mode and an SRET: old is mstatus before, ms
\* after the entry, new what SRET writes to sstatus.
LEMMA SupervisorRoundTrip ==
  ASSUME NEW old \in Bits, NEW p \in {PRV_U, PRV_S}
  PROVE  LET ms   == Merge(old, SupervisorEntryStatus(old \cap SSTATUS_MASK, p), SSTATUS_MASK)
             view == ms \cap SSTATUS_MASK
             new  == (view \ (MSTATUS_SIE \cup MSTATUS_SPP))
                       \cup (IF MSTATUS_SPIE \subseteq view THEN MSTATUS_SIE ELSE {})
                       \cup MSTATUS_SPIE
         IN  /\ (IF MSTATUS_SPP \subseteq view THEN PRV_S ELSE PRV_U) = p
             /\ Merge(ms, new, SSTATUS_MASK) \cap (MSTATUS_SIE \cup MSTATUS_MIE)
                  = old \cap (MSTATUS_SIE \cup MSTATUS_MIE)
<1> DEFINE entry == SupervisorEntryStatus(old \cap SSTATUS_MASK, p)
           ms   == Merge(old, entry, SSTATUS_MASK)
           view == ms \cap SSTATUS_MASK
           new  == (view \ (MSTATUS_SIE \cup MSTATUS_SPP))
                     \cup (IF MSTATUS_SPIE \subseteq view THEN MSTATUS_SIE ELSE {})
                     \cup MSTATUS_SPIE
<1>1. SSTATUS_MASK = {1, 5, 8}
  BY DEF SSTATUS_MASK, MSTATUS_SIE, MSTATUS_SPIE, MSTATUS_SPP
<1>2. /\ 8 \in ShiftLeft(p, 8) <=> p = PRV_S
      /\ 1 \notin ShiftLeft(p, 8) /\ 5 \notin ShiftLeft(p, 8)
  BY LevelsDiffer DEF ShiftLeft, PRV_U, PRV_S
<1>3. /\ 8 \in entry <=> p = PRV_S
      /\ 5 \in entry <=> 1 \in old
      /\ 1 \notin entry
  BY <1>1, <1>2 DEF SupervisorEntryStatus, MSTATUS_SIE, MSTATUS_SPIE
<1> HIDE DEF entry
<1>4. /\ 8 \in ms <=> p = PRV_S
      /\ 5 \in ms <=> 1 \in old
      /\ 1 \notin ms
      /\ 3 \in ms <=> 3 \in old
  BY <1>1, <1>3 DEF Merge
<1> HIDE DEF ms
<1>5. 8 \in view <=> p = PRV_S
  BY <1>1, <1>4
<1>6. 1 \in new <=> 1 \in old
  BY <1>1, <1>4 DEF MSTATUS_SIE, MSTATUS_SPIE, MSTATUS_SPP
<1> HIDE DEF new, view
<1>7. \A x \in {1, 3} : x \in Merge(ms, new, SSTATUS_MASK) <=> x \in old
  BY <1>1, <1>4, <1>6 DEF Merge
<1>8. MSTATUS_SIE \cup MSTATUS_MIE = {1, 3}
  BY DEF MSTATUS_SIE, MSTATUS_MIE
<1>9. Merge(ms, new, SSTATUS_MASK) \cap {1, 3} = old \cap {1, 3}
  BY <1>7
<1>10. (IF MSTATUS_SPP \subseteq view THEN PRV_S ELSE PRV_U) = p
  BY <1>5 DEF MSTATUS_SPP
<1> QED BY <1>8, <1>9, <1>10 DEF ms, view, new, entry

\* The same for a handler in S-mode.
LEMMA SupervisorRestores ==
  ASSUME NEW cause \in Causes, IInv, HandleTrap(Context, pc, cause, 0).prv # PRV_M
  PROVE  LET h == HandleTrap(Context, pc, cause, 0)
         IN  Restores(h, Sret(h), MSTATUS_SIE \cup MSTATUS_MIE)
<1> DEFINE s   == EnterSupervisor(Context, pc, cause)
           h   == HandleTrap(Context, pc, cause, 0)
           old == csr.mstatus
           ms  == Merge(old, SupervisorEntryStatus(old \cap SSTATUS_MASK, prv), SSTATUS_MASK)
           view == ms \cap SSTATUS_MASK
           new == (view \ (MSTATUS_SIE \cup MSTATUS_SPP))
                    \cup (IF MSTATUS_SPIE \subseteq view THEN MSTATUS_SIE ELSE {})
                    \cup MSTATUS_SPIE
<1>1. csr \in CsrFile /\ old \in Bits /\ prv \in Privileges /\ pc \in Int
  BY DEF IInv, Legal, Contexts, Context, CsrFile
<1>2. h = [s EXCEPT !.csr.stval = 0] /\ prv # PRV_M
  BY DEF HandleTrap, EnterMachine, TrapDelegated, Context
<1>3. prv \in {PRV_U, PRV_S}
  BY <1>1, <1>2 DEF Privileges
<1>4. /\ WriteCsr(csr, "sstatus", SupervisorEntryStatus(old \cap SSTATUS_MASK, prv))
           = [csr EXCEPT !.mstatus = ms]
      /\ ms \in Bits
  BY <1>1, WriteSstatus, SstatusBits
<1> HIDE DEF ms
<1>5. ReadCsr(csr, "sstatus") = old \cap SSTATUS_MASK
  BY DEF ReadCsr
<1>6. /\ s.csr = [[csr EXCEPT !.mstatus = ms] EXCEPT !.sepc = pc, !.scause = cause]
      /\ h.csr = [s.csr EXCEPT !.stval = 0]
  BY <1>1, <1>2, <1>4, <1>5 DEF EnterSupervisor, Context
<1> HIDE DEF s, h
<1>7. h.csr \in CsrFile /\ h.csr.mstatus = ms /\ h.csr.sepc = pc
  <2> DEFINE f == [csr EXCEPT !.mstatus = ms]
  <2>1. f \in CsrFile /\ f.mstatus = ms
    BY <1>1, <1>4 DEF CsrFile
  <2>2. s.csr = [f EXCEPT !.sepc = pc, !.scause = cause]
    BY <1>6
  <2> HIDE DEF f
  <2>3. s.csr \in CsrFile /\ s.csr.mstatus = ms /\ s.csr.sepc = pc
    BY <1>1, <2>1, <2>2 DEF CsrFile
  <2> DEFINE g == s.csr
  <2>4. g \in CsrFile /\ g.mstatus = ms /\ g.sepc = pc /\ h.csr = [g EXCEPT !.stval = 0]
    BY <1>6, <2>3
  <2> HIDE DEF g
  <2>5. h.csr \in CsrFile
    BY <2>4 DEF CsrFile
  <2>6. h.csr.mstatus = ms /\ h.csr.sepc = pc
    BY <2>4 DEF CsrFile
  <2> QED BY <2>5, <2>6
<1>8. ReadCsr(h.csr, "sstatus") = view
  BY <1>7 DEF ReadCsr
<1> HIDE DEF view
<1>9. WriteCsr(h.csr, "sstatus", new).mstatus = Merge(ms, new, SSTATUS_MASK)
  <2>1. WriteCsr(h.csr, "sstatus", new) = [h.csr EXCEPT !.mstatus = Merge(ms, new, SSTATUS_MASK)]
    BY <1>7, WriteSstatus, SstatusBits
  <2> QED BY <1>7, <2>1 DEF CsrFile
<1> HIDE DEF new
<1>10. /\ Sret(h).prv = IF MSTATUS_SPP \subseteq view THEN PRV_S ELSE PRV_U
       /\ Sret(h).pc = pc
       /\ Sret(h).csr.mstatus = Merge(ms, new, SSTATUS_MASK)
  BY <1>7, <1>8, <1>9 DEF Sret, new
<1>11. /\ (IF MSTATUS_SPP \subseteq view THEN PRV_S ELSE PRV_U) = prv
       /\ Merge(ms, new, SSTATUS_MASK) \cap (MSTATUS_SIE \cup MSTATUS_MIE)
            = old \cap (MSTATUS_SIE \cup MSTATUS_MIE)
  BY <1>1, <1>3, SupervisorRoundTrip DEF ms, view, new
<1> QED BY <1>10, <1>11 DEF Restores, h, s

\* Whatever the delegation, a trap followed by its return is as if nothing had
\* happened: pc, privilege and interrupt enables are those of before.
THEOREM TrapReturn == Spec => []TrapReturnRestores
<1>1. IInv => TrapReturnRestores
  <2> SUFFICES ASSUME IInv, NEW cause \in Faults
               PROVE  LET h == HandleTrap(Context, pc, cause, 0)
                      IN  IF h.prv = PRV_M
                            THEN Restores(h, Mret(h), MSTATUS_MIE \cup SupervisorStatus)
                            ELSE Restores(h, Sret(h), MSTATUS_SIE \cup MSTATUS_MIE)
    BY DEF TrapReturnRestores
  <2>1. cause \in Causes
    BY FaultsAssumption DEF Causes
  <2> QED BY <2>1, MachineRestores, SupervisorRestores
<1> QED BY <1>1, Invariance, PTL

-----------------------------------------------------------------------------
(* What supervisor software and delegated traps reach.                     *)

\* mstatus outside the window is what it was.
LEMMA MergeConfined ==
  ASSUME NEW old, NEW data, NEW mask, NEW window, mask \subseteq window
  PROVE  Merge(old, data, mask) \ window = old \ window
  BY DEF Merge

\* A write through one of the three windows.
LEMMA WindowWrite ==
  ASSUME NEW f \in CsrFile, NEW name \in {"sstatus", "sie", "sip"}, NEW data
  PROVE  MachineBits(WriteCsr(f, name, data)) = MachineBits(f)
<1>1. /\ SSTATUS_MASK \subseteq SupervisorStatus
      /\ SIE_MASK \subseteq SupervisorEnable
      /\ SIP_WRITABLE \subseteq MIP_SSIP \cup MIP_MTIP
  BY DEF SSTATUS_MASK, SupervisorStatus, SIE_MASK, SupervisorEnable, SIP_WRITABLE
<1>2. \A old :
        /\ Merge(old, data, SSTATUS_MASK) \ SupervisorStatus = old \ SupervisorStatus
        /\ Merge(old, data, SIE_MASK) \ SupervisorEnable = old \ SupervisorEnable
        /\ Merge(old, data, SIP_WRITABLE) \ (MIP_SSIP \cup MIP_MTIP)
             = old \ (MIP_SSIP \cup MIP_MTIP)
  BY <1>1, MergeConfined
<1>3. CASE name = "sstatus"
  BY <1>2, <1>3 DEF WriteCsr, MachineBits, CsrFile
<1>4. CASE name = "sie"
  BY <1>2, <1>4 DEF WriteCsr, MachineBits, CsrFile
<1>5. CASE name = "sip"
  BY <1>2, <1>5 DEF WriteCsr, MachineBits, CsrFile
<1> QED BY <1>3, <1>4, <1>5

\* An entry in S-mode.
LEMMA SupervisorEntryConfined ==
  ASSUME NEW c, c.csr \in CsrFile, NEW epc, NEW cause
  PROVE  MachineBits(EnterSupervisor(c, epc, cause).csr) = MachineBits(c.csr)
<1> DEFINE f == WriteCsr(c.csr, "sstatus",
                         SupervisorEntryStatus(ReadCsr(c.csr, "sstatus"), c.prv))
<1>1. MachineBits(f) = MachineBits(c.csr) /\ f \in CsrFile
  BY WindowWrite, WriteSstatus, SstatusBits
<1> HIDE DEF f
<1>2. EnterSupervisor(c, epc, cause).csr = [f EXCEPT !.sepc = epc, !.scause = cause]
  BY DEF EnterSupervisor, f
<1>3. MachineBits([f EXCEPT !.sepc = epc, !.scause = cause]) = MachineBits(f)
  BY <1>1 DEF MachineBits, CsrFile
<1> QED BY <1>1, <1>2, <1>3

\* Nothing that S-mode writes through its windows, and no trap it takes, can
\* be seen in the machine-level registers.
THEOREM Confinement == Spec => SupervisorConfined
<1>1. IInv /\ [Next]_vars
        => [SupervisorWriteOrEntry => MachineBits(csr') = MachineBits(csr)]_vars
  <2> SUFFICES ASSUME IInv, SupervisorWriteOrEntry
               PROVE  MachineBits(csr') = MachineBits(csr)
    OBVIOUS
  <2>1. csr \in CsrFile /\ Context.csr = csr
    BY DEF IInv, Legal, Contexts, Context
  <2>2. ASSUME NEW w \in SoftwareWrites, w.name \in {"sstatus", "sie", "sip"}, SoftwareWrite(w)
        PROVE  MachineBits(csr') = MachineBits(csr)
    BY <2>1, <2>2, WindowWrite DEF SoftwareWrite
  <2>3. ASSUME NEW epc, NEW cause, Becomes(HandleTrap(Context, epc, cause, 0)), prv' = PRV_S
        PROVE  MachineBits(csr') = MachineBits(csr)
    <3> DEFINE s == EnterSupervisor(Context, epc, cause)
    <3>1. csr' = [s EXCEPT !.csr.stval = 0].csr
      BY <2>3, LevelsDiffer DEF Becomes, HandleTrap, EnterMachine
    <3>2. MachineBits(s.csr) = MachineBits(csr)
      BY <2>1, SupervisorEntryConfined
    <3>3. csr' = [s.csr EXCEPT !.stval = 0]
      BY <3>1 DEF EnterSupervisor
    <3> HIDE DEF s
    <3>4. MachineBits([s.csr EXCEPT !.stval = 0]) = MachineBits(s.csr)
      BY DEF MachineBits
    <3> QED BY <3>2, <3>3, <3>4
  <2>4. ASSUME NEW level \in BOOLEAN, TickInterrupt(level), prv' = PRV_S
        PROVE  MachineBits(csr') = MachineBits(csr)
    <3> DEFINE t == Ticked(level)
               s == EnterSupervisor(t, t.pc, SelectedInterrupt(t))
    <3>1. csr' = TakeInterrupt(t).csr /\ prv' = TakeInterrupt(t).prv
      BY <2>4 DEF TickInterrupt, Becomes
    <3>2. csr' = s.csr
      BY <2>4, <3>1, LevelsDiffer DEF TakeInterrupt, EnterMachine
    <3>3. t.csr \in CsrFile /\ t.csr = HwSetMtip(csr, level)
      BY <2>1, HwSetMtipLegal DEF Ticked, Context, IInv, Legal, Contexts
    <3>4. MachineBits(s.csr) = MachineBits(t.csr)
      BY <3>3, SupervisorEntryConfined
    <3>5. MachineBits(HwSetMtip(csr, level)) = MachineBits(csr)
      BY <2>1 DEF HwSetMtip, MachineBits, CsrFile
    <3> QED BY <3>2, <3>3, <3>4, <3>5
  <2> QED BY <2>2, <2>3, <2>4 DEF SupervisorWriteOrEntry, ExceptionStep, InterruptStep, Fault, Ecall
<1> QED BY <1>1, Invariance, PTL DEF Spec, SupervisorConfined
=============================================================================
