------------------------------ MODULE TrapUnit ------------------------------
(***************************************************************************)
(* The trap logic of the core seen from software: the CSR file, the        *)
(* privilege level and the pc, driven by every mixture of timer levels,    *)
(* faulting instructions, MRET / SRET and CSR writes, in every order.  The *)
(* pipeline around it is left out here; Pipeline.tla puts it back.         *)
(***************************************************************************)
EXTENDS Traps

CONSTANTS
  Boots,            \* contexts the machine may start from
  Faults,           \* exception causes an instruction other than ECALL raises
  SoftwareWrites,   \* the CSR writes software issues: records [name, data]
  CodePcs           \* the pcs at which there is code

\* The contexts of the trap logic: privilege is one of three encodings.
Privileges == {PRV_U, PRV_S, PRV_M}
Contexts   == [csr : CsrFile, prv : Privileges, pc : Int]

\* Software never asks for the reserved privilege level: it writes mstatus
\* with MPP naming one of the three levels (the code stores what it is given).
LegalMpp(mstatus) == mstatus \cap MSTATUS_MPP # {12}

Implemented == MIP_SSIP \cup MIP_MSIP \cup MIP_MTIP

\* What a context reached from reset satisfies.
Legal(c) ==
  /\ c \in Contexts
  /\ LegalMpp(c.csr.mstatus)
  /\ c.csr.mip \subseteq Implemented
  /\ c.csr.mideleg \subseteq MIDELEG_MASK
  /\ c.csr.medeleg \subseteq MEDELEG_MASK

LegalWrite(w) ==
  /\ w.name \in FlagCsrs => w.data \in Bits
  /\ w.name \in WordCsrs => w.data \in Int
  /\ w.name = "mstatus" => LegalMpp(w.data)

ASSUME BootsAssumption  == \A c \in Boots : Legal(c)
ASSUME FaultsAssumption == Faults \subseteq [interrupt : {FALSE}, code : 0..15]
ASSUME WritesAssumption ==
  \A w \in SoftwareWrites : w.name \in FlagCsrs \cup WordCsrs /\ LegalWrite(w)
ASSUME PcsAssumption == CodePcs \subseteq Int

VARIABLES csr, prv, pc
vars == <<csr, prv, pc>>

Context == [csr |-> csr, prv |-> prv, pc |-> pc]

\* The next context is c.
Becomes(c) == /\ csr' = c.csr
              /\ prv' = c.prv
              /\ pc'  = c.pc

Init == \E c \in Boots : csr = c.csr /\ prv = c.prv /\ pc = c.pc

-----------------------------------------------------------------------------
(* The start of a clock tick, with the timer comparison at level.          *)

Ticked(level) == [Context EXCEPT !.csr = HwSetMtip(csr, level)]

TickQuiet(level) ==
  /\ ~InterruptDue(Ticked(level))
  /\ Becomes(Ticked(level))

TickInterrupt(level) ==
  /\ InterruptDue(Ticked(level))
  /\ Becomes(TakeInterrupt(Ticked(level)))

-----------------------------------------------------------------------------
(* The instruction at pc.  The trap value has no reader here: 0 stands for  *)
(* any.                                                                    *)

Fault(cause) == Becomes(HandleTrap(Context, pc, cause, 0))

\* (pc + 1 \in CodePcs bounds the addresses: there is code after the ECALL.)
Ecall == /\ pc + 1 \in CodePcs
         /\ Becomes(HandleTrap(Context, pc + 1, EcallCause(prv), 0))

ReturnMachine    == Becomes(Mret(Context))
ReturnSupervisor == Becomes(Sret(Context))

SoftwareWrite(w) ==
  /\ csr' = WriteCsr(csr, w.name, w.data)
  /\ UNCHANGED <<prv, pc>>

\* Any other instruction: control moves on.
Run(next) == pc' = next /\ UNCHANGED <<csr, prv>>

Next ==
  \/ \E level \in BOOLEAN : TickQuiet(level) \/ TickInterrupt(level)
  \/ \E cause \in Faults : Fault(cause)
  \/ Ecall
  \/ ReturnMachine
  \/ ReturnSupervisor
  \/ \E w \in SoftwareWrites : SoftwareWrite(w)
  \/ \E next \in CodePcs : Run(next)

Spec == Init /\ [][Next]_vars

-----------------------------------------------------------------------------
(* Properties                                                              *)

\* The registers hold what they can hold: a privilege level in its three
\* encodings, delegation registers within their WARL masks.
TypeOK ==
  /\ csr \in CsrFile
  /\ prv \in Privileges
  /\ pc \in Int
  /\ csr.medeleg \subseteq MEDELEG_MASK
  /\ csr.mideleg \subseteq MIDELEG_MASK

\* No nesting of traps, returns and supervisor writes ever stores the reserved
\* level in MPP, so an MRET at any moment lands in U, S or M.
ReturnPrivilegeLegal == LegalMpp(csr.mstatus)

\* Only three pending bits have a source: SSIP and MSIP from software, MTIP
\* from the timer.  STIP, SEIP and MEIP, which the interrupt scan also looks
\* at, are never set, whatever software writes to mip and sip.
OnlyImplementedPending == csr.mip \subseteq Implemented

Rank(p) == CASE p = PRV_M -> 3 [] p = PRV_S -> 1 [] OTHER -> 0

\* The step is the entry of a trap.
ExceptionStep == (\E cause \in Faults : Fault(cause)) \/ Ecall
InterruptStep == \E level \in BOOLEAN : TickInterrupt(level)

\* A synchronous exception is never handled at a lower privilege than the one
\* it was raised at, for any delegation.
ExceptionsNeverLowerPrivilege == [][ExceptionStep => Rank(prv') >= Rank(prv)]_vars

\* Once a trap is entered no interrupt is taken until the handler itself opens
\* the door: the entry leaves the global enable of the new level off, so that
\* the saved pc and cause survive the handler's first instructions.
EntryMasksInterrupts ==
  [][ExceptionStep \/ InterruptStep => ~GlobalInterruptEnable(Context')]_vars

\* What S-mode software and S-mode trap entry can reach of the machine-level
\* state through the sstatus, sie and sip windows: nothing.
SupervisorWriteOrEntry ==
  \/ \E w \in SoftwareWrites : /\ w.name \in {"sstatus", "sie", "sip"}
                               /\ SoftwareWrite(w)
  \/ /\ ExceptionStep \/ InterruptStep
     /\ prv' = PRV_S
SupervisorStatus == MSTATUS_SIE \cup MSTATUS_SPIE \cup MSTATUS_SPP
SupervisorEnable == MIP_SSIP \cup MIP_STIP \cup MIP_SEIP
MachineBits(c) == <<c.mstatus \ SupervisorStatus, c.mie \ SupervisorEnable,
                    c.mip \ (MIP_SSIP \cup MIP_MTIP), c.mepc, c.mcause, c.mtvec>>
SupervisorConfined ==
  [][SupervisorWriteOrEntry => MachineBits(csr') = MachineBits(csr)]_vars

\* A trap taken now and returned from at once restores the interrupted
\* context: the pc saved, the privilege, and the interrupt enable of the level
\* the handler ran at.  Both for handlers in M-mode (MRET) and, for what is
\* delegated from S and U, in S-mode (SRET).
Restores(entered, returned, mask) ==
  /\ returned.prv = prv
  /\ returned.pc = pc
  /\ returned.csr.mstatus \cap mask = csr.mstatus \cap mask
TrapReturnRestores ==
  \A cause \in Faults :
    LET entered == HandleTrap(Context, pc, cause, 0)
    IN  IF entered.prv = PRV_M
          THEN Restores(entered, Mret(entered), MSTATUS_MIE \cup SupervisorStatus)
          ELSE Restores(entered, Sret(entered), MSTATUS_SIE \cup MSTATUS_MIE)

\* An interrupt is never handled at a lower privilege than the interrupted
\* code's.
InterruptsNeverLowerPrivilege ==
  [][InterruptStep => Rank(prv') >= Rank(prv)]_vars
=============================================================================
