-------------------------------- MODULE Csr --------------------------------
(***************************************************************************)
(* The control and status registers of the register file, and the two ways *)
(* they change: read_csr / write_csr, and the hardware timer bit.          *)
(*                                                                         *)
(* A flag register is the set of the positions of its 1 bits, so the C++   *)
(* "a & b", "a | b" and "a & ~b" are a \cap b, a \cup b and a \ b, and a   *)
(* mask such as MSTATUS_MPP is a set too.  The address-valued registers    *)
(* (mtvec, mepc, stvec, sepc), the scratch and trap-value registers and    *)
(* satp hold numbers, the cause registers hold records: nothing in the     *)
(* core does bit arithmetic on them.                                       *)
(***************************************************************************)
EXTENDS Integers

MSTATUS_SIE  == {1}
MSTATUS_MIE  == {3}
MSTATUS_SPIE == {5}
MSTATUS_MPIE == {7}
MSTATUS_SPP  == {8}
MSTATUS_MPP  == {11, 12}

\* MIE_x and MIP_x share their positions.
MIP_SSIP == {1}
MIP_MSIP == {3}
MIP_STIP == {5}
MIP_MTIP == {7}
MIP_SEIP == {9}
MIP_MEIP == {11}

\* The two-bit privilege encoding, as the set of its 1 bits.  The remaining
\* subset of {0, 1}, {1}, is the encoding the architecture reserves.
PRV_U == {}
PRV_S == {0}
PRV_M == {0, 1}

\* The C++ "bits << k".
ShiftLeft(bits, k) == {b + k : b \in bits}

\* Defect for the mutant runs: the supervisor view opened to MPP as well.
SstatusWithMpp == MSTATUS_SIE \cup MSTATUS_SPIE \cup MSTATUS_SPP \cup MSTATUS_MPP

SSTATUS_MASK == MSTATUS_SIE \cup MSTATUS_SPIE \cup MSTATUS_SPP
SIE_MASK     == MIP_SSIP \cup MIP_STIP \cup MIP_SEIP

\* What writes to mip and to sip reach of the pending bits.
MIP_WRITABLE == MIP_MSIP
SIP_WRITABLE == MIP_SSIP
MIDELEG_MASK == MIP_SSIP \cup MIP_MSIP \cup MIP_STIP
                  \cup MIP_MTIP \cup MIP_SEIP \cup MIP_MEIP
MEDELEG_MASK == (0..9) \cup {12, 13, 15}

FlagCsrs == {"mstatus", "mie", "mip", "medeleg", "mideleg",
             "sstatus", "sie", "sip"}
WordCsrs == {"mtvec", "mepc", "mscratch", "mtval",
             "stvec", "sepc", "sscratch", "stval", "satp"}

Bits   == SUBSET (0..31)
Causes == [interrupt : BOOLEAN, code : 0..15]

CsrFile ==
  [mstatus : Bits, mie : Bits, mip : Bits, medeleg : Bits, mideleg : Bits,
   mtvec : Int, mepc : Int, mcause : Causes, mtval : Int, mscratch : Int,
   stvec : Int, sepc : Int, scause : Causes, stval : Int, sscratch : Int,
   satp : Int]

ReadCsr(csr, name) ==
  CASE name = "sstatus" -> csr.mstatus \cap SSTATUS_MASK
    [] name = "sie"     -> csr.mie \cap SIE_MASK
    [] name = "sip"     -> csr.mip \cap SIE_MASK
    [] OTHER            -> csr[name]

\* (old & ~mask) | (data & mask)
Merge(old, data, mask) == (old \ mask) \cup (data \cap mask)

WriteCsr(csr, name, data) ==
  CASE name = "medeleg" -> [csr EXCEPT !.medeleg = data \cap MEDELEG_MASK]
    [] name = "mideleg" -> [csr EXCEPT !.mideleg = data \cap MIDELEG_MASK]
    [] name = "mip"     -> [csr EXCEPT !.mip = Merge(@, data, MIP_WRITABLE)]
    [] name = "sip"     -> [csr EXCEPT !.mip = Merge(@, data, SIP_WRITABLE)]
    [] name = "sie"     -> [csr EXCEPT !.mie = Merge(@, data, SIE_MASK)]
    [] name = "sstatus" -> [csr EXCEPT !.mstatus = Merge(@, data, SSTATUS_MASK)]
    [] OTHER            -> [csr EXCEPT ![name] = data]

\* Defect for the mutant runs: the bit stays set.
HwSetMtipOnly(csr, level) == [csr EXCEPT !.mip = IF level THEN @ \cup MIP_MTIP ELSE @]

\* The only writer of the timer-pending bit: the comparison of the CLINT.
HwSetMtip(csr, level) ==
  [csr EXCEPT !.mip = IF level THEN @ \cup MIP_MTIP ELSE @ \ MIP_MTIP]

\* cause & 0xF is the bit of mideleg; even codes have no case and are false.
InterruptDelegated(csr, cause) ==
  cause.code \in {1, 3, 5, 7, 9, 11} /\ cause.code \in csr.mideleg

ExceptionDelegated(csr, cause) ==
  ~cause.interrupt /\ cause.code \in csr.medeleg

\* The values a CSR instruction may write: old is the value read, operand the
\* register or the immediate, zero whether the operand field is 0.
CsrWriteValue(function, old, operand, zero) ==
  CASE function = "rw"           -> operand
    [] function = "rs" /\ ~zero  -> old \cup operand
    [] function = "rc" /\ ~zero  -> old \ operand
    [] OTHER                     -> old

\* The register file out of its constructor: all zero, machine mode.
NoCause == [interrupt |-> FALSE, code |-> 0]
ZeroCsr ==
  [mstatus |-> {}, mie |-> {}, mip |-> {}, medeleg |-> {}, mideleg |-> {},
   mtvec |-> 0, mepc |-> 0, mcause |-> NoCause, mtval |-> 0, mscratch |-> 0,
   stvec |-> 0, sepc |-> 0, scause |-> NoCause, stval |-> 0, sscratch |-> 0,
   satp |-> 0]
=============================================================================
