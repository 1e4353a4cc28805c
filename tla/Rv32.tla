-------------------------------- MODULE Rv32 --------------------------------
(***************************************************************************)
(* What the pipeline and the sequential machine share: the size of the     *)
(* machine, the decoded form of an instruction, and what the memory system *)
(* answers an access.                                                      *)
(*                                                                         *)
(* An instruction is decoded once and for all: the record below is what    *)
(* decodeInstruction extracts from the word.  One operation stands for     *)
(* each class the control logic tells apart: "op" (R-type, represented by  *)
(* SUB), "imm" (I-type ALU, by ADDI), "upper" (AUIPC), "branch" (by BNE).  *)
(* pcs count instructions: the C++ pc + 4 is pc + 1 here.  Data lives in a *)
(* memory of words of its own, so programs do not modify themselves.       *)
(***************************************************************************)
EXTENDS Traps

CONSTANTS
  NumRegs,         \* x0 .. x(NumRegs - 1)
  WordSize,        \* a word is a number below WordSize; arithmetic wraps
  CodeSize,        \* instructions in memory: MEMORY_SIZE for the fetch stage
  PageInstrs,      \* instructions per page
  DataSize,        \* data words in memory: MEMORY_SIZE for loads and stores
  Misaligned,      \* data addresses that are not word aligned
  UnmappedData,    \* data addresses whose page table entry is invalid
  UnmappedCode     \* pcs whose page table entry is invalid

ASSUME SizesAssumption ==
  /\ NumRegs \in Nat /\ NumRegs > 2
  /\ WordSize \in Nat /\ WordSize > 1
  /\ CodeSize \in Nat /\ CodeSize > 1
  /\ PageInstrs \in Nat /\ PageInstrs > 1
  /\ DataSize \in Nat

Reg       == 0 .. NumRegs - 1
Word      == 0 .. WordSize - 1
CodeAddrs == 0 .. CodeSize - 1
DataAddrs == 0 .. DataSize - 1
Lanes     == {0, 1}

Wrap(n) == n % WordSize

Ops == {"op", "imm", "upper", "load", "store", "branch", "jal", "jalr",
        "csr", "ecall", "mret", "sret", "fence", "illegal",
        "ebreak", "zero", "bubble"}

\* function and csr are read for "csr" only; bits is the operand of a CSR
\* instruction on a flag register, whose old value goes to x0.
Instr == [op : Ops, rd : Reg, rs1 : Reg, rs2 : Reg, imm : Int,
          function : {"rw", "rs", "rc"}, csr : FlagCsrs \cup WordCsrs, bits : Bits]

WellFormed(i) ==
  /\ i \in Instr
  /\ i.op # "bubble"
  /\ i.op = "csr" /\ i.csr \in FlagCsrs => i.rd = 0
  /\ i.op = "csr" /\ i.csr \in WordCsrs => i.function = "rw" \/ i.rs1 = 0

\* What a slot may hold.
Decoded == {i \in Instr : i.op = "bubble" \/ WellFormed(i)}

Bubble == [op |-> "bubble", rd |-> 0, rs1 |-> 0, rs2 |-> 0, imm |-> 0,
           function |-> "rw", csr |-> "mepc", bits |-> {}]

-----------------------------------------------------------------------------
(* The control signals of the decoder                                      *)

UsesRs1(i) == \/ i.op \in {"op", "imm", "load", "store", "branch", "jalr"}
              \/ i.op = "csr" /\ i.csr \in WordCsrs
UsesRs2(i) == i.op \in {"op", "store", "branch"}

RegWrite(i) == \/ i.op \in {"op", "imm", "upper", "load", "jal", "jalr"}
               \/ i.op = "csr" /\ i.rd # 0

IsLoad(i)    == i.op = "load"
IsStore(i)   == i.op = "store"
IsMemory(i)  == IsLoad(i) \/ IsStore(i)
IsBranch(i)  == i.op \in {"branch", "jal", "jalr"}
IsSystem(i)  == i.op \in {"ecall", "mret", "sret", "csr"}
IsTrapping(i) == i.op \in {"ecall", "illegal", "mret", "sret"}

\* EBREAK and the all-zero word: the instructions that end the simulation.
IsHalting(i) == i.op \in {"ebreak", "zero"}

\* Backward taken, forward not taken; JAL always, JALR never.
PredictedTaken(i) == i.op = "jal" \/ (i.op = "branch" /\ i.imm < 0)

Writes(i, r) == RegWrite(i) /\ i.rd = r
Reads(i, r)  == (UsesRs1(i) /\ i.rs1 = r) \/ (UsesRs2(i) /\ i.rs2 = r)

-----------------------------------------------------------------------------
(* Execution of one instruction on its operand values                      *)

BranchTaken(i, op1, op2) ==
  i.op \in {"jal", "jalr"} \/ (i.op = "branch" /\ op1 # op2)

JumpTarget(i, pc, op1) ==
  IF i.op = "jalr" THEN Wrap(op1 + i.imm) ELSE pc + i.imm

\* Defect for the mutant runs: a difference that is not reduced to a word.
DifferenceUnreduced(a, b) == a - b

Difference(a, b) == Wrap(a - b)

\* A jump links to the next instruction; a CSR instruction returns the old
\* value; a memory instruction produces its address.
Result(i, pc, op1, op2, csr) ==
  CASE i.op = "op"                       -> Difference(op1, op2)
    [] i.op \in {"imm", "load", "store"} -> Wrap(op1 + i.imm)
    [] i.op = "upper"                    -> Wrap(pc + i.imm)
    [] i.op \in {"jal", "jalr"}          -> Wrap(pc + 1)
    [] i.op = "csr" /\ i.csr \in WordCsrs -> Wrap(ReadCsr(csr, i.csr))
    [] OTHER                             -> 0

\* The CSR file after the instruction's CSR write, if it has one.
CsrAfter(i, op1, csr) ==
  IF i.op # "csr" THEN csr
  ELSE LET old == ReadCsr(csr, i.csr)
           new == IF i.csr \in FlagCsrs
                    THEN CsrWriteValue(i.function, old, i.bits, i.bits = {})
                    ELSE CsrWriteValue(i.function, old, op1, i.rs1 = 0)
       IN  WriteCsr(csr, i.csr, new)

-----------------------------------------------------------------------------
(* The memory system.  Translation is on outside M-mode when satp says so, *)
(* and maps every page that has an entry to itself.                        *)

TranslationOn(csr, prv) == prv # PRV_M /\ csr.satp # 0

FetchFaults(pc, csr, prv) == TranslationOn(csr, prv) /\ pc \in UnmappedCode

\* What becomes of a load or store at addr, in the order the stage checks.
Access(addr, csr, prv) ==
  IF addr \in Misaligned THEN "misaligned"
  ELSE IF TranslationOn(csr, prv) /\ addr \in UnmappedData THEN "page fault"
  ELSE IF addr \notin DataAddrs THEN "abort"
  ELSE "done"

AccessCause(i, outcome) ==
  IF outcome = "misaligned"
    THEN IF IsLoad(i) THEN MCAUSE_LOAD_MISALIGNED  ELSE MCAUSE_STORE_MISALIGNED
    ELSE IF IsLoad(i) THEN MCAUSE_LOAD_PAGE_FAULT ELSE MCAUSE_STORE_PAGE_FAULT

\* The trap value of an illegal instruction is its word, which imm names.
TrapValue(i) == IF i.op = "illegal" THEN i.imm ELSE 0
TrapCause(i, prv) == IF i.op = "ecall" THEN EcallCause(prv) ELSE MCAUSE_ILLEGAL

\* ECALL saves the address after it, an illegal instruction its own.
TrapPc(i, pc) == IF i.op = "ecall" THEN pc + 1 ELSE pc
=============================================================================
