----------------------------- MODULE MCPipeline -----------------------------
(***************************************************************************)
(* Instances of the pipeline: the programs it runs, and the contexts boot  *)
(* code leaves to them.                                                    *)
(***************************************************************************)
EXTENDS Refinement, TLC, Sequences

I(op, rd, rs1, rs2, imm) ==
  [Bubble EXCEPT !.op = op, !.rd = rd, !.rs1 = rs1, !.rs2 = rs2, !.imm = imm]

Sub(rd, rs1, rs2)     == I("op", rd, rs1, rs2, 0)
Addi(rd, rs1, imm)    == I("imm", rd, rs1, 0, imm)
Auipc(rd, imm)        == I("upper", rd, 0, 0, imm)
Load(rd, rs1, imm)    == I("load", rd, rs1, 0, imm)
Store(rs2, rs1, imm)  == I("store", 0, rs1, rs2, imm)
Bne(rs1, rs2, offset) == I("branch", 0, rs1, rs2, offset)
Jal(rd, offset)       == I("jal", rd, 0, 0, offset)
Jalr(rd, rs1, imm)    == I("jalr", rd, rs1, 0, imm)
Nop                   == Addi(0, 0, 0)
Simple(op)            == I(op, 0, 0, 0, 0)
Ebreak                == Simple("ebreak")
CsrOp(function, name, rd, rs1, bits) ==
  [Bubble EXCEPT !.op = "csr", !.function = function, !.csr = name,
                 !.rd = rd, !.rs1 = rs1, !.bits = bits]

\* Programs that begin with a free choice of instructions and end in a fixed
\* tail.
Concat(free, tail) ==
  {[a \in 0 .. Len(p) + Len(tail) - 1 |-> (p \o tail)[a + 1]] : p \in free}

\* EBREAK is followed by instructions without effect and a jump to itself:
\* what follows an EBREAK is another question.
StopTail == <<Ebreak, Nop, Nop, Jal(0, 0)>>

-----------------------------------------------------------------------------
(* Every hazard between four instructions: read after write through each   *)
(* forwarding path, load-use, two memory accesses, branches both ways,     *)
(* right and wrong predictions, jumps over and back, links.                *)

HazardInstrs ==
  {Addi(1, 1, 1), Sub(2, 1, 2), Sub(1, 2, 1), Load(1, 1, 0), Load(2, 1, 2),
   Store(2, 1, 0), Bne(1, 2, 2), Bne(2, 0, -1), Jal(1, 2), Jalr(2, 1, 3)}

HazardStarts(n) == {p \in [1 .. n -> HazardInstrs] : p[1] # Bne(2, 0, -1)}

\* The EBREAK is the first or the second instruction of its pair.
HazardPrograms ==
  Concat(HazardStarts(4), StopTail)
    \cup Concat(HazardStarts(3), <<Ebreak, Nop, Nop, Nop, Jal(0, 0)>>)

\* Machine mode, no interrupt enabled, translation off: the state init leaves.
ResetContext == {[csr |-> ZeroCsr, prv |-> PRV_M, pc |-> 0]}

CountingData == [a \in DataAddrs |-> Wrap(3 * a + 1)]

\* The theorems about well-behaved programs speak of this instance.
FromHalt == [p \in Programs |-> {a \in CodeAddrs : \E b \in 0 .. a : IsHalting(p[b])}]
ASSUME HazardsWellBehaved ==
  Programs = HazardPrograms => WellBehaved([p \in Programs |-> CodeAddrs], FromHalt)

-----------------------------------------------------------------------------
(* Traps.  Three free instructions, an illegal one, and trap handlers that *)
(* return behind the trapping instruction.  Two pages of the code (18 and  *)
(* 19, 22 and 23) are unmapped: mepc sends an MRET to the first of them or *)
(* to the last word of memory.  One context has its handler past the end   *)
(* of memory, where there is nothing to fetch.                             *)

MachineHandler    == 9
SupervisorHandler == 13

SkipHandler(epc, return) ==
  <<CsrOp("rs", epc, 2, 0, {}), Addi(2, 2, 1), CsrOp("rw", epc, 0, 2, {}), Simple(return)>>

TrapTail == <<Simple("fence"), Simple("illegal"), Ebreak, Nop, Nop, Jal(0, 0)>>
              \o SkipHandler("mepc", "mret") \o SkipHandler("sepc", "sret")
              \o <<Jal(0, 0), Nop, Nop, Jal(0, 0), Nop, Nop, Nop>>

\* Address 3 is misaligned, 9 unmapped, 15 beyond memory.  The loads that trap
\* have no destination.
TrapInstrs ==
  {Addi(1, 1, 1), Load(0, 0, 3), Store(2, 0, 3), Load(0, 1, 8), Store(1, 0, 9),
   Store(2, 0, 1), Load(1, 0, 15), Jalr(1, 2, 15), Auipc(1, 2),
   Simple("ecall"), Simple("mret"), Simple("sret"),
   CsrOp("rw", "mepc", 1, 2, {}), CsrOp("rc", "mstatus", 0, 0, {1, 3})}

TrapPrograms == Concat([1 .. 3 -> TrapInstrs], TrapTail)

Handlers == [ZeroCsr EXCEPT !.mstatus = {1, 3}, !.satp = 1,
                            !.mtvec = MachineHandler, !.mepc = 18,
                            !.stvec = SupervisorHandler, !.sepc = 5]

TrapContexts ==
  {[csr |-> Handlers, prv |-> PRV_M, pc |-> 0],
   [csr |-> [Handlers EXCEPT !.medeleg = {2, 9, 12, 13}], prv |-> PRV_S, pc |-> 0],
   [csr |-> [Handlers EXCEPT !.medeleg = {6, 8, 15}], prv |-> PRV_U, pc |-> 0],
   [csr |-> [Handlers EXCEPT !.mtvec = 5, !.mepc = 23], prv |-> PRV_M, pc |-> 0],
   [csr |-> [Handlers EXCEPT !.mtvec = 24], prv |-> PRV_M, pc |-> 0]}

\* Those about disciplined programs speak of this one.
TrapText == (0 .. MachineHandler - 4) \cup (MachineHandler .. 17) \cup {20}
TrapDead == MachineHandler - 4 .. MachineHandler - 1
ASSUME TrapsDisciplined ==
  Programs = TrapPrograms =>
    Disciplined([p \in Programs |-> TrapText], [p \in Programs |-> TrapDead])

-----------------------------------------------------------------------------
(* Interrupts at any tick.  The handlers overwrite x2 and return.          *)

InterruptTail == <<Ebreak, Nop, Nop, Jal(0, 0),
                   Addi(2, 0, 7), Simple("mret"), Addi(2, 0, 6), Simple("sret"),
                   Jal(0, 0)>>

InterruptInstrs ==
  {Addi(1, 2, 1), Load(1, 0, 2), Sub(2, 1, 2), Store(1, 0, 1), Bne(1, 2, 2), Jal(1, 2),
   CsrOp("rs", "sip", 0, 0, {1}), CsrOp("rw", "mepc", 1, 2, {})}

InterruptPrograms == Concat([1 .. 2 -> InterruptInstrs], InterruptTail)

Enabled(mstatus, mie, mideleg) ==
  [ZeroCsr EXCEPT !.mstatus = mstatus, !.mie = mie, !.mideleg = mideleg,
                  !.mtvec = 6, !.stvec = 8]

InterruptContexts ==
  {[csr |-> Enabled({3}, {1, 7}, {}), prv |-> PRV_M, pc |-> 0],
   [csr |-> Enabled({3}, {7}, {7}),   prv |-> PRV_M, pc |-> 0],
   [csr |-> Enabled({1}, {1, 7}, {}), prv |-> PRV_S, pc |-> 0]}

-----------------------------------------------------------------------------
(* Corners: fetch faults next to instructions in flight and on the last    *)
(* word, loads that trap into a register, illegal and halting instructions *)
(* in either slot, and programs that run off the end of memory.            *)

CornerInstrs ==
  {Addi(1, 1, 1), Load(1, 0, 3), Store(2, 0, 1), Jal(1, 3), Bne(2, 0, 2), Jalr(0, 0, 7),
   Simple("illegal"), Ebreak, Simple("mret"), CsrOp("rs", "mstatus", 0, 0, {3})}

CornerPrograms == Concat([1 .. 3 -> CornerInstrs], <<Nop, Sub(1, 2, 1), Nop, Nop, Nop>>)

CornerContexts ==
  {[csr |-> [Enabled({12}, {7}, {}) EXCEPT !.mepc = 7, !.satp = 1, !.medeleg = {12}],
    prv |-> p, pc |-> 0] : p \in {PRV_U, PRV_M}}

-----------------------------------------------------------------------------
(* Deviations: every condition of Precise fails here, before and after     *)
(* interrupts, traps and returns at every level, and with satp rewritten   *)
(* behind instructions that were fetched.  Interrupts that meet none, too. *)

WildInstrs ==
  CornerInstrs \cup
  {Load(0, 1, 8), Load(1, 0, 15), Store(1, 0, 2), Jalr(1, 2, 15), Bne(1, 0, -1),
   Simple("ecall"), Simple("sret"), Simple("zero"), CsrOp("rw", "satp", 0, 2, {}),
   CsrOp("rw", "sepc", 1, 2, {}), CsrOp("rs", "mip", 0, 0, {1})}

WildPrograms ==
  Concat({p \in [1 .. 2 -> WildInstrs] : p[1] # Bne(1, 0, -1)},
         <<Nop, Sub(1, 2, 1), Nop, Store(2, 0, 2), Nop, Nop, Nop, Nop, Nop>>)
    \cup InterruptPrograms

WildContexts ==
  CornerContexts \cup InterruptContexts \cup
  {[csr |-> [Enabled({1, 3, 12}, {1, 7}, {1}) EXCEPT
               !.mepc = 7, !.satp = 1, !.medeleg = {5, 7, 8, 12}, !.stvec = 4],
    prv |-> p, pc |-> 0] : p \in {PRV_U, PRV_S, PRV_M}}
=============================================================================
