-------------------------- MODULE RefinementProofs --------------------------
(***************************************************************************)
(* The pipeline implements the sequential machine, for every size of the   *)
(* machine, every program, every boot context and every timer, but for the *)
(* deviations that Precise excludes.                                       *)
(*                                                                         *)
(* The inductive invariant is Shape /\ Order.  Order relates the latches   *)
(* to the program: they hold what instruction memory has from the oldest   *)
(* pc on, in the predicted direction, each latch where the older one ends; *)
(* and to each other: the register file has had MEM/WB written back, and   *)
(* MEM/WB has what EX/MEM still holds.  It needs no condition: it also     *)
(* holds after steps that were not sequential.                             *)
(*                                                                         *)
(* Given it, each handler has a lemma.  Write-back, the memory stage, the  *)
(* issue unit and fetch change nothing a program can see; the execute      *)
(* stage is one or two instructions; the interrupt check is a sampling of  *)
(* the timer.  The sections from Calm on are about the programs that meet  *)
(* no deviation; Drilled is their inductive invariant.                     *)
(***************************************************************************)
EXTENDS Refinement, ShapeProofs

-----------------------------------------------------------------------------
(* The machine Isa speaks of is the same: its copies of the operators that *)
(* both modules are built from agree with those of Pipeline.               *)

LEMMA SameMasks ==
  /\ Sequential!MSTATUS_SIE = MSTATUS_SIE /\ Sequential!MSTATUS_MIE = MSTATUS_MIE
  /\ Sequential!MSTATUS_SPIE = MSTATUS_SPIE /\ Sequential!MSTATUS_MPIE = MSTATUS_MPIE
  /\ Sequential!MSTATUS_SPP = MSTATUS_SPP /\ Sequential!MSTATUS_MPP = MSTATUS_MPP
  /\ Sequential!SSTATUS_MASK = SSTATUS_MASK /\ Sequential!SIE_MASK = SIE_MASK
  /\ Sequential!MIP_WRITABLE = MIP_WRITABLE /\ Sequential!SIP_WRITABLE = SIP_WRITABLE
  /\ Sequential!MIDELEG_MASK = MIDELEG_MASK /\ Sequential!MEDELEG_MASK = MEDELEG_MASK
  /\ Sequential!MIP_MTIP = MIP_MTIP
  /\ Sequential!PRV_U = PRV_U /\ Sequential!PRV_S = PRV_S /\ Sequential!PRV_M = PRV_M
  /\ Sequential!FlagCsrs = FlagCsrs /\ Sequential!WordCsrs = WordCsrs
BY DEF Sequential!MSTATUS_SIE, MSTATUS_SIE, Sequential!MSTATUS_MIE, MSTATUS_MIE,
       Sequential!MSTATUS_SPIE, MSTATUS_SPIE, Sequential!MSTATUS_MPIE, MSTATUS_MPIE,
       Sequential!MSTATUS_SPP, MSTATUS_SPP, Sequential!MSTATUS_MPP, MSTATUS_MPP,
       Sequential!SSTATUS_MASK, SSTATUS_MASK, Sequential!SIE_MASK, SIE_MASK,
       Sequential!MIP_WRITABLE, MIP_WRITABLE, Sequential!SIP_WRITABLE, SIP_WRITABLE,
       Sequential!MIDELEG_MASK, MIDELEG_MASK, Sequential!MEDELEG_MASK, MEDELEG_MASK,
       Sequential!MIP_SSIP, MIP_SSIP, Sequential!MIP_MSIP, MIP_MSIP,
       Sequential!MIP_STIP, MIP_STIP, Sequential!MIP_MTIP, MIP_MTIP,
       Sequential!MIP_SEIP, MIP_SEIP, Sequential!MIP_MEIP, MIP_MEIP,
       Sequential!PRV_U, PRV_U, Sequential!PRV_S, PRV_S, Sequential!PRV_M, PRV_M,
       Sequential!FlagCsrs, FlagCsrs, Sequential!WordCsrs, WordCsrs

LEMMA SameCsrFile == Sequential!CsrFile = CsrFile /\ Sequential!ZeroCsr = ZeroCsr
BY DEF Sequential!CsrFile, CsrFile, Sequential!Bits, Bits, Sequential!Causes, Causes,
       Sequential!ZeroCsr, ZeroCsr, Sequential!NoCause, NoCause

LEMMA SameReadCsr == \A f, name : Sequential!ReadCsr(f, name) = ReadCsr(f, name)
BY SameMasks DEF Sequential!ReadCsr, ReadCsr

LEMMA SameWriteCsr == \A f, name, v : Sequential!WriteCsr(f, name, v) = WriteCsr(f, name, v)
BY SameMasks DEF Sequential!WriteCsr, WriteCsr, Sequential!Merge, Merge

LEMMA SameSupervisorEntry ==
  \A c, epc, cause : Sequential!EnterSupervisor(c, epc, cause) = EnterSupervisor(c, epc, cause)
BY SameMasks, SameReadCsr, SameWriteCsr
DEF Sequential!EnterSupervisor, EnterSupervisor, Sequential!SupervisorEntryStatus,
    SupervisorEntryStatus, Sequential!ShiftLeft, ShiftLeft

LEMMA SameMachineEntry ==
  \A c, epc, cause : Sequential!EnterMachine(c, epc, cause) = EnterMachine(c, epc, cause)
BY SameMasks DEF Sequential!EnterMachine, EnterMachine, Sequential!MachineEntryStatus,
                 MachineEntryStatus, Sequential!ShiftLeft, ShiftLeft

LEMMA SameTrap ==
  \A c, epc, cause, tval :
    Sequential!HandleTrap(c, epc, cause, tval) = HandleTrap(c, epc, cause, tval)
BY SameMasks, SameSupervisorEntry, SameMachineEntry
DEF Sequential!HandleTrap, HandleTrap, Sequential!TrapDelegated, TrapDelegated,
    Sequential!ExceptionDelegated, ExceptionDelegated

LEMMA SameReturn ==
  \A c : Sequential!Mret(c) = Mret(c) /\ Sequential!Sret(c) = Sret(c)
BY SameMasks, SameReadCsr, SameWriteCsr
DEF Sequential!Mret, Mret, Sequential!Sret, Sret, Sequential!MretStatus, MretStatus

LEMMA SamePending ==
  /\ \A f, level : Sequential!HwSetMtip(f, level) = HwSetMtip(f, level)
  /\ \A c : Sequential!PendingInterrupts(c) = PendingInterrupts(c)
  /\ \A c : Sequential!InterruptDue(c) = InterruptDue(c)
<1>1. \A f, level : Sequential!HwSetMtip(f, level) = HwSetMtip(f, level)
  BY SameMasks DEF Sequential!HwSetMtip, HwSetMtip
<1>2. \A c : Sequential!PendingInterrupts(c) = PendingInterrupts(c)
  BY SameMasks, SameReadCsr
  DEF Sequential!PendingInterrupts, PendingInterrupts, Sequential!Priority, Priority
<1>3. \A c : Sequential!InterruptDue(c) = InterruptDue(c)
  BY SameMasks, <1>2
  DEF Sequential!InterruptDue, InterruptDue, Sequential!GlobalInterruptEnable,
      GlobalInterruptEnable
<1> QED BY <1>1, <1>2, <1>3

LEMMA SameInterrupt == \A c : Sequential!TakeInterrupt(c) = TakeInterrupt(c)
<1>1. \A c : Sequential!SelectedInterrupt(c) = SelectedInterrupt(c)
  BY SamePending
  DEF Sequential!SelectedInterrupt, SelectedInterrupt, Sequential!Interrupt, Interrupt,
      Sequential!Priority, Priority
<1> QED BY <1>1, SameMasks, SameSupervisorEntry, SameMachineEntry
        DEF Sequential!TakeInterrupt, TakeInterrupt, Sequential!InterruptDelegated,
            InterruptDelegated

LEMMA SameMachine ==
  /\ Sequential!Reg = Reg /\ Sequential!Word = Word
  /\ Sequential!CodeAddrs = CodeAddrs /\ Sequential!DataAddrs = DataAddrs
  /\ \A n : Sequential!Wrap(n) = Wrap(n)
  /\ \A i : /\ Sequential!RegWrite(i) = RegWrite(i) /\ Sequential!IsLoad(i) = IsLoad(i)
            /\ Sequential!IsStore(i) = IsStore(i) /\ Sequential!IsMemory(i) = IsMemory(i)
            /\ Sequential!IsHalting(i) = IsHalting(i)
  /\ \A addr, f, p : Sequential!Access(addr, f, p) = Access(addr, f, p)
  /\ \A addr, f, p : Sequential!FetchFaults(addr, f, p) = FetchFaults(addr, f, p)
BY SameMasks
DEF Sequential!Reg, Reg, Sequential!Word, Word, Sequential!CodeAddrs, CodeAddrs,
    Sequential!DataAddrs, DataAddrs, Sequential!Wrap, Wrap, Sequential!RegWrite, RegWrite,
    Sequential!IsLoad, IsLoad, Sequential!IsStore, IsStore, Sequential!IsMemory, IsMemory,
    Sequential!IsHalting, IsHalting, Sequential!Access, Access,
    Sequential!FetchFaults, FetchFaults, Sequential!TranslationOn, TranslationOn

LEMMA SameExecution ==
  /\ \A i, a, b : Sequential!BranchTaken(i, a, b) = BranchTaken(i, a, b)
  /\ \A i, a, b : Sequential!JumpTarget(i, a, b) = JumpTarget(i, a, b)
  /\ \A i, a, op1, op2, f : Sequential!Result(i, a, op1, op2, f) = Result(i, a, op1, op2, f)
  /\ \A i, op1, f : Sequential!CsrAfter(i, op1, f) = CsrAfter(i, op1, f)
<1>1. \A i, a, b : Sequential!BranchTaken(i, a, b) = BranchTaken(i, a, b)
  BY DEF Sequential!BranchTaken, BranchTaken
<1>2. \A i, a, b : Sequential!JumpTarget(i, a, b) = JumpTarget(i, a, b)
  BY SameMachine DEF Sequential!JumpTarget, JumpTarget
<1>3. \A i, a, op1, op2, f : Sequential!Result(i, a, op1, op2, f) = Result(i, a, op1, op2, f)
  BY SameMachine, SameMasks, SameReadCsr
  DEF Sequential!Result, Result, Sequential!Difference, Difference
<1>4. \A i, op1, f : Sequential!CsrAfter(i, op1, f) = CsrAfter(i, op1, f)
  BY SameMasks, SameReadCsr, SameWriteCsr
  DEF Sequential!CsrAfter, CsrAfter, Sequential!CsrWriteValue, CsrWriteValue
<1> QED BY <1>1, <1>2, <1>3, <1>4

LEMMA SameCauses ==
  /\ Sequential!MCAUSE_INST_PAGE_FAULT = MCAUSE_INST_PAGE_FAULT
  /\ \A i, outcome : Sequential!AccessCause(i, outcome) = AccessCause(i, outcome)
  /\ \A i, p : Sequential!TrapCause(i, p) = TrapCause(i, p)
  /\ \A i, a : Sequential!TrapPc(i, a) = TrapPc(i, a)
  /\ \A i : Sequential!TrapValue(i) = TrapValue(i)
BY SameMachine, SameMasks
DEF Sequential!MCAUSE_INST_PAGE_FAULT, MCAUSE_INST_PAGE_FAULT, Sequential!Exception, Exception,
    Sequential!AccessCause, AccessCause, Sequential!TrapCause, TrapCause, Sequential!TrapPc,
    TrapPc, Sequential!TrapValue, TrapValue, Sequential!EcallCause, EcallCause,
    Sequential!MCAUSE_ILLEGAL, MCAUSE_ILLEGAL,
    Sequential!MCAUSE_LOAD_MISALIGNED, MCAUSE_LOAD_MISALIGNED,
    Sequential!MCAUSE_STORE_MISALIGNED, MCAUSE_STORE_MISALIGNED,
    Sequential!MCAUSE_LOAD_PAGE_FAULT, MCAUSE_LOAD_PAGE_FAULT,
    Sequential!MCAUSE_STORE_PAGE_FAULT, MCAUSE_STORE_PAGE_FAULT,
    Sequential!MCAUSE_ECALL_U, MCAUSE_ECALL_U, Sequential!MCAUSE_ECALL_S, MCAUSE_ECALL_S,
    Sequential!MCAUSE_ECALL_M, MCAUSE_ECALL_M

-----------------------------------------------------------------------------
(* The architectural state, slot by slot                                   *)

\* The registers and memory of a machine that goes on in context c, and of one
\* that has ended.
Going(c, file, m) == [pc |-> c.pc, csr |-> c.csr, prv |-> c.prv, stop |-> FALSE,
                      regs |-> file, mem |-> m]
Finished(file, m) == [pc |-> 0, csr |-> ZeroCsr, prv |-> PRV_M, stop |-> TRUE,
                      regs |-> file, mem |-> m]

\* What becomes of slot e, whose instruction is at a, in context c.
OutcomeIn(c, e) == IF IsMemory(e.instr) THEN Access(e.result, c.csr, c.prv) ELSE "done"
EndsIn(c, e)    == IsHalting(e.instr) \/ OutcomeIn(c, e) = "abort"
FaultsIn(c, e)  == OutcomeIn(c, e) \in {"misaligned", "page fault"}
TrapIn(c, e, a) == HandleTrap(c, a, AccessCause(e.instr, OutcomeIn(c, e)), e.result)

One(c, file, m, e, a) ==
  IF EndsIn(c, e) THEN Finished(file, m)
  ELSE IF FaultsIn(c, e) THEN Going(TrapIn(c, e, a), file, m)
  ELSE Going(c, SetReg(file, Loaded(m, e)), Stored(m, e))

Both(c, file, m, d, a) ==
  IF EndsIn(c, d[0]) \/ FaultsIn(c, d[0]) THEN One(c, file, m, d[0], a)
  ELSE One(c, SetReg(file, Loaded(m, d[0])), Stored(m, d[0]), d[1], a + 1)

Machine(live, c, file, m, d, a) ==
  IF live THEN Both(c, file, m, d, a) ELSE Finished(file, m)

Live == running /\ ~WrittenBackHalts
Upcoming == [Context EXCEPT !.pc = NextPc]

\* Trap entry does not look at the fetch pc.
LEMMA TrapIgnoresPc ==
  ASSUME NEW c, NEW d, c.csr = d.csr, c.prv = d.prv
  PROVE  \A a, cause, tval : HandleTrap(c, a, cause, tval) = HandleTrap(d, a, cause, tval)
BY DEF HandleTrap, TrapDelegated, EnterSupervisor, EnterMachine

LEMMA UpcomingFields ==
  Upcoming.csr = csr /\ Upcoming.prv = prv /\ Upcoming.pc = NextPc
BY DEF Upcoming, Context

\* The lanes in turn.
LEMMA LanesInTurn ==
  /\ \A l \in Lanes : /\ DrainOutcome(l) = OutcomeIn(Upcoming, Draining[l])
                      /\ Ends(l) <=> EndsIn(Upcoming, Draining[l])
                      /\ Faults(l) <=> FaultsIn(Upcoming, Draining[l])
  /\ Drains(0) <=> Live
  /\ Completes(0) <=> Live /\ ~Ends(0) /\ ~Faults(0)
  /\ Drains(1) <=> Completes(0)
  /\ Completes(1) <=> Completes(0) /\ ~Ends(1) /\ ~Faults(1)
<1>1. ASSUME NEW l \in Lanes
      PROVE  /\ DrainOutcome(l) = OutcomeIn(Upcoming, Draining[l])
             /\ Ends(l) <=> EndsIn(Upcoming, Draining[l])
             /\ Faults(l) <=> FaultsIn(Upcoming, Draining[l])
  BY UpcomingFields DEF DrainOutcome, OutcomeIn, Ends, EndsIn, Faults, FaultsIn
<1>2. Drains(0) <=> Live
  BY DEF Drains, Live, Lanes
<1>3. Completes(0) <=> Live /\ ~Ends(0) /\ ~Faults(0)
  BY DEF Completes, Live, Lanes
<1>4. Completes(1) <=> Completes(0) /\ ~Ends(1) /\ ~Faults(1)
  BY DEF Completes, Live, Lanes
<1>5. Drains(1) <=> Completes(0)
  BY <1>3 DEF Drains, Live, Lanes
<1> QED BY <1>1, <1>2, <1>3, <1>4, <1>5

\* What drains is well typed and properly paired.
LEMMA DrainingShape ==
  ASSUME Shape
  PROVE  Draining \in [Lanes -> Slots] /\ WellPaired(Instrs(Draining))
<1>1. TypeOK /\ WellPaired(Instrs(ex_mem.lane))
  BY DEF Shape, LanesInOrder, PairsAllowed, WellPaired
<1>2. ex_mem.lane \in [Lanes -> Slots] /\ NoResults.lane \in [Lanes -> Slots]
  BY <1>1, EmptyType DEF TypeOK, ResultLatch
<1> QED BY <1>1, <1>2, EmptyShape DEF Draining

\* Two memory accesses never drain together.
LEMMA OneAccess ==
  ASSUME NEW d \in [Lanes -> Slots], WellPaired(Instrs(d))
  PROVE  /\ IsMemory(d[0].instr) => ~IsMemory(d[1].instr)
         /\ Valid(d[1].instr) => Valid(d[0].instr)
         /\ \A m : Loaded(Stored(m, d[0]), d[1]) = Loaded(m, d[1])
<1>1. Instrs(d)[0] = d[0].instr /\ Instrs(d)[1] = d[1].instr
  BY DEF Instrs, Lanes
<1>2. IsMemory(d[0].instr) => ~IsMemory(d[1].instr)
  BY <1>1 DEF WellPaired, MayPair, Valid, IsMemory, IsLoad, IsStore
<1> QED BY <1>1, <1>2 DEF WellPaired, InOrder, Loaded, Stored, IsMemory

\* The state seen through the refinement, without CHOOSE and quantifiers: what is
\* in MEM/WB is written back, then the two slots that drain are taken in turn.
LEMMA ArchIsMachine ==
  ASSUME Shape
  PROVE  Arch = Machine(Live, Upcoming, DrainedMemWb, mem, Draining, ex_mem.pc)
<1> DEFINE d == Draining
           c == Upcoming
           r0 == SetReg(DrainedMemWb, Loaded(mem, d[0]))
           m0 == Stored(mem, d[0])
<1>1. /\ 0 \in Lanes /\ 1 \in Lanes
      /\ Loaded(m0, d[1]) = Loaded(mem, d[1])
  BY DrainingShape, OneAccess DEF Lanes
<1>2. ArchStop <=> ~Live \/ EndsIn(c, d[0]) \/ (~FaultsIn(c, d[0]) /\ EndsIn(c, d[1]))
  BY LanesInTurn DEF ArchStop, Live, Lanes
<1>3. ArchRegs = IF ~Completes(0) THEN DrainedMemWb
                 ELSE IF Completes(1) THEN SetReg(r0, Loaded(m0, d[1])) ELSE r0
  BY <1>1, LanesInTurn DEF ArchRegs, DrainLane
<1>4. ArchMem = IF ~Completes(0) THEN mem
                ELSE IF Completes(1) THEN Stored(m0, d[1]) ELSE m0
  BY LanesInTurn DEF ArchMem, StoreLane
<1>5. ArchContext = IF Drains(0) /\ Faults(0) THEN TrapIn(c, d[0], ex_mem.pc)
                    ELSE IF Drains(1) /\ Faults(1) THEN TrapIn(c, d[1], ex_mem.pc + 1)
                    ELSE c
  <2> DEFINE Trap(l) == HandleTrap(Context, ex_mem.pc + l,
                                   AccessCause(d[l].instr, DrainOutcome(l)), d[l].result)
  <2>1. ASSUME NEW l \in Lanes
        PROVE  Trap(l) = TrapIn(c, d[l], ex_mem.pc + l)
    BY UpcomingFields, TrapIgnoresPc, LanesInTurn DEF TrapIn, Context
  <2>2. ~(Drains(0) /\ Faults(0) /\ Drains(1) /\ Faults(1))
    BY LanesInTurn
  <2>3. ASSUME NEW l \in Lanes, Drains(l), Faults(l)
        PROVE  ArchContext = Trap(l)
    <3>1. (CHOOSE k \in Lanes : Drains(k) /\ Faults(k)) = l
      BY <2>2, <2>3 DEF Lanes
    <3> QED BY <2>3, <3>1 DEF ArchContext
  <2>4. CASE \A l \in Lanes : ~(Drains(l) /\ Faults(l))
    BY <1>1, <2>4 DEF ArchContext, Upcoming
  <2>5. ex_mem.pc + 0 = ex_mem.pc
    BY DEF Shape, TypeOK, ResultLatch
  <2> QED BY <1>1, <2>1, <2>2, <2>3, <2>4, <2>5 DEF Lanes
<1>6. Arch = IF ArchStop THEN Finished(ArchRegs, ArchMem) ELSE Going(ArchContext, ArchRegs, ArchMem)
  <2>1. CASE ArchStop
    BY <2>1 DEF Arch, Ended, Finished
  <2>2. CASE ~ArchStop
    <3>1. ArchStop = FALSE
      BY <2>2 DEF ArchStop
    <3> QED BY <2>2, <3>1 DEF Arch, Going
  <2> QED BY <2>1, <2>2
<1> HIDE DEF c, d, r0, m0
<1>7. CASE ~Live
  BY <1>2, <1>3, <1>4, <1>6, <1>7, LanesInTurn DEF Machine
<1>8. CASE Live /\ EndsIn(c, d[0])
  BY <1>2, <1>3, <1>4, <1>6, <1>8, LanesInTurn, <1>1 DEF Machine, Both, One, c, d
<1>9. CASE Live /\ ~EndsIn(c, d[0]) /\ FaultsIn(c, d[0])
  BY <1>2, <1>3, <1>4, <1>5, <1>6, <1>9, LanesInTurn, <1>1 DEF Machine, Both, One, c, d
<1>10. CASE Live /\ ~EndsIn(c, d[0]) /\ ~FaultsIn(c, d[0])
  <2>1. Completes(0)
    BY <1>1, <1>10, LanesInTurn DEF c, d
  <2>2. Completes(1) <=> ~EndsIn(c, d[1]) /\ ~FaultsIn(c, d[1])
    BY <1>1, <2>1, LanesInTurn DEF c, d
  <2>3. Arch = One(c, r0, m0, d[1], ex_mem.pc + 1)
    BY <1>1, <1>2, <1>3, <1>4, <1>5, <1>6, <1>10, <2>1, <2>2, LanesInTurn DEF One, c, d
  <2>4. Machine(Live, Upcoming, DrainedMemWb, mem, Draining, ex_mem.pc)
          = One(c, r0, m0, d[1], ex_mem.pc + 1)
    BY <1>10 DEF Machine, Both, c, d, r0, m0
  <2> QED BY <2>3, <2>4
<1> QED BY <1>7, <1>8, <1>9, <1>10 DEF c, d

-----------------------------------------------------------------------------
(* The order of the program in the latches                                 *)

\* The instructions in a latch are those of the program at its pc, and after it.
InCode(program, latch) ==
  \A l \in Lanes :
    Valid(latch.lane[l]) =>
      \/ latch.lane[l] = ZeroWord
      \/ latch.pc + l \in CodeAddrs /\ latch.lane[l] = program[latch.pc + l]

Count(latch) == IF Valid(latch.lane[1]) THEN 2 ELSE 1
After(latch) == IF PredictedTaken(latch.lane[0]) THEN latch.pc + latch.lane[0].imm
                                                 ELSE latch.pc + Count(latch)

\* Each latch goes on where the older one ends, in the predicted direction.
FlowOf(program, p, fetched, issued) ==
  /\ InCode(program, fetched) /\ InCode(program, issued)
  /\ PredictedTaken(issued.lane[0]) => ~Valid(issued.lane[1])
  /\ Valid(fetched.lane[0]) => p = fetched.pc + Count(fetched)
  /\ Valid(issued.lane[0]) =>
       (IF Valid(fetched.lane[0]) THEN fetched.pc ELSE p) = After(issued)

\* The register file has MEM/WB between write-back and the memory stage;
\* EX/MEM has what the memory stage moved on until it is overwritten.
Order ==
  /\ FlowOf(code, pc, if_id, id_ex)
  /\ stage = "WB" => running
  /\ stage = "MEM" => /\ SetReg(SetReg(regs, mem_wb[0]), mem_wb[1]) = regs
                      /\ running <=> GoesOn(mem_wb)
  /\ stage = "EX" =>
       \A l \in Lanes :
         RegWrite(ex_mem.lane[l].instr) /\ ~IsMemory(ex_mem.lane[l].instr)
           => mem_wb[l] = ex_mem.lane[l]
  /\ regs[0] = 0

\* A slot writes its register once and for all, and never x0.
LEMMA SetRegOnce ==
  ASSUME NEW file \in [Reg -> Word], NEW s \in Slots
  PROVE  /\ SetReg(file, s)[0] = file[0]
         /\ \A r \in Reg : SetReg(file, s)[r] =
              IF Writes(s.instr, r) /\ r # 0 THEN s.result ELSE file[r]
BY SetRegType DEF SetReg, Writes, Reg

\* Writing a pair back a second time changes nothing.
LEMMA SetRegTwice ==
  ASSUME NEW file \in [Reg -> Word], NEW s \in Slots, NEW t \in Slots
  PROVE  LET both == SetReg(SetReg(file, s), t)
         IN  SetReg(SetReg(both, s), t) = both
<1> DEFINE first == SetReg(file, s)
           both  == SetReg(first, t)
           third == SetReg(both, s)
           last  == SetReg(third, t)
<1>1. first \in [Reg -> Word] /\ both \in [Reg -> Word]
      /\ third \in [Reg -> Word] /\ last \in [Reg -> Word]
  BY SetRegType
<1>2. ASSUME NEW r \in Reg
      PROVE  last[r] = both[r]
  <2>1. last[r] = IF Writes(t.instr, r) /\ r # 0 THEN t.result ELSE third[r]
    BY <1>1, SetRegOnce
  <2>2. third[r] = IF Writes(s.instr, r) /\ r # 0 THEN s.result ELSE both[r]
    BY <1>1, SetRegOnce
  <2>3. both[r] = IF Writes(t.instr, r) /\ r # 0 THEN t.result ELSE first[r]
    BY <1>1, SetRegOnce
  <2>4. first[r] = IF Writes(s.instr, r) /\ r # 0 THEN s.result ELSE file[r]
    BY SetRegOnce
  <2> QED BY <2>1, <2>2, <2>3, <2>4
<1> HIDE DEF first, both, third, last
<1>3. last = both
  BY <1>1, <1>2
<1> QED BY <1>3 DEF first, both, third, last

\* An empty slot changes nothing.
LEMMA EmptySlot ==
  ASSUME NEW e, ~Valid(e.instr)
  PROVE  /\ \A file : SetReg(file, e) = file
         /\ \A m : Stored(m, e) = m /\ Loaded(m, e) = e
         /\ \A c : OutcomeIn(c, e) = "done" /\ ~EndsIn(c, e) /\ ~FaultsIn(c, e)
         /\ ~IsHalting(e.instr) /\ ~IsMemory(e.instr) /\ ~RegWrite(e.instr)
BY DEF Valid, SetReg, RegWrite, Stored, IsStore, Loaded, IsLoad, IsMemory, OutcomeIn,
       EndsIn, FaultsIn, IsHalting

\* A flush leaves nothing to be in order.
LEMMA FlowFlushed ==
  \A program, p : FlowOf(program, p, NoFetch, NoFetch)
<1>1. NoFetch.lane[0] = Bubble /\ NoFetch.lane[1] = Bubble
  BY DEF NoFetch, Fetched, Lanes
<1>2. ~PredictedTaken(Bubble)
  BY DEF PredictedTaken, Bubble
<1> QED BY <1>1, <1>2, BubbleInvalid DEF FlowOf, InCode, Lanes

-----------------------------------------------------------------------------
(* Every handler keeps the order                                           *)

LEMMA InitOrder ==
  ASSUME Init
  PROVE  Order
<1>1. regs[0] = 0
  BY SizesAssumption DEF Init, Reg
<1> QED BY <1>1, FlowFlushed DEF Init, Order

\* Each handler keeps the order.
LEMMA CheckOrder ==
  ASSUME Shape, Order, UNCHANGED code, InterruptCheck
  PROVE  Order'
<1>1. PICK level \in TimerLevels : NoInterrupt(level) \/ InterruptEntry(level)
  BY DEF InterruptCheck
<1>2. running' /\ stage' = "WB" /\ regs' = regs
  BY <1>1 DEF NoInterrupt, InterruptEntry
<1>3. FlowOf(code, pc, if_id, id_ex)'
  <2>1. CASE NoInterrupt(level)
    <3>1. UNCHANGED <<pc, if_id, id_ex>>
      BY <2>1 DEF NoInterrupt, Enter, Ticked, Context, latches
    <3> QED BY <3>1 DEF Order
  <2>2. CASE InterruptEntry(level)
    BY <2>2, FlowFlushed DEF InterruptEntry, Flush
  <2> QED BY <1>1, <2>1, <2>2
<1> QED BY <1>2, <1>3 DEF Order

LEMMA WriteBackOrder ==
  ASSUME Shape, Order, UNCHANGED code, WriteBack
  PROVE  Order'
<1>1. regs \in [Reg -> Word] /\ mem_wb[0] \in Slots /\ mem_wb[1] \in Slots
  BY DEF Shape, TypeOK, Lanes
<1>2. SetReg(SetReg(regs', mem_wb[0]), mem_wb[1]) = regs'
  BY <1>1, SetRegTwice DEF WriteBack
<1>3. regs'[0] = 0
  BY <1>1, SetRegOnce, SetRegType DEF WriteBack, Order
<1>4. FlowOf(code, pc, if_id, id_ex)'
  BY DEF Order, WriteBack, latches
<1>5. mem_wb' = mem_wb /\ stage' = "MEM" /\ running' = GoesOn(mem_wb)
  BY DEF WriteBack, latches
<1>6. running' <=> GoesOn(mem_wb')
  BY <1>5
<1> QED BY <1>2, <1>3, <1>4, <1>5, <1>6 DEF Order

LEMMA MemoryOrder ==
  ASSUME Shape, Order, UNCHANGED code, Memory
  PROVE  Order'
<1>1. CASE MemoryAccess
  <2>1. FlowOf(code, pc, if_id, id_ex)' /\ regs'[0] = 0
    BY <1>1 DEF Order, MemoryAccess, regFile
  <2>2. ASSUME NEW l \in Lanes, ~IsMemory(ex_mem.lane[l].instr)
        PROVE  mem_wb'[l] = ex_mem.lane[l]
    BY <1>1, <2>2 DEF MemoryAccess, Loaded, IsMemory
  <2> QED BY <1>1, <2>1, <2>2 DEF Order, MemoryAccess
<1>2. ASSUME NEW l \in Lanes, MemoryTrap(l)
      PROVE  Order'
  <2>1. FlowOf(code, pc, if_id, id_ex)' /\ regs'[0] = 0
    BY <1>2, FlowFlushed DEF MemoryTrap, Flush, Order
  <2>2. ASSUME NEW k \in Lanes
        PROVE  ~RegWrite(NoResults.lane[k].instr)
    BY BubbleInvalid, EmptySlot DEF NoResults
  <2> QED BY <1>2, <2>1, <2>2 DEF Order, MemoryTrap
<1>3. ASSUME NEW l \in Lanes, MemoryAbort(l)
      PROVE  Order'
  <2>1. FlowOf(code, pc, if_id, id_ex)' /\ regs'[0] = 0
    BY <1>3 DEF Order, MemoryAbort, latches, regFile
  <2> QED BY <1>3, <2>1 DEF Order, MemoryAbort
<1> QED BY <1>1, <1>2, <1>3 DEF Memory

LEMMA ExecutionOrder ==
  ASSUME Shape, Order, UNCHANGED code, Execution
  PROVE  Order'
<1>1. stage' = "ID" /\ regs' = regs
  BY DEF Execution, Execute, ExecuteBranch, ExecuteTrap
<1>2. FlowOf(code, pc, if_id, id_ex)'
  <2>1. CASE UNCHANGED <<pc, if_id, id_ex>>
    BY <2>1 DEF Order
  <2>2. CASE Flush
    BY <2>2, FlowFlushed DEF Flush
  <2> QED BY <2>1, <2>2 DEF Execution, Execute, ExecuteBranch, ExecuteTrap
<1> QED BY <1>1, <1>2 DEF Order

\* Slots that are moved to the front of a latch, or cleared.
LEMMA FetchedLanes ==
  /\ \A a, i, j : /\ Fetched(a, i, j).pc = a
                  /\ Fetched(a, i, j).lane[0] = i /\ Fetched(a, i, j).lane[1] = j
  /\ \A latch \in FetchLatch :
       /\ Cleared(latch).pc = latch.pc
       /\ ~Valid(Cleared(latch).lane[0]) /\ ~Valid(Cleared(latch).lane[1])
       /\ ~PredictedTaken(Cleared(latch).lane[0])
<1>1. ~PredictedTaken(Bubble)
  BY DEF PredictedTaken, Bubble
<1> QED BY <1>1, BubbleInvalid DEF Fetched, Cleared, FetchLatch, Lanes

\* A latch with an instruction in front, and the order spelled out.
LEMMA FlowLanes ==
  ASSUME NEW program, NEW p, NEW f \in FetchLatch, NEW i \in FetchLatch
  PROVE  FlowOf(program, p, f, i) <=>
           /\ \A latch \in {f, i} :
                /\ Valid(latch.lane[0]) =>
                     \/ latch.lane[0] = ZeroWord
                     \/ latch.pc \in CodeAddrs /\ latch.lane[0] = program[latch.pc]
                /\ Valid(latch.lane[1]) =>
                     \/ latch.lane[1] = ZeroWord
                     \/ latch.pc + 1 \in CodeAddrs /\ latch.lane[1] = program[latch.pc + 1]
           /\ PredictedTaken(i.lane[0]) => ~Valid(i.lane[1])
           /\ Valid(f.lane[0]) => p = f.pc + Count(f)
           /\ Valid(i.lane[0]) => (IF Valid(f.lane[0]) THEN f.pc ELSE p) = After(i)
<1>1. f.pc + 0 = f.pc /\ i.pc + 0 = i.pc
  BY DEF FetchLatch
<1> QED BY <1>1 DEF FlowOf, InCode, Lanes

\* The issue unit takes from the front of what was fetched.
LEMMA IssueOrder ==
  ASSUME Shape, Order, UNCHANGED code, Issue
  PROVE  Order'
<1>1. /\ if_id \in FetchLatch /\ id_ex \in FetchLatch
      /\ InOrder(if_id.lane) /\ FlowOf(code, pc, if_id, id_ex)
      /\ if_id.pc \in Int /\ pc \in Int
  BY DEF Shape, TypeOK, Order, LanesInOrder, FetchLatch
<1>2. if_id' \in FetchLatch /\ id_ex' \in FetchLatch
  BY IssueType DEF Shape, TypeOK
<1>3. /\ stage' = "IF" /\ regs' = regs
      /\ FlowOf(code, pc, if_id, id_ex)' <=> FlowOf(code, pc', if_id', id_ex')
  BY DEF Issue, DecodeNothing, DecodeStall, IssuePredicted, IssuePair, IssueSingle, regFile
<1>4. ~PredictedTaken(Bubble)
  BY DEF PredictedTaken, Bubble
<1>5. CASE DecodeNothing
  <2>1. PredictedTaken(id_ex.lane[0]) => pc = id_ex.pc + id_ex.lane[0].imm
    BY <1>1, <1>5, FlowLanes DEF DecodeNothing, After, PredictedTaken, Valid
  <2>2. pc' = pc
    BY <1>5, <2>1 DEF DecodeNothing, Predict
  <2> QED BY <1>1, <1>3, <1>5, <2>2 DEF DecodeNothing, Order, latches
<1>6. CASE DecodeStall
  <2>1. FlowOf(code, pc, if_id, Cleared(id_ex))
    BY <1>1, ClearedType, FlowLanes, FetchedLanes
  <2> QED BY <1>3, <1>6, <2>1 DEF DecodeStall, Order
<1>7. CASE IssuePredicted
  <2> DEFINE issued == Fetched(if_id.pc, if_id.lane[0], Bubble)
  <2>1. /\ issued.pc = if_id.pc /\ issued.lane[0] = if_id.lane[0]
        /\ issued.lane[1] = Bubble
    BY FetchedLanes
  <2>2. pc' = After(issued)
    BY <1>7, <2>1 DEF IssuePredicted, Predict, After
  <2> HIDE DEF issued
  <2>3. FlowOf(code, After(issued), Cleared(if_id), issued)
    BY <1>1, <1>2, <1>7, <2>1, BubbleInvalid, FlowLanes, FetchedLanes
    DEF IssuePredicted, issued
  <2> QED BY <1>3, <1>7, <2>2, <2>3 DEF IssuePredicted, Order, issued
<1>8. CASE IssuePair
  <2>1. pc = After(if_id) /\ ~PredictedTaken(if_id.lane[0])
    BY <1>1, <1>8, FlowLanes DEF IssuePair, DecodeReady, After
  <2>2. FlowOf(code, pc, Cleared(if_id), if_id)
    BY <1>1, <2>1, ClearedType, FlowLanes, FetchedLanes
  <2> QED BY <1>3, <1>8, <2>2 DEF IssuePair, Order
<1>9. CASE IssueSingle
  <2> DEFINE issued == Fetched(if_id.pc, if_id.lane[0], Bubble)
             rest   == Fetched(if_id.pc + 1, if_id.lane[1], Bubble)
  <2>1. /\ issued.pc = if_id.pc /\ issued.lane[0] = if_id.lane[0]
        /\ issued.lane[1] = Bubble
        /\ rest.pc = if_id.pc + 1 /\ rest.lane[0] = if_id.lane[1]
        /\ rest.lane[1] = Bubble
    BY FetchedLanes
  <2>2. if_id' = rest /\ id_ex' = issued /\ pc' = pc /\ ~PredictedTaken(issued.lane[0])
    BY <1>9, <2>1 DEF IssueSingle, SecondMovesUp
  <2> HIDE DEF issued, rest
  <2>3. After(issued) = if_id.pc + 1 /\ Count(rest) = 1
    BY <2>1, <2>2, BubbleInvalid DEF After, Count
  <2>4. pc = if_id.pc + Count(if_id)
    BY <1>1, <1>9, FlowLanes DEF IssueSingle, DecodeReady
  <2>5. /\ Valid(rest.lane[0]) => pc = rest.pc + 1
        /\ (IF Valid(rest.lane[0]) THEN rest.pc ELSE pc) = After(issued)
    BY <1>1, <2>1, <2>3, <2>4 DEF Count
  <2>6. FlowOf(code, pc, rest, issued)
    BY <1>1, <1>2, <2>1, <2>2, <2>3, <2>5, BubbleInvalid, FlowLanes
  <2> QED BY <1>3, <2>2, <2>6 DEF Order
<1> QED BY <1>5, <1>6, <1>7, <1>8, <1>9 DEF Issue

\* Fetch goes on at the fetch pc.
LEMMA FetchOrder ==
  ASSUME Shape, Order, UNCHANGED code, Fetch
  PROVE  Order'
<1>1. /\ id_ex \in FetchLatch /\ pc \in Int
      /\ InOrder(if_id.lane) /\ FlowOf(code, pc, if_id, id_ex)
      /\ \A a \in CodeAddrs : Valid(code[a])
      /\ if_id \in FetchLatch
  BY ProgramType DEF Shape, TypeOK, Order, LanesInOrder
<1>2. if_id' \in FetchLatch /\ id_ex' \in FetchLatch
  BY FetchType DEF Shape, TypeOK
<1>3. /\ stage' = "INT" /\ regs' = regs
      /\ FlowOf(code, pc, if_id, id_ex)' <=> FlowOf(code, pc', if_id', id_ex')
  BY DEF Fetch, FetchHeld, FetchPair, FetchSingle, FetchTrap, FetchTrapLast, FetchNothing,
         regFile
<1>4. CASE FetchHeld \/ FetchNothing
  BY <1>1, <1>3, <1>4 DEF FetchHeld, FetchNothing, Order, latches
<1>5. CASE FetchPair
  <2> DEFINE new == Fetched(pc, code[pc], code[pc + 1])
  <2>1. new.pc = pc /\ new.lane[0] = code[pc] /\ new.lane[1] = code[pc + 1]
    BY FetchedLanes
  <2>2. if_id' = new /\ id_ex' = id_ex /\ pc' = pc + 2 /\ ~Valid(if_id.lane[0])
    BY <1>5 DEF FetchPair, FetchReady, Lanes
  <2>3. pc \in CodeAddrs /\ pc + 1 \in CodeAddrs
    BY <1>5, CodeType DEF FetchPair, Shape
  <2> HIDE DEF new
  <2>4. Count(new) = 2
    BY <1>1, <2>1, <2>3 DEF Count
  <2>5. FlowOf(code, pc', if_id', id_ex')
    BY <1>1, <1>2, <2>1, <2>2, <2>3, <2>4, FlowLanes
  <2> QED BY <1>3, <2>5 DEF Order
<1>6. CASE FetchSingle
  <2> DEFINE new == Fetched(pc, code[pc], Bubble)
  <2>1. new.pc = pc /\ new.lane[0] = code[pc] /\ new.lane[1] = Bubble
    BY FetchedLanes
  <2>2. if_id' = new /\ id_ex' = id_ex /\ pc' = pc + 1 /\ ~Valid(if_id.lane[0])
    BY <1>6 DEF FetchSingle, FetchReady, Lanes
  <2>3. pc \in CodeAddrs
    BY <1>6, CodeType DEF FetchSingle, Shape
  <2> HIDE DEF new
  <2>4. Count(new) = 1
    BY <2>1, BubbleInvalid DEF Count
  <2>5. FlowOf(code, pc', if_id', id_ex')
    BY <1>1, <1>2, <2>1, <2>2, <2>3, <2>4, BubbleInvalid, FlowLanes
  <2> QED BY <1>3, <2>5 DEF Order
<1>7. CASE FetchTrap
  BY <1>3, <1>7, FlowFlushed DEF FetchTrap, Flush, Order
<1>8. CASE FetchTrapLast
  <2> DEFINE c == HandleTrap(Context, pc, MCAUSE_INST_PAGE_FAULT, pc)
             new == Fetched(c.pc, ZeroWord, Bubble)
  <2>1. new.pc = c.pc /\ new.lane[0] = ZeroWord /\ new.lane[1] = Bubble
    BY FetchedLanes
  <2>2. if_id' = new /\ id_ex' = NoFetch /\ pc' = c.pc + 1
    BY <1>8 DEF FetchTrapLast
  <2> HIDE DEF new, c
  <2>3. Count(new) = 1
    BY <2>1, BubbleInvalid DEF Count
  <2>4. ~Valid(NoFetch.lane[0]) /\ ~Valid(NoFetch.lane[1]) /\ ~PredictedTaken(NoFetch.lane[0])
    BY BubbleInvalid, FetchedLanes DEF NoFetch, PredictedTaken, Bubble
  <2>5. FlowOf(code, pc', if_id', id_ex')
    BY <1>2, <2>1, <2>2, <2>3, <2>4, BubbleInvalid, FlowLanes
  <2> QED BY <1>3, <2>5 DEF Order
<1> QED BY <1>4, <1>5, <1>6, <1>7, <1>8 DEF Fetch

\* The order is an invariant, whatever goes wrong.
THEOREM OrderInvariant == Spec => [](Shape /\ Order)
<1>1. Init => Order
  BY InitOrder
<1>2. Shape /\ Order /\ [Next]_vars => Order'
  <2> SUFFICES ASSUME Shape, Order, [Next]_vars PROVE Order'
    OBVIOUS
  <2>1. UNCHANGED code
    BY CodeKept
  <2>2. CASE UNCHANGED vars
    BY <2>2 DEF Order, GoesOn, vars, latches, regFile
  <2> QED BY <2>1, <2>2, CheckOrder, WriteBackOrder, MemoryOrder, ExecutionOrder, IssueOrder,
             FetchOrder DEF Next, Halted
<1> QED BY <1>1, <1>2, ShapeInvariant, PTL DEF Spec

-----------------------------------------------------------------------------
(* The architectural state after a step                                    *)

\* What ArchIsMachine says of the next state.
LEMMA ArchAfter ==
  Shape' => Arch' = Machine(Live', Upcoming', DrainedMemWb', mem', Draining', ex_mem'.pc)
<1>1. Shape => Arch = Machine(Live, Upcoming, DrainedMemWb, mem, Draining, ex_mem.pc)
  BY ArchIsMachine
<1>2. (Shape => Arch = Machine(Live, Upcoming, DrainedMemWb, mem, Draining, ex_mem.pc))'
  BY <1>1, PTL
<1> QED BY <1>2

\* The oldest instruction that has not been executed: where ID/EX starts, else
\* IF/ID, else the fetch pc.
LEMMA NextPcIs ==
  NextPc = IF stage # "ID" /\ Valid(id_ex.lane[0]) THEN id_ex.pc
           ELSE IF Valid(if_id.lane[0]) THEN if_id.pc ELSE pc
BY DEF NextPc

\* A step that touches neither the older latches nor the register file.
LEMMA ArchKept ==
  ASSUME Shape, Shape', UNCHANGED <<running, ex_mem, mem_wb, csr, prv, regs, mem>>,
         Draining' = Draining, NextPc' = NextPc
  PROVE  Arch' = Arch
<1>1. Live' = Live
  BY DEF Live, WrittenBackHalts
<1>2. DrainedMemWb' = DrainedMemWb
  BY DEF DrainedMemWb
<1>3. Upcoming' = Upcoming
  BY DEF Upcoming, Context
<1> QED BY <1>1, <1>2, <1>3, ArchIsMachine, ArchAfter

\* Once the machine has stopped there is no next instruction.
LEMMA StoppedKept ==
  ASSUME ArchStop, UNCHANGED <<running, mem_wb, csr, prv, regs, mem>>, Draining' = Draining
  PROVE  Arch' = Arch
<1>1. /\ UNCHANGED <<WrittenBackHalts, DrainedMemWb>>
      /\ \A l \in Lanes : Ends(l)' = Ends(l) /\ Faults(l)' = Faults(l)
  BY DEF WrittenBackHalts, DrainedMemWb, Ends, Faults, DrainOutcome
<1>2. \A l \in Lanes : Completes(l)' = Completes(l) /\ Drains(l)' = Drains(l)
  BY <1>1 DEF Completes, Drains, Lanes
<1>3. UNCHANGED <<ArchStop, ArchRegs, ArchMem>>
  BY <1>1, <1>2 DEF ArchStop, ArchRegs, ArchMem, DrainLane, StoreLane, Lanes
<1> QED BY <1>3 DEF Arch

\* Issuing and fetching move instructions from one forgotten latch to another.
LEMMA IssueNextPc ==
  ASSUME Shape, Issue, Valid(id_ex.lane[0]) => Valid(if_id.lane[0])
  PROVE  NextPc' = NextPc
<1>1. stage = "ID" /\ stage' = "IF"
  BY DEF Issue, DecodeNothing, DecodeStall, IssuePredicted, IssuePair, IssueSingle, DecodeReady
<1>2. NextPc = IF Valid(if_id.lane[0]) THEN if_id.pc ELSE pc
  BY <1>1, NextPcIs
<1>3. NextPc' = IF Valid(id_ex'.lane[0]) THEN id_ex'.pc
                ELSE IF Valid(if_id'.lane[0]) THEN if_id'.pc ELSE pc'
  BY <1>1 DEF NextPc
<1>4. id_ex \in FetchLatch
  BY DEF Shape, TypeOK
<1>5. CASE DecodeNothing
  <2>1. ~Valid(id_ex.lane[0])
    BY <1>5 DEF DecodeNothing
  <2>2. pc' = pc
    BY <1>5, <2>1 DEF DecodeNothing, Predict, PredictedTaken, Valid
  <2> QED BY <1>2, <1>3, <1>5, <2>1, <2>2 DEF DecodeNothing, latches
<1>6. CASE DecodeStall
  BY <1>2, <1>3, <1>4, <1>6, FetchedLanes DEF DecodeStall
<1>7. CASE IssuePredicted \/ IssueSingle
  <2>1. id_ex' = Fetched(if_id.pc, if_id.lane[0], Bubble) /\ Valid(if_id.lane[0])
    BY <1>7 DEF IssuePredicted, IssueSingle, DecodeReady
  <2> QED BY <1>2, <1>3, <2>1, FetchedLanes
<1>8. CASE IssuePair
  BY <1>2, <1>3, <1>8 DEF IssuePair, DecodeReady
<1> QED BY <1>5, <1>6, <1>7, <1>8 DEF Issue

\* So does fetch, unless it faults.
LEMMA FetchNextPc ==
  ASSUME Shape, FetchHeld \/ FetchPair \/ FetchSingle \/ FetchNothing
  PROVE  NextPc' = NextPc
<1>1. UNCHANGED id_ex /\ stage = "IF" /\ stage' = "INT"
  BY DEF FetchHeld, FetchPair, FetchSingle, FetchNothing, FetchReady, latches
<1>2. NextPc = IF Valid(id_ex.lane[0]) THEN id_ex.pc
               ELSE IF Valid(if_id.lane[0]) THEN if_id.pc ELSE pc
  BY <1>1, NextPcIs
<1>3. NextPc' = IF Valid(id_ex.lane[0]) THEN id_ex.pc
                ELSE IF Valid(if_id'.lane[0]) THEN if_id'.pc ELSE pc'
  BY <1>1 DEF NextPc
<1>4. \A a \in CodeAddrs : Valid(code[a])
  BY ProgramType DEF Shape
<1>5. CASE FetchHeld \/ FetchNothing
  BY <1>2, <1>3, <1>5 DEF FetchHeld, FetchNothing, latches
<1>6. CASE FetchPair \/ FetchSingle
  <2>1. /\ ~Valid(if_id.lane[0]) /\ pc \in CodeAddrs
        /\ if_id'.pc = pc /\ if_id'.lane[0] = code[pc]
    BY <1>6, CodeType, FetchedLanes DEF FetchPair, FetchSingle, FetchReady, Lanes, Shape
  <2> QED BY <1>2, <1>3, <1>4, <2>1
<1> QED BY <1>5, <1>6

\* So neither can be seen, unless fetch faults.
LEMMA IssueKeeps ==
  ASSUME Shape, Shape', NothingRunsTwice, Issue
  PROVE  Arch' = Arch
<1>1. /\ UNCHANGED <<running, ex_mem, mem_wb, csr, prv, regs, mem>>
      /\ stage = "ID" /\ stage' = "IF"
  BY DEF Issue, DecodeNothing, DecodeStall, IssuePredicted, IssuePair, IssueSingle, DecodeReady,
         latches, regFile
<1>2. Draining' = Draining
  BY <1>1 DEF Draining
<1>3. CASE ArchStop
  BY <1>1, <1>2, <1>3, StoppedKept
<1>4. CASE ~ArchStop
  BY <1>1, <1>2, <1>4, IssueNextPc, ArchKept DEF NothingRunsTwice
<1> QED BY <1>3, <1>4

LEMMA FetchKeeps ==
  ASSUME Shape, Shape', FetchHeld \/ FetchPair \/ FetchSingle \/ FetchNothing
  PROVE  Arch' = Arch
<1>1. /\ UNCHANGED <<running, ex_mem, mem_wb, csr, prv, regs, mem>>
      /\ stage = "IF" /\ stage' = "INT"
  BY DEF FetchHeld, FetchPair, FetchSingle, FetchNothing, FetchReady, latches, regFile
<1>2. Draining' = Draining
  BY <1>1 DEF Draining
<1> QED BY <1>1, <1>2, FetchNextPc, ArchKept

\* Write-back was already counted.
LEMMA WriteBackKeeps ==
  ASSUME Shape, Shape', Order, Order', NothingBehindHalt, WriteBack
  PROVE  Arch' = Arch
<1>1. /\ UNCHANGED <<ex_mem, mem_wb, csr, prv, mem, pc, if_id, id_ex>>
      /\ stage = "WB" /\ stage' = "MEM" /\ running /\ running' = GoesOn(mem_wb)
      /\ regs' = SetReg(SetReg(regs, mem_wb[0]), mem_wb[1])
  BY DEF WriteBack, latches, Order
<1>2. Draining' = Draining /\ Upcoming' = Upcoming
  BY <1>1 DEF Draining, Upcoming, Context, NextPc
<1>3. Live' = Live
  BY <1>1 DEF Live, WrittenBackHalts, GoesOn
<1>4. SetReg(SetReg(regs', mem_wb[0]), mem_wb[1]) = regs'
  BY <1>1 DEF Order
<1>5. regs \in [Reg -> Word] /\ mem_wb[0] \in Slots /\ mem_wb[1] \in Slots
  BY DEF Shape, TypeOK, Lanes
<1>6. DrainedMemWb' = DrainedMemWb
  <2>1. CASE IsHalting(mem_wb[0].instr)
    <3>1. regs' = SetReg(regs, mem_wb[0])
      BY <1>1, <2>1 DEF NothingBehindHalt, WritesReg, SetReg
    <3>2. ~running'
      BY <1>1, <2>1 DEF GoesOn, Lanes
    <3> QED BY <1>1, <2>1, <3>1, <3>2 DEF DrainedMemWb
  <2>2. CASE ~IsHalting(mem_wb[0].instr)
    BY <1>1, <1>4, <2>2 DEF DrainedMemWb
  <2> QED BY <2>1, <2>2
<1> QED BY <1>1, <1>2, <1>3, <1>6, ArchIsMachine, ArchAfter

-----------------------------------------------------------------------------
(* The memory stage                                                        *)

\* With nothing left to drain.
Settled(live, c, file, m) == IF live THEN Going(c, file, m) ELSE Finished(file, m)

LEMMA DrainedLanes ==
  \A live, c, file, m, a :
    Machine(live, c, file, m, NoResults.lane, a) = Settled(live, c, file, m)
<1>1. NoResults.lane[0] = Empty /\ NoResults.lane[1] = Empty
  BY DEF NoResults, Lanes
<1>2. ~Valid(Empty.instr)
  BY BubbleInvalid
<1> QED BY <1>1, <1>2, EmptySlot DEF Machine, Both, One, Settled

\* Before memoryAccess the register file has MEM/WB, and EX/MEM drains.
LEMMA AtMemory ==
  ASSUME Shape, Order, stage = "MEM"
  PROVE  /\ Arch = Machine(running, Upcoming, regs, mem, ex_mem.lane, ex_mem.pc)
         /\ ex_mem.lane \in [Lanes -> Slots] /\ WellPaired(Instrs(ex_mem.lane))
         /\ \A l \in Lanes : OutcomeIn(Upcoming, ex_mem.lane[l]) = Outcome(l)
         /\ DrainedMemWb = regs /\ Draining = ex_mem.lane
<1>1. Draining = ex_mem.lane
  BY DEF Draining
<1>2. ~WrittenBackHalts
  BY DEF Order, GoesOn, WrittenBackHalts
<1>3. Live = running
  BY <1>2 DEF Live, Shape, TypeOK
<1>4. DrainedMemWb = regs
  BY <1>2 DEF DrainedMemWb, WrittenBackHalts, Order, Lanes
<1>5. \A l \in Lanes : OutcomeIn(Upcoming, ex_mem.lane[l]) = Outcome(l)
  BY UpcomingFields DEF OutcomeIn, Outcome
<1> QED BY <1>1, <1>3, <1>4, <1>5, ArchIsMachine, DrainingShape

\* Before execute there is only MEM/WB, to be written back.
WrittenBack(file, slots) ==
  IF IsHalting(slots[0].instr) THEN SetReg(file, slots[0])
                               ELSE SetReg(SetReg(file, slots[0]), slots[1])

\* After the memory stage only MEM/WB has to drain.
LEMMA AfterMemory ==
  ASSUME Shape', stage' = "EX"
  PROVE  Arch' = Settled(running' /\ GoesOn(mem_wb'), Upcoming',
                         IF running' THEN WrittenBack(regs', mem_wb') ELSE regs', mem')
<1>1. Draining' = NoResults.lane
  BY DEF Draining
<1>2. Live' = (running' /\ GoesOn(mem_wb'))
  BY DEF Live, WrittenBackHalts, GoesOn
<1>3. DrainedMemWb' = IF running' THEN WrittenBack(regs', mem_wb') ELSE regs'
  BY DEF DrainedMemWb, WrittenBack
<1> QED BY <1>1, <1>2, <1>3, ArchAfter, DrainedLanes

\* Memory instructions and the others.
LEMMA Kinds ==
  \A e : /\ IsHalting(e.instr) => /\ ~IsMemory(e.instr) /\ ~RegWrite(e.instr)
                                  /\ \A c : OutcomeIn(c, e) = "done"
                                  /\ \A m : Stored(m, e) = m /\ Loaded(m, e) = e
                                  /\ \A file : SetReg(file, e) = file
         /\ ~IsMemory(e.instr) => /\ \A m : Stored(m, e) = m /\ Loaded(m, e) = e
                                  /\ \A c : OutcomeIn(c, e) = "done"
BY DEF IsHalting, IsMemory, IsLoad, IsStore, RegWrite, OutcomeIn, Stored, Loaded, SetReg

\* The accesses the memory stage makes are those that drained before it.
LEMMA MemoryAccessKeeps ==
  ASSUME Shape, Shape', Order, NothingBehindHalt, MemoryAccess
  PROVE  Arch' = Arch
<1> DEFINE d == ex_mem.lane
           l0 == Loaded(mem, d[0])
           l1 == Loaded(mem, d[1])
           m0 == Stored(mem, d[0])
           c == Upcoming
<1>1. /\ stage = "MEM" /\ stage' = "EX" /\ UNCHANGED <<running, regs>>
      /\ d \in [Lanes -> Slots] /\ d[0] \in Slots /\ d[1] \in Slots
      /\ OutcomeIn(c, d[0]) = "done" /\ OutcomeIn(c, d[1]) = "done"
      /\ Arch = Machine(running, c, regs, mem, d, ex_mem.pc)
  BY AtMemory DEF MemoryAccess, regFile, Lanes
<1>2. c' = c
  BY DEF MemoryAccess, Upcoming, Context, NextPc, regFile
<1>3. Loaded(m0, d[1]) = l1
  BY <1>1, AtMemory, OneAccess
<1>4. mem_wb'[0] = l0 /\ mem_wb'[1] = l1 /\ mem' = Stored(m0, d[1])
  BY <1>3 DEF MemoryAccess, MemAfter, Lanes
<1>5. l0.instr = d[0].instr /\ l1.instr = d[1].instr
  BY <1>1, LoadedInstr
<1>6. GoesOn(mem_wb') <=> ~IsHalting(d[0].instr) /\ ~IsHalting(d[1].instr)
  BY <1>4, <1>5 DEF GoesOn, Lanes
<1>7. Arch' = Settled(running /\ GoesOn(mem_wb'), c,
                      IF running THEN WrittenBack(regs, mem_wb') ELSE regs, mem')
  BY <1>1, <1>2, AfterMemory
<1>8. /\ IsStore(d[0].instr) => running
      /\ IsStore(d[1].instr) => running /\ ~IsHalting(d[0].instr)
  BY <1>1 DEF NothingBehindHalt, Lanes
<1> HIDE DEF d, l0, l1, m0, c
<1>9. CASE ~running
  <2>1. mem' = mem
    BY <1>4, <1>8, <1>9 DEF Stored, m0
  <2> QED BY <1>1, <1>7, <1>9, <2>1 DEF Machine, Settled
<1>10. CASE running /\ IsHalting(d[0].instr)
  <2>1. mem' = mem
    BY <1>4, <1>8, <1>10, Kinds DEF m0, Stored
  <2>2. WrittenBack(regs, mem_wb') = regs
    BY <1>4, <1>10, Kinds DEF WrittenBack, l0
  <2> QED BY <1>1, <1>6, <1>7, <1>10, <2>1, <2>2 DEF Machine, Both, One, EndsIn, Settled
<1>11. CASE running /\ ~IsHalting(d[0].instr)
  <2>1. WrittenBack(regs, mem_wb') = SetReg(SetReg(regs, l0), l1)
    BY <1>4, <1>5, <1>11 DEF WrittenBack
  <2>2. Arch = One(c, SetReg(regs, l0), m0, d[1], ex_mem.pc + 1)
    BY <1>1, <1>11 DEF Machine, Both, EndsIn, FaultsIn, l0, m0
  <2>3. CASE IsHalting(d[1].instr)
    <3>1. SetReg(SetReg(regs, l0), l1) = SetReg(regs, l0) /\ mem' = m0
      BY <1>4, <2>3, Kinds DEF l1
    <3> QED BY <1>6, <1>7, <1>11, <2>1, <2>2, <2>3, <3>1 DEF One, EndsIn, Settled
  <2>4. CASE ~IsHalting(d[1].instr)
    BY <1>1, <1>3, <1>4, <1>6, <1>7, <1>11, <2>1, <2>2, <2>4 DEF One, EndsIn, FaultsIn, Settled
  <2> QED BY <2>3, <2>4
<1> QED BY <1>9, <1>10, <1>11

\* The end of the process leaves the latches as they were.
LEMMA MemoryAbortKeeps ==
  ASSUME Shape, Shape', Order, NEW l \in Lanes, MemoryAbort(l)
  PROVE  Arch' = Arch
<1>1. /\ stage = "MEM" /\ stage' = "EXITED" /\ mem' = MemAfter(l)
      /\ UNCHANGED <<running, pc, if_id, id_ex, ex_mem, mem_wb, regs, csr, prv>>
  BY DEF MemoryAbort, latches, regFile
<1>2. mem' = mem
  <2>1. CASE l = 0
    BY <1>1, <2>1 DEF MemAfter
  <2>2. CASE l = 1
    <3>1. IsMemory(ex_mem.lane[1].instr)
      BY <2>2 DEF MemoryAbort, Outcome
    <3>2. ~IsMemory(ex_mem.lane[0].instr)
      BY <1>1, <3>1, AtMemory, OneAccess
    <3> QED BY <1>1, <2>2, <3>2, Kinds DEF MemAfter
  <2> QED BY <2>1, <2>2 DEF Lanes
<1>3. Draining' = Draining
  BY <1>1 DEF Draining
<1>4. NextPc' = NextPc
  BY <1>1 DEF NextPc
<1> QED BY <1>1, <1>2, <1>3, <1>4, ArchKept

\* An empty latch.
LEMMA NothingFetched == ~Valid(NoFetch.lane[0]) /\ ~Valid(NoFetch.lane[1])
BY BubbleInvalid, FetchedLanes DEF NoFetch

\* A trap comes after the older slot and without the one at fault.
LEMMA MemoryTrapKeeps ==
  ASSUME Shape, Shape', Order, FaultWritesNothing, NothingBehindHalt,
         NEW l \in Lanes, MemoryTrap(l)
  PROVE  Arch' = Arch
<1> DEFINE d == ex_mem.lane
           c == Upcoming
           t == HandleTrap(Context, ex_mem.pc + l, AccessCause(d[l].instr, Outcome(l)), d[l].result)
<1>1. /\ stage = "MEM" /\ stage' = "EX" /\ UNCHANGED <<running, regs>>
      /\ d \in [Lanes -> Slots] /\ d[0] \in Slots /\ d[1] \in Slots /\ d[l] \in Slots
      /\ \A k \in Lanes : OutcomeIn(c, d[k]) = Outcome(k)
      /\ Arch = Machine(running, c, regs, mem, d, ex_mem.pc)
      /\ Reached(l) /\ Outcome(l) \in {"misaligned", "page fault"}
      /\ csr' = t.csr /\ prv' = t.prv /\ pc' = t.pc /\ mem' = MemAfter(l)
  BY AtMemory DEF MemoryTrap, Lanes, Enter, FaultPc
<1>2. NextPc' = pc'
  <2>1. ~Valid(id_ex'.lane[0]) /\ ~Valid(if_id'.lane[0])
    BY NothingFetched DEF MemoryTrap, Flush
  <2> QED BY <2>1 DEF NextPc
<1>3. Upcoming'.csr = t.csr /\ Upcoming'.prv = t.prv /\ Upcoming'.pc = t.pc
  BY <1>1, <1>2 DEF Upcoming, Context
<1>4. TrapIn(c, d[l], ex_mem.pc + l) = t
  <2>1. OutcomeIn(c, d[l]) = Outcome(l)
    BY <1>1
  <2>2. c.csr = Context.csr /\ c.prv = Context.prv
    BY UpcomingFields DEF Context
  <2>3. \A a, cause, tval : HandleTrap(c, a, cause, tval) = HandleTrap(Context, a, cause, tval)
    BY <2>2, TrapIgnoresPc
  <2> QED BY <2>1, <2>3 DEF TrapIn
<1>5. EndsIn(c, d[l]) = FALSE /\ FaultsIn(c, d[l]) = TRUE /\ ~IsHalting(d[l].instr)
  BY <1>1, Kinds DEF EndsIn, FaultsIn
<1>6. SetReg(regs, d[l]) = regs /\ \A file : SetReg(file, d[l]) = file
  <2>1. Faults(l)
    BY <1>1, <1>5, LanesInTurn, AtMemory
  <2>2. ~WritesReg(d[l].instr)
    BY <1>1, <2>1 DEF FaultWritesNothing
  <2> QED BY <2>2 DEF WritesReg, SetReg
<1>7. Arch' = Settled(running /\ GoesOn(mem_wb'), Upcoming',
                      IF running THEN WrittenBack(regs, mem_wb') ELSE regs, mem')
  BY <1>1, AfterMemory
<1>8. stage = "MEM" /\ mem' = MemAfter(l) /\ Reached(l)
  BY DEF MemoryTrap
<1> DEFINE Left(k) == CASE k < l -> Loaded(mem, d[k])
                        [] k = l -> d[k]
                        [] OTHER -> Empty
<1>9. mem_wb'[0] = Left(0) /\ mem_wb'[1] = Left(1)
  <2>1. mem_wb' = [k \in Lanes |-> Left(k)]
    BY DEF MemoryTrap
  <2> HIDE DEF Left
  <2> QED BY <2>1 DEF Lanes
<1> HIDE DEF c, t, d
<1>10. CASE l = 0
  <2>1. mem_wb'[0] = d[0] /\ mem_wb'[1] = Empty /\ mem' = mem
    BY <1>9, <1>10, <1>8 DEF MemAfter
  <2>2. GoesOn(mem_wb') /\ WrittenBack(regs, mem_wb') = regs
    BY <1>5, <1>6, <1>10, <2>1, BubbleInvalid, EmptySlot DEF GoesOn, WrittenBack, Lanes
  <2>3. Arch = IF running THEN Going(t, regs, mem) ELSE Finished(regs, mem)
    <3>1. ex_mem.pc + 0 = ex_mem.pc
      BY DEF Shape, TypeOK, ResultLatch
    <3> QED BY <1>1, <1>4, <1>5, <1>10, <3>1 DEF Machine, Both, One
  <2> QED BY <1>3, <1>7, <2>1, <2>2, <2>3 DEF Settled, Going
<1>11. CASE l = 1
  <2>1. mem_wb'[0] = Loaded(mem, d[0]) /\ mem_wb'[1] = d[1] /\ mem' = Stored(mem, d[0])
    BY <1>9, <1>11, <1>8 DEF MemAfter, d
  <2>2. mem_wb'[0].instr = d[0].instr
    BY <1>1, <2>1, LoadedInstr
  <2>3. OutcomeIn(c, d[0]) = "done"
    <3>1. Outcome(0) = "done"
      BY <1>11, <1>8 DEF Reached, Lanes
    <3> QED BY <1>1, <3>1 DEF Lanes
  <2>4. GoesOn(mem_wb') <=> ~IsHalting(d[0].instr)
    BY <1>5, <1>11, <2>1, <2>2 DEF GoesOn, Lanes
  <2>5. WrittenBack(regs, mem_wb') = SetReg(regs, Loaded(mem, d[0]))
    BY <1>6, <1>11, <2>1, <2>2 DEF WrittenBack
  <2>6. CASE ~running
    <3>1. ~IsStore(d[0].instr)
      BY <1>8, <2>6 DEF NothingBehindHalt, Lanes, d
    <3> QED BY <1>1, <1>7, <2>1, <2>6, <3>1 DEF Machine, Settled, Stored
  <2>7. CASE running /\ IsHalting(d[0].instr)
    BY <1>1, <1>7, <2>1, <2>4, <2>5, <2>7, Kinds DEF Machine, Both, One, EndsIn, Settled
  <2>8. CASE running /\ ~IsHalting(d[0].instr)
    <3>1. Arch = One(c, SetReg(regs, Loaded(mem, d[0])), Stored(mem, d[0]), d[1], ex_mem.pc + 1)
      BY <1>1, <2>3, <2>8 DEF Machine, Both, EndsIn, FaultsIn
    <3>2. Arch = Going(t, SetReg(regs, Loaded(mem, d[0])), Stored(mem, d[0]))
      BY <1>4, <1>5, <1>11, <3>1 DEF One
    <3> QED BY <1>3, <1>7, <2>1, <2>4, <2>5, <2>8, <3>2 DEF Settled, Going
  <2> QED BY <2>6, <2>7, <2>8
<1> QED BY <1>10, <1>11 DEF Lanes

-----------------------------------------------------------------------------
(* The interrupt check                                                     *)

\* The context after the timer has been sampled.
Tick(k, level) == [csr |-> HwSetMtip(k.csr, level), prv |-> k.prv, pc |-> k.pc]

\* Registers that are written independently.
LEMMA IndependentWrites ==
  ASSUME NEW f \in CsrFile, NEW p, NEW x, NEW e, NEW q, NEW t
  PROVE  /\ [[[[f EXCEPT !.mip = p] EXCEPT !.mstatus = x] EXCEPT !.sepc = e, !.scause = q]
              EXCEPT !.stval = t]
            = [[[[f EXCEPT !.mstatus = x] EXCEPT !.sepc = e, !.scause = q]
                 EXCEPT !.stval = t] EXCEPT !.mip = p]
         /\ [[[f EXCEPT !.mip = p] EXCEPT !.mstatus = x, !.mepc = e, !.mcause = q]
              EXCEPT !.mtval = t]
            = [[[f EXCEPT !.mstatus = x, !.mepc = e, !.mcause = q]
                 EXCEPT !.mtval = t] EXCEPT !.mip = p]
BY DEF CsrFile

\* What HwSetMtip leaves alone.
LEMMA TickedCsr ==
  ASSUME NEW f \in CsrFile, NEW level \in BOOLEAN
  PROVE  /\ HwSetMtip(f, level) = [f EXCEPT !.mip = HwSetMtip(f, level).mip]
         /\ HwSetMtip(f, level) \in CsrFile
         /\ \A name \in {"mstatus", "mie", "medeleg", "mideleg", "mtvec", "stvec", "satp"} :
              HwSetMtip(f, level)[name] = f[name]
         /\ \A g \in CsrFile : g.mip = f.mip => HwSetMtip(g, level).mip = HwSetMtip(f, level).mip
<1> DEFINE p == IF level THEN f.mip \cup MIP_MTIP ELSE f.mip \ MIP_MTIP
<1>1. HwSetMtip(f, level) = [f EXCEPT !.mip = p]
  BY DEF HwSetMtip
<1>2. p \in Bits
  BY DEF CsrFile, Bits, MIP_MTIP
<1> HIDE DEF p
<1>3. [f EXCEPT !.mip = p] \in CsrFile /\ [f EXCEPT !.mip = p].mip = p
  BY <1>2 DEF CsrFile
<1>4. \A name \in {"mstatus", "mie", "medeleg", "mideleg", "mtvec", "stvec", "satp"} :
        [f EXCEPT !.mip = p][name] = f[name]
  BY DEF CsrFile
<1>5. ASSUME NEW g \in CsrFile, g.mip = f.mip
      PROVE  HwSetMtip(g, level).mip = p
  BY <1>5 DEF HwSetMtip, p, CsrFile
<1> QED BY <1>1, <1>3, <1>4, <1>5

\* Sampling the timer and entering a trap commute.
LEMMA TickCommutes ==
  ASSUME NEW c \in AnyContext, NEW d, NEW level \in BOOLEAN,
         d.csr = HwSetMtip(c.csr, level), d.prv = c.prv,
         NEW a \in Int, NEW cause \in Causes, NEW tval \in Int
  PROVE  HandleTrap(d, a, cause, tval) = Tick(HandleTrap(c, a, cause, tval), level)
<1> DEFINE f == c.csr
           g == d.csr
           p == HwSetMtip(f, level).mip
<1>1. /\ f \in CsrFile /\ g = [f EXCEPT !.mip = p] /\ g \in CsrFile
      /\ g.mstatus = f.mstatus /\ g.medeleg = f.medeleg /\ g.mtvec = f.mtvec /\ g.stvec = f.stvec
  BY TickedCsr DEF AnyContext
<1>2. TrapDelegated(d, cause) = TrapDelegated(c, cause)
  BY <1>1 DEF TrapDelegated, ExceptionDelegated
<1>3. CASE TrapDelegated(c, cause)
  <2> DEFINE new == SupervisorEntryStatus(ReadCsr(f, "sstatus"), c.prv)
             x == Merge(f.mstatus, new, SSTATUS_MASK)
             w(h) == [[[h EXCEPT !.mstatus = x] EXCEPT !.sepc = a, !.scause = cause]
                       EXCEPT !.stval = tval]
  <2>1. SupervisorEntryStatus(ReadCsr(g, "sstatus"), d.prv) = new
    BY <1>1 DEF ReadCsr
  <2>2. /\ WriteCsr(f, "sstatus", new) = [f EXCEPT !.mstatus = x]
        /\ WriteCsr(g, "sstatus", new) = [g EXCEPT !.mstatus = x]
    BY <1>1 DEF WriteCsr
  <2> HIDE DEF new, x, f, g, p
  <2>3. HandleTrap(c, a, cause, tval) = [csr |-> w(f), prv |-> PRV_S, pc |-> f.stvec]
    BY <1>3, <2>2 DEF HandleTrap, EnterSupervisor, f, new
  <2>4. HandleTrap(d, a, cause, tval) = [csr |-> w(g), prv |-> PRV_S, pc |-> g.stvec]
    BY <1>2, <1>3, <2>1, <2>2 DEF HandleTrap, EnterSupervisor, g
  <2>5. w(g) = [w(f) EXCEPT !.mip = p]
    BY <1>1, IndependentWrites
  <2>6. w(f).mip = f.mip
    BY <1>1 DEF CsrFile
  <2>7. HwSetMtip(w(f), level) = [w(f) EXCEPT !.mip = p]
    BY <2>6 DEF HwSetMtip, p, f
  <2> QED BY <1>1, <2>3, <2>4, <2>5, <2>7 DEF Tick
<1>4. CASE ~TrapDelegated(c, cause)
  <2> DEFINE x == MachineEntryStatus(f.mstatus, c.prv)
             w(h) == [[h EXCEPT !.mstatus = x, !.mepc = a, !.mcause = cause]
                       EXCEPT !.mtval = tval]
  <2> HIDE DEF x, f, g, p
  <2>3. HandleTrap(c, a, cause, tval) = [csr |-> w(f), prv |-> PRV_M, pc |-> f.mtvec]
    BY <1>4 DEF HandleTrap, EnterMachine, f, x
  <2>4. HandleTrap(d, a, cause, tval) = [csr |-> w(g), prv |-> PRV_M, pc |-> g.mtvec]
    BY <1>1, <1>2, <1>4 DEF HandleTrap, EnterMachine, g, x
  <2>5. w(g) = [w(f) EXCEPT !.mip = p]
    BY <1>1, IndependentWrites
  <2>6. w(f).mip = f.mip
    BY <1>1 DEF CsrFile
  <2>7. HwSetMtip(w(f), level) = [w(f) EXCEPT !.mip = p]
    BY <2>6 DEF HwSetMtip, p, f
  <2> QED BY <1>1, <2>3, <2>4, <2>5, <2>7 DEF Tick
<1> QED BY <1>3, <1>4

\* No interrupt is due right after a trap.
LEMMA TrapMasksInterrupts ==
  ASSUME NEW c \in AnyContext, NEW level \in BOOLEAN,
         NEW a \in Int, NEW cause \in Causes, NEW tval \in Int
  PROVE  ~InterruptDue(Tick(HandleTrap(c, a, cause, tval), level))
<1> DEFINE f == c.csr
           k == HandleTrap(c, a, cause, tval)
<1>1. f \in CsrFile /\ c.prv \subseteq {0, 1}
  BY DEF AnyContext
<1>2. k \in AnyContext
  BY HandleTrapType
<1>3. CASE TrapDelegated(c, cause)
  <2> DEFINE new == SupervisorEntryStatus(ReadCsr(f, "sstatus"), c.prv)
             x == Merge(f.mstatus, new, SSTATUS_MASK)
  <2>1. 1 \notin new
    BY <1>1 DEF SupervisorEntryStatus, ShiftLeft, MSTATUS_SPIE
  <2>2. 1 \notin x
    BY <2>1 DEF Merge, SSTATUS_MASK, MSTATUS_SIE
  <2>3. WriteCsr(f, "sstatus", new) = [f EXCEPT !.mstatus = x]
    BY DEF WriteCsr
  <2> HIDE DEF new, x, f
  <2>4. k.prv = PRV_S /\ k.csr.mstatus = x
    BY <1>1, <1>3, <2>3 DEF HandleTrap, EnterSupervisor, f, new, CsrFile
  <2> HIDE DEF k
  <2>5. Tick(k, level).prv # PRV_M /\ Tick(k, level).csr.mstatus = x
    <3>1. HwSetMtip(k.csr, level).mstatus = k.csr.mstatus
      BY <1>2, TickedCsr DEF AnyContext
    <3> QED BY <2>4, <3>1 DEF Tick, PRV_S, PRV_M
  <2>6. ~(MSTATUS_SIE \subseteq x)
    BY <2>2 DEF MSTATUS_SIE
  <2> QED BY <2>5, <2>6 DEF InterruptDue, GlobalInterruptEnable, k
<1>4. CASE ~TrapDelegated(c, cause)
  <2> DEFINE x == MachineEntryStatus(f.mstatus, c.prv)
  <2>1. 3 \notin x
    BY <1>1 DEF MachineEntryStatus, ShiftLeft, MSTATUS_MPIE, MSTATUS_MIE
  <2> HIDE DEF x, f
  <2>2. k.prv = PRV_M /\ k.csr.mstatus = x
    BY <1>1, <1>4 DEF HandleTrap, EnterMachine, f, x, CsrFile
  <2> QED BY <1>2, <2>1, <2>2, TickedCsr
          DEF InterruptDue, GlobalInterruptEnable, Tick, MSTATUS_MIE, AnyContext
<1> QED BY <1>3, <1>4

\* Whether an interrupt is due does not depend on the fetch pc, nor does what
\* an access does depend on anything but satp and the privilege.
LEMMA DueIgnoresPc ==
  ASSUME NEW c, NEW d, c.csr = d.csr, c.prv = d.prv
  PROVE  InterruptDue(c) = InterruptDue(d)
BY DEF InterruptDue, GlobalInterruptEnable, PendingInterrupts

\* An access depends on the CSRs through satp alone.
LEMMA AccessBySatp ==
  ASSUME NEW f, NEW g, f.satp = g.satp
  PROVE  \A addr, p : Access(addr, f, p) = Access(addr, g, p)
BY DEF Access, TranslationOn

\* The machine that goes on, its fields, and the same in another context.
LEMMA GoingOn ==
  ASSUME NEW k, NEW f, NEW m
  PROVE  /\ Going(k, f, m).pc = k.pc /\ Going(k, f, m).csr = k.csr
         /\ Going(k, f, m).prv = k.prv /\ ~Going(k, f, m).stop
         /\ Going(k, f, m).regs = f /\ Going(k, f, m).mem = m
BY DEF Going

WithCsr(s, x)     == [s EXCEPT !.csr = x]
WithContext(s, t) == [s EXCEPT !.csr = t.csr, !.prv = t.prv, !.pc = t.pc]

\* (The CSR file, and the whole context.)
LEMMA OtherContext ==
  ASSUME NEW k, NEW t, NEW f, NEW m
  PROVE  /\ t.pc = k.pc /\ t.prv = k.prv => WithCsr(Going(k, f, m), t.csr) = Going(t, f, m)
         /\ WithContext(Going(k, f, m), t) = Going(t, f, m)
<1> DEFINE a == Going(k, f, m)
           b == Going(t, f, m)
<1>1. /\ a \in [pc : {k.pc, t.pc}, csr : {k.csr, t.csr}, prv : {k.prv, t.prv},
                stop : {FALSE}, regs : {f}, mem : {m}]
      /\ b \in [pc : {k.pc, t.pc}, csr : {k.csr, t.csr}, prv : {k.prv, t.prv},
                stop : {FALSE}, regs : {f}, mem : {m}]
  BY DEF Going
<1>2. /\ b.pc = t.pc /\ b.csr = t.csr /\ b.prv = t.prv
      /\ a.pc = k.pc /\ a.prv = k.prv
      /\ b.regs = a.regs /\ b.mem = a.mem
  BY DEF Going
<1>3. b.stop = a.stop
  BY <1>1
<1> HIDE DEF a, b
<1>4. [a EXCEPT !.csr = t.csr, !.prv = t.prv, !.pc = t.pc] = b
  BY <1>1, <1>2, <1>3
<1>5. t.pc = k.pc /\ t.prv = k.prv => [a EXCEPT !.csr = t.csr] = b
  BY <1>1, <1>2, <1>3
<1> QED BY <1>4, <1>5 DEF a, b, WithCsr, WithContext

\* The sequential machine samples the timer: nothing is due, or an interrupt is.
LEMMA Samples ==
  ASSUME NEW k, NEW f, NEW m, NEW level \in TimerLevels, Arch = Going(k, f, m),
         ~InterruptDue(Tick(k, level)), Arch' = Going(Tick(k, level), f, m)
  PROVE  Sequential!SampleTimer
<1> DEFINE s == [Arch EXCEPT !.csr = Sequential!HwSetMtip(Arch.csr, level)]
<1>1. s = Going(Tick(k, level), f, m)
  <2>1. Tick(k, level).pc = k.pc /\ Tick(k, level).prv = k.prv
        /\ Tick(k, level).csr = Sequential!HwSetMtip(k.csr, level)
    BY SamePending DEF Tick
  <2>2. Arch.csr = k.csr
    BY GoingOn
  <2>3. WithCsr(Going(k, f, m), Tick(k, level).csr) = Going(Tick(k, level), f, m)
    BY <2>1, OtherContext
  <2> QED BY <2>1, <2>2, <2>3 DEF WithCsr
<1>2. [csr |-> s.csr, prv |-> s.prv, pc |-> s.pc] = Tick(k, level)
  BY <1>1 DEF Going, Tick
<1>3. ~Arch.stop
  BY DEF Going
<1> HIDE DEF s
<1>4. ~Sequential!InterruptDue([csr |-> s.csr, prv |-> s.prv, pc |-> s.pc]) /\ Arch' = s
  BY <1>1, <1>2, SamePending
<1> QED BY <1>3, <1>4 DEF Sequential!SampleTimer, s

\* A due interrupt, taken with the right pc, is a sampling of the timer.
LEMMA Interrupts ==
  ASSUME NEW k, NEW f, NEW m, NEW level \in TimerLevels, Arch = Going(k, f, m),
         InterruptDue(Tick(k, level)),
         NEW epc \in IF PreciseInterrupts THEN {k.pc} ELSE 0 .. CodeSize,
         Arch' = Going(TakeInterrupt([Tick(k, level) EXCEPT !.pc = epc]), f, m)
  PROVE  Sequential!SampleTimer
<1> DEFINE s == [Arch EXCEPT !.csr = Sequential!HwSetMtip(Arch.csr, level)]
<1>1. s = Going(Tick(k, level), f, m)
  <2>1. Tick(k, level).pc = k.pc /\ Tick(k, level).prv = k.prv
        /\ Tick(k, level).csr = Sequential!HwSetMtip(k.csr, level)
    BY SamePending DEF Tick
  <2>2. Arch.csr = k.csr
    BY GoingOn
  <2>3. WithCsr(Going(k, f, m), Tick(k, level).csr) = Going(Tick(k, level), f, m)
    BY <2>1, OtherContext
  <2> QED BY <2>1, <2>2, <2>3 DEF WithCsr
<1>2. /\ [csr |-> s.csr, prv |-> s.prv, pc |-> s.pc] = Tick(k, level)
      /\ [csr |-> s.csr, prv |-> s.prv, pc |-> epc] = [Tick(k, level) EXCEPT !.pc = epc]
      /\ s.pc = k.pc
  BY <1>1 DEF Going, Tick
<1>3. ~Arch.stop
  BY DEF Going
<1>4. Sequential!Interrupted(s, epc)
        = Going(TakeInterrupt([Tick(k, level) EXCEPT !.pc = epc]), f, m)
  <2> DEFINE t == TakeInterrupt([Tick(k, level) EXCEPT !.pc = epc])
  <2>1. Sequential!TakeInterrupt([csr |-> s.csr, prv |-> s.prv, pc |-> epc]) = t
    BY <1>2, SameInterrupt
  <2> HIDE DEF s, t
  <2>2. Sequential!Interrupted(s, epc) = WithContext(s, t)
    BY <2>1 DEF Sequential!Interrupted, Sequential!Returned, WithContext
  <2>3. WithContext(s, t) = Going(t, f, m)
    BY <1>1, OtherContext
  <2> QED BY <2>2, <2>3 DEF t
<1> HIDE DEF s
<1>5. Sequential!InterruptDue([csr |-> s.csr, prv |-> s.prv, pc |-> s.pc])
  BY <1>2, SamePending
<1> QED BY <1>2, <1>3, <1>4, <1>5 DEF Sequential!SampleTimer, s

\* The context of what is upcoming.
LEMMA UpcomingIs ==
  /\ Upcoming = [csr |-> csr, prv |-> prv, pc |-> NextPc]
  /\ Shape => Upcoming \in AnyContext
<1>1. Upcoming = [csr |-> csr, prv |-> prv, pc |-> NextPc]
  BY DEF Upcoming, Context
<1>2. Shape => NextPc \in Int
  BY NextPcIs DEF Shape, TypeOK, FetchLatch
<1> QED BY <1>1, <1>2 DEF Shape, TypeOK, AnyContext

\* The slots of EX/MEM fare the same after the timer has been sampled.
LEMMA TickedSlot ==
  ASSUME NEW c \in AnyContext, NEW level \in BOOLEAN, NEW e \in Slots, NEW a \in Int
  PROVE  /\ OutcomeIn(Tick(c, level), e) = OutcomeIn(c, e)
         /\ TrapIn(Tick(c, level), e, a) = Tick(TrapIn(c, e, a), level)
         /\ ~InterruptDue(Tick(TrapIn(c, e, a), level))
<1> DEFINE t == Tick(c, level)
<1>1. t.csr = HwSetMtip(c.csr, level) /\ t.prv = c.prv /\ c.csr \in CsrFile
  BY DEF Tick, AnyContext
<1>2. OutcomeIn(t, e) = OutcomeIn(c, e)
  <2>1. t.csr.satp = c.csr.satp
    BY <1>1, TickedCsr
  <2> QED BY <1>1, <2>1, AccessBySatp DEF OutcomeIn
<1>3. e.result \in Int /\ AccessCause(e.instr, OutcomeIn(c, e)) \in Causes
  BY CauseTypes, SizesAssumption DEF Slots, Word
<1> HIDE DEF t
<1>4. TrapIn(t, e, a) = Tick(TrapIn(c, e, a), level)
  BY <1>1, <1>2, <1>3, TickCommutes DEF TrapIn
<1>5. ~InterruptDue(Tick(TrapIn(c, e, a), level))
  BY <1>3, TrapMasksInterrupts DEF TrapIn
<1> QED BY <1>2, <1>4, <1>5 DEF t

\* Sampling the timer before or after an instruction that drains is the same,
\* unless that instruction traps: then no interrupt is due either way.
LEMMA TickedOne ==
  ASSUME NEW c \in AnyContext, NEW level \in BOOLEAN, ~InterruptDue(Tick(c, level)),
         NEW e \in Slots, NEW a \in Int, NEW file, NEW m
  PROVE  \/ One(Tick(c, level), file, m, e, a) = One(c, file, m, e, a)
         \/ \E k, f, w : /\ One(c, file, m, e, a) = Going(k, f, w)
                         /\ One(Tick(c, level), file, m, e, a) = Going(Tick(k, level), f, w)
                         /\ ~InterruptDue(Tick(k, level))
<1> DEFINE t == Tick(c, level)
<1>1. /\ OutcomeIn(t, e) = OutcomeIn(c, e)
      /\ TrapIn(t, e, a) = Tick(TrapIn(c, e, a), level)
      /\ ~InterruptDue(Tick(TrapIn(c, e, a), level))
  BY TickedSlot
<1> HIDE DEF t
<1>2. EndsIn(t, e) = EndsIn(c, e) /\ FaultsIn(t, e) = FaultsIn(c, e)
  BY <1>1 DEF EndsIn, FaultsIn
<1>3. CASE EndsIn(c, e)
  BY <1>2, <1>3 DEF One, t
<1>4. CASE ~EndsIn(c, e) /\ FaultsIn(c, e)
  <2>1. /\ One(c, file, m, e, a) = Going(TrapIn(c, e, a), file, m)
        /\ One(t, file, m, e, a) = Going(Tick(TrapIn(c, e, a), level), file, m)
    BY <1>1, <1>2, <1>4 DEF One
  <2> QED BY <1>1, <2>1 DEF t
<1>5. CASE ~EndsIn(c, e) /\ ~FaultsIn(c, e)
  <2> DEFINE f == SetReg(file, Loaded(m, e))
             w == Stored(m, e)
  <2>1. One(c, file, m, e, a) = Going(c, f, w) /\ One(t, file, m, e, a) = Going(t, f, w)
    BY <1>2, <1>5 DEF One
  <2> QED BY <2>1 DEF t
<1> QED BY <1>3, <1>4, <1>5

\* A check that takes no interrupt samples the timer, in the trap handler if a
\* fault is on its way.
LEMMA NoInterruptSamples ==
  ASSUME Shape, Shape', NEW level \in TimerLevels, NoInterrupt(level)
  PROVE  Arch' = Arch \/ Sequential!SampleTimer
<1> DEFINE d == Draining
           c == Upcoming
           t == Tick(c, level)
           a == ex_mem.pc
<1>1. /\ UNCHANGED <<running, pc, if_id, id_ex, ex_mem, mem_wb, regs, mem, prv>>
      /\ csr' = HwSetMtip(csr, level) /\ stage = "INT" /\ stage' = "WB"
      /\ ~InterruptDue(Ticked(level))
  BY DEF NoInterrupt, Enter, Ticked, Context, latches
<1>2. level \in BOOLEAN /\ c \in AnyContext /\ a \in Int /\ d[0] \in Slots /\ d[1] \in Slots
  BY TimerAssumption, UpcomingIs, DrainingShape DEF Shape, TypeOK, ResultLatch, Lanes
<1>3. Live' = Live /\ Draining' = d /\ DrainedMemWb' = DrainedMemWb
  BY <1>1 DEF Live, WrittenBackHalts, Draining, DrainedMemWb
<1>4. Upcoming' = t
  <2>1. NextPc' = NextPc
    BY <1>1 DEF NextPc
  <2>2. Upcoming' = [csr |-> csr', prv |-> prv', pc |-> NextPc']
    BY DEF Upcoming, Context
  <2> QED BY <1>1, <2>1, <2>2, UpcomingFields DEF Tick
<1>5. ~InterruptDue(t)
  <2>1. t.csr = Ticked(level).csr /\ t.prv = Ticked(level).prv
    BY UpcomingFields DEF Tick, Ticked, Context
  <2> QED BY <1>1, <2>1, DueIgnoresPc
<1>6. Arch = Machine(Live, c, DrainedMemWb, mem, d, a)
  BY ArchIsMachine
<1>7. Arch' = Machine(Live, t, DrainedMemWb, mem, d, a)
  BY <1>1, <1>3, <1>4, ArchAfter
<1>8. /\ OutcomeIn(t, d[0]) = OutcomeIn(c, d[0])
      /\ EndsIn(t, d[0]) = EndsIn(c, d[0]) /\ FaultsIn(t, d[0]) = FaultsIn(c, d[0])
  BY <1>2, TickedSlot DEF EndsIn, FaultsIn
<1> HIDE DEF c, t, d
<1>9. ASSUME NEW e \in Slots, NEW b \in Int, NEW file, NEW m,
             Arch = One(c, file, m, e, b), Arch' = One(t, file, m, e, b)
      PROVE  Arch' = Arch \/ Sequential!SampleTimer
  BY <1>2, <1>5, <1>9, TickedOne, Samples DEF t
<1>10. CASE ~Live
  BY <1>6, <1>7, <1>10 DEF Machine
<1>11. CASE Live /\ (EndsIn(c, d[0]) \/ FaultsIn(c, d[0]))
  <2>1. Arch = One(c, DrainedMemWb, mem, d[0], a) /\ Arch' = One(t, DrainedMemWb, mem, d[0], a)
    BY <1>6, <1>7, <1>8, <1>11 DEF Machine, Both
  <2> QED BY <1>2, <1>9, <2>1
<1>12. CASE Live /\ ~EndsIn(c, d[0]) /\ ~FaultsIn(c, d[0])
  <2> DEFINE f == SetReg(DrainedMemWb, Loaded(mem, d[0]))
             m == Stored(mem, d[0])
  <2>1. Arch = One(c, f, m, d[1], a + 1) /\ Arch' = One(t, f, m, d[1], a + 1)
    BY <1>6, <1>7, <1>8, <1>12 DEF Machine, Both
  <2> HIDE DEF f, m
  <2> QED BY <1>2, <1>9, <2>1
<1> QED BY <1>10, <1>11, <1>12

\* An interrupt is taken at the next instruction, when the fetch pc is its pc
\* and the accesses of EX/MEM do not depend on the privilege.
LEMMA InterruptIsTaken ==
  ASSUME Shape, Shape', InterruptIsPrecise, NEW level \in TimerLevels, InterruptEntry(level)
  PROVE  Arch' = Arch \/ Sequential!SampleTimer
<1> DEFINE d == Draining
           c == Upcoming
           t == Tick(c, level)
           a == ex_mem.pc
           k == TakeInterrupt([t EXCEPT !.pc = pc])
           f0 == SetReg(DrainedMemWb, Loaded(mem, d[0]))
           m0 == Stored(mem, d[0])
<1>1. /\ UNCHANGED <<running, ex_mem, mem_wb, regs, mem>> /\ running
      /\ stage = "INT" /\ stage' = "WB" /\ InterruptDue(Ticked(level))
      /\ Enter(TakeInterrupt(Ticked(level))) /\ Flush
  BY DEF InterruptEntry
<1>2. [t EXCEPT !.pc = pc] = Ticked(level)
  <2>1. t = [csr |-> HwSetMtip(csr, level), prv |-> prv, pc |-> NextPc]
    BY UpcomingFields DEF Tick
  <2>2. Ticked(level) = [csr |-> HwSetMtip(csr, level), prv |-> prv, pc |-> pc]
    BY DEF Ticked, Context
  <2> HIDE DEF t
  <2> QED BY <2>1, <2>2
<1>3. /\ IF PreciseInterrupts THEN pc = NextPc ELSE pc \in 0 .. CodeSize
      /\ \A l \in Lanes :
           /\ ~Faults(l)
           /\ IsMemory(d[l].instr) => Access(d[l].result, k.csr, k.prv) = DrainOutcome(l)
  BY <1>1, <1>2 DEF InterruptIsPrecise
<1>4. NextPc' = pc'
  <2>1. ~Valid(id_ex'.lane[0]) /\ ~Valid(if_id'.lane[0])
    BY <1>1, NothingFetched DEF Flush
  <2> QED BY <2>1 DEF NextPc
<1>5. Upcoming'.csr = k.csr /\ Upcoming'.prv = k.prv /\ Upcoming'.pc = k.pc
  BY <1>1, <1>2, <1>4 DEF Upcoming, Context, Enter
<1>6. Live' = Live /\ Draining' = d /\ DrainedMemWb' = DrainedMemWb
  BY <1>1 DEF Live, WrittenBackHalts, Draining, DrainedMemWb
<1>7. Arch = Machine(Live, c, DrainedMemWb, mem, d, a)
  BY ArchIsMachine
<1>8. Arch' = Machine(Live, Upcoming', DrainedMemWb, mem, d, a)
  BY <1>1, <1>6, ArchAfter
<1>9. ASSUME NEW l \in Lanes
      PROVE  /\ EndsIn(Upcoming', d[l]) = EndsIn(c, d[l])
             /\ ~FaultsIn(c, d[l]) /\ ~FaultsIn(Upcoming', d[l])
  <2>1. OutcomeIn(Upcoming', d[l]) = OutcomeIn(c, d[l])
    BY <1>3, <1>5, LanesInTurn DEF OutcomeIn
  <2>2. ~FaultsIn(c, d[l])
    BY <1>3, LanesInTurn
  <2> QED BY <2>1, <2>2 DEF EndsIn, FaultsIn
<1>10. /\ EndsIn(Upcoming', d[0]) = EndsIn(c, d[0]) /\ EndsIn(Upcoming', d[1]) = EndsIn(c, d[1])
       /\ ~FaultsIn(c, d[0]) /\ ~FaultsIn(Upcoming', d[0])
       /\ ~FaultsIn(c, d[1]) /\ ~FaultsIn(Upcoming', d[1])
  BY <1>9 DEF Lanes
<1>11. InterruptDue(t)
  <2>1. t.csr = Ticked(level).csr /\ t.prv = Ticked(level).prv
    BY UpcomingFields DEF Tick, Ticked, Context
  <2> QED BY <1>1, <2>1, DueIgnoresPc
<1>12. pc \in IF PreciseInterrupts THEN {c.pc} ELSE 0 .. CodeSize
  BY <1>3, UpcomingFields
<1> HIDE DEF c, d, k, f0, m0, t
<1>13. CASE ~Live
  BY <1>7, <1>8, <1>13 DEF Machine
<1>14. CASE Live /\ EndsIn(c, d[0])
  BY <1>7, <1>8, <1>10, <1>14 DEF Machine, Both, One
<1>15. CASE Live /\ ~EndsIn(c, d[0])
  <2>1. /\ Arch = One(c, f0, m0, d[1], a + 1)
        /\ Arch' = One(Upcoming', f0, m0, d[1], a + 1)
    BY <1>7, <1>8, <1>10, <1>15 DEF Machine, Both, f0, m0
  <2>2. CASE EndsIn(c, d[1])
    BY <1>10, <2>1, <2>2 DEF One
  <2>3. CASE ~EndsIn(c, d[1])
    <3> DEFINE f == SetReg(f0, Loaded(m0, d[1]))
               m == Stored(m0, d[1])
    <3>1. Arch = Going(c, f, m) /\ Arch' = Going(Upcoming', f, m)
      BY <1>10, <2>1, <2>3 DEF One
    <3> HIDE DEF f, m
    <3>2. Arch' = Going(k, f, m)
      BY <1>5, <3>1 DEF Going
    <3> QED BY <1>11, <1>12, <3>1, <3>2, Interrupts DEF t, k
  <2> QED BY <2>2, <2>3
<1> QED BY <1>13, <1>14, <1>15

-----------------------------------------------------------------------------
(* One instruction of the sequential machine                               *)

\* The same state with parts of it replaced, as Isa.tla writes it.
WithResult(s, x, g, f) == [s EXCEPT !.pc = x, !.regs = g, !.csr = f]
WithLoad(s, x, g)      == [[s EXCEPT !.pc = x] EXCEPT !.regs = g]
WithStore(s, x, a, v)  == [[s EXCEPT !.pc = x] EXCEPT !.mem[a] = v]
WithStop(s) == [s EXCEPT !.stop = TRUE, !.pc = 0, !.csr = ZeroCsr, !.prv = PRV_M]

\* (The results of a register instruction, a load and a store.)
LEMMA OtherResult ==
  ASSUME NEW k, NEW t, NEW f, NEW g, NEW m, t.prv = k.prv
  PROVE  WithResult(Going(k, f, m), t.pc, g, t.csr) = Going(t, g, m)
<1> DEFINE a == Going(k, f, m)
           b == Going(t, g, m)
<1>1. /\ a \in [pc : {k.pc, t.pc}, csr : {k.csr, t.csr}, prv : {k.prv},
                stop : {FALSE}, regs : {f, g}, mem : {m}]
      /\ b \in [pc : {k.pc, t.pc}, csr : {k.csr, t.csr}, prv : {k.prv},
                stop : {FALSE}, regs : {f, g}, mem : {m}]
  BY DEF Going
<1>2. b.pc = t.pc /\ b.csr = t.csr /\ b.regs = g /\ b.mem = a.mem
  BY GoingOn
<1>3. b.stop = a.stop /\ b.prv = a.prv
  BY <1>1
<1> HIDE DEF a, b
<1>4. [a EXCEPT !.pc = t.pc, !.regs = g, !.csr = t.csr] = b
  BY <1>1, <1>2, <1>3
<1> QED BY <1>4 DEF a, b, WithResult

LEMMA OtherRegisters ==
  ASSUME NEW k, NEW t, NEW f, NEW g, NEW m, t.prv = k.prv, t.csr = k.csr
  PROVE  WithLoad(Going(k, f, m), t.pc, g) = Going(t, g, m)
<1> DEFINE a == Going(k, f, m)
           b == Going(t, g, m)
<1>1. /\ a \in [pc : {k.pc, t.pc}, csr : {k.csr}, prv : {k.prv},
                stop : {FALSE}, regs : {f, g}, mem : {m}]
      /\ b \in [pc : {k.pc, t.pc}, csr : {k.csr}, prv : {k.prv},
                stop : {FALSE}, regs : {f, g}, mem : {m}]
  BY DEF Going
<1>2. b.pc = t.pc /\ b.csr = a.csr /\ b.regs = g /\ b.mem = a.mem
  BY GoingOn
<1>3. b.stop = a.stop /\ b.prv = a.prv
  BY <1>1
<1> HIDE DEF a, b
<1>4. [a EXCEPT !.pc = t.pc, !.regs = g] = b
  BY <1>1, <1>2, <1>3
<1>5. [[a EXCEPT !.pc = t.pc] EXCEPT !.regs = g] = [a EXCEPT !.pc = t.pc, !.regs = g]
  OBVIOUS
<1> QED BY <1>4, <1>5 DEF a, b, WithLoad

LEMMA OtherMemory ==
  ASSUME NEW k, NEW t, NEW f, NEW m, NEW x, NEW v, NEW w, t.prv = k.prv, t.csr = k.csr,
         w = [m EXCEPT ![x] = v]
  PROVE  WithStore(Going(k, f, m), t.pc, x, v) = Going(t, f, w)
<1> DEFINE a == Going(k, f, m)
           b == Going(t, f, w)
<1>1. /\ a \in [pc : {k.pc, t.pc}, csr : {k.csr}, prv : {k.prv},
                stop : {FALSE}, regs : {f}, mem : {m, w}]
      /\ b \in [pc : {k.pc, t.pc}, csr : {k.csr}, prv : {k.prv},
                stop : {FALSE}, regs : {f}, mem : {m, w}]
  BY DEF Going
<1>2. b.pc = t.pc /\ b.csr = a.csr /\ b.regs = a.regs /\ b.mem = w /\ a.mem = m
  BY GoingOn
<1>3. b.stop = a.stop /\ b.prv = a.prv
  BY <1>1
<1> HIDE DEF a, b
<1>4. [a EXCEPT !.pc = t.pc, !.mem = w] = b
  BY <1>1, <1>2, <1>3
<1>5. [a EXCEPT !.pc = t.pc].mem = m
  BY <1>1, <1>2
<1>6. WithStore(a, t.pc, x, v) = [[a EXCEPT !.pc = t.pc] EXCEPT !.mem = w]
  BY <1>5 DEF WithStore
<1>7. [[a EXCEPT !.pc = t.pc] EXCEPT !.mem = w] = [a EXCEPT !.pc = t.pc, !.mem = w]
  OBVIOUS
<1> QED BY <1>4, <1>6, <1>7 DEF a, b

\* (The end of the program.)
LEMMA StoppedState ==
  ASSUME NEW k, NEW f, NEW m
  PROVE  WithStop(Going(k, f, m)) = Finished(f, m)
<1> DEFINE a == Going(k, f, m)
           b == Finished(f, m)
<1>1. /\ a \in [pc : {k.pc, 0}, csr : {k.csr, ZeroCsr}, prv : {k.prv, PRV_M},
                stop : BOOLEAN, regs : {f}, mem : {m}]
      /\ b \in [pc : {k.pc, 0}, csr : {k.csr, ZeroCsr}, prv : {k.prv, PRV_M},
                stop : BOOLEAN, regs : {f}, mem : {m}]
  BY DEF Going, Finished
<1>2. b.pc = 0 /\ b.csr = ZeroCsr /\ b.prv = PRV_M /\ b.stop = TRUE
      /\ b.regs = a.regs /\ b.mem = a.mem
  BY DEF Going, Finished
<1> HIDE DEF a, b
<1>3. WithStop(a) = b
  BY <1>1, <1>2 DEF WithStop
<1> QED BY <1>3 DEF a, b

\* What the instruction at a leaves in its slot, and the context after it.
Computed(i, a, file, f) ==
  Done(i, Result(i, a, file[i.rs1], file[i.rs2], f), IF IsMemory(i) THEN file[i.rs2] ELSE 0)
Onward(c, i, file) ==
  [csr |-> CsrAfter(i, file[i.rs1], c.csr),
   prv |-> c.prv,
   pc  |-> IF BranchTaken(i, file[i.rs1], file[i.rs2])
             THEN JumpTarget(i, c.pc, file[i.rs1]) ELSE c.pc + 1]

\* The trap and the result of a memory instruction.
LEMMA ExecMemory ==
  ASSUME NEW c, NEW file, NEW m, NEW i, IsMemory(i)
  PROVE  Sequential!MemoryInstr(Going(c, file, m), i)
           = One(Onward(c, i, file), file, m, Computed(i, c.pc, file, c.csr), c.pc)
<1> DEFINE s == Going(c, file, m)
           n == Onward(c, i, file)
           e == Computed(i, c.pc, file, c.csr)
           addr == Wrap(file[i.rs1] + i.imm)
           out == Access(addr, c.csr, c.prv)
<1>1. e.instr = i /\ e.result = addr /\ e.data = file[i.rs2]
  BY DEF Computed, Done, Result, IsMemory, IsLoad, IsStore
<1>2. n.csr = c.csr /\ n.prv = c.prv /\ n.pc = c.pc + 1
  BY DEF Onward, CsrAfter, BranchTaken, IsMemory, IsLoad, IsStore
<1>3. s.pc = c.pc /\ s.csr = c.csr /\ s.prv = c.prv /\ s.regs = file /\ s.mem = m
  BY GoingOn
<1> HIDE DEF s, n, e
<1>4. OutcomeIn(n, e) = out
  BY <1>1, <1>2 DEF OutcomeIn
<1>5. [s EXCEPT !.pc = s.pc + 1].regs = file
  BY <1>3 DEF s, Going
<1>6. /\ out = "abort" => Sequential!MemoryInstr(s, i) = Sequential!Stopped(s)
      /\ out \in {"misaligned", "page fault"} =>
           Sequential!MemoryInstr(s, i) = Sequential!Trapped(s, c.pc, AccessCause(i, out), addr)
      /\ out = "done" /\ IsLoad(i) =>
           Sequential!MemoryInstr(s, i)
             = WithLoad(s, n.pc, Sequential!SetReg(file, i.rd, m[addr]))
      /\ out = "done" /\ IsStore(i) =>
           Sequential!MemoryInstr(s, i) = WithStore(s, n.pc, addr, file[i.rs2])
  <2> DEFINE load  == WithLoad(s, s.pc + 1, Sequential!SetReg([s EXCEPT !.pc = s.pc + 1].regs,
                                                              i.rd, m[addr]))
             store == WithStore(s, s.pc + 1, addr, file[i.rs2])
  <2>1. Sequential!MemoryInstr(s, i) =
          CASE out = "abort" -> Sequential!Stopped(s)
            [] out \in {"misaligned", "page fault"} ->
                 Sequential!Trapped(s, c.pc, AccessCause(i, out), addr)
            [] out = "done" /\ IsLoad(i) -> load
            [] out = "done" /\ IsStore(i) -> store
    BY <1>3, SameMachine, SameCauses DEF Sequential!MemoryInstr, WithLoad, WithStore
  <2>2. /\ load = WithLoad(s, n.pc, Sequential!SetReg(file, i.rd, m[addr]))
        /\ store = WithStore(s, n.pc, addr, file[i.rs2])
    BY <1>2, <1>3, <1>5
  <2>3. ~(IsLoad(i) /\ IsStore(i))
    BY DEF IsLoad, IsStore
  <2> HIDE DEF load, store, out
  <2> QED BY <2>1, <2>2, <2>3
<1>7. out \in {"misaligned", "page fault", "abort", "done"} /\ (IsLoad(i) \/ IsStore(i))
  BY DEF Access, IsMemory
<1> HIDE DEF out, addr
<1>8. ~IsHalting(i)
  BY DEF IsHalting, IsMemory, IsLoad, IsStore
<1>9. CASE out = "abort"
  <2>1. One(n, file, m, e, c.pc) = Finished(file, m)
    BY <1>4, <1>9 DEF One, EndsIn
  <2>2. Sequential!Stopped(s) = WithStop(s)
    BY SameCsrFile, SameMasks DEF Sequential!Stopped, WithStop
  <2> QED BY <1>6, <1>9, <2>1, <2>2, StoppedState DEF s, n, e
<1>10. CASE out \in {"misaligned", "page fault"}
  <2> DEFINE t == HandleTrap(n, c.pc, AccessCause(i, out), addr)
  <2>1. One(n, file, m, e, c.pc) = Going(t, file, m)
    BY <1>1, <1>4, <1>8, <1>10 DEF One, EndsIn, FaultsIn, TrapIn
  <2>2. Sequential!Trapped(s, c.pc, AccessCause(i, out), addr) = WithContext(s, t)
    <3> DEFINE u == [csr |-> s.csr, prv |-> s.prv, pc |-> s.pc]
    <3>1. u.csr = n.csr /\ u.prv = n.prv
      BY <1>2, <1>3
    <3> HIDE DEF u
    <3>2. HandleTrap(u, c.pc, AccessCause(i, out), addr) = t
      BY <3>1, TrapIgnoresPc
    <3> HIDE DEF t
    <3> QED BY <3>2, SameTrap DEF Sequential!Trapped, WithContext, u
  <2> HIDE DEF t
  <2>3. WithContext(s, t) = Going(t, file, m)
    BY OtherContext DEF s
  <2> QED BY <1>6, <1>10, <2>1, <2>2, <2>3 DEF s, n, e
<1>11. CASE out = "done"
  <2>1. One(n, file, m, e, c.pc) = Going(n, SetReg(file, Loaded(m, e)), Stored(m, e))
    BY <1>1, <1>4, <1>8, <1>11 DEF One, EndsIn, FaultsIn
  <2>2. CASE IsLoad(i)
    <3>1. RegWrite(i) /\ ~IsStore(i)
      BY <2>2 DEF RegWrite, IsLoad, IsStore
    <3>2. Stored(m, e) = m
      BY <1>1, <3>1 DEF Stored
    <3>3. SetReg(file, Loaded(m, e)) = Sequential!SetReg(file, i.rd, m[addr])
      <4>1. Loaded(m, e) = Done(i, m[addr], file[i.rs2])
        BY <1>1, <2>2 DEF Loaded, e, Computed, Done
      <4>2. Loaded(m, e).instr = i /\ Loaded(m, e).result = m[addr]
        BY <4>1 DEF Done
      <4> QED BY <3>1, <4>2 DEF SetReg, Sequential!SetReg
    <3>4. Sequential!MemoryInstr(s, i) = WithLoad(s, n.pc, Sequential!SetReg(file, i.rd, m[addr]))
      BY <1>6, <1>11, <2>2
    <3> DEFINE g == Sequential!SetReg(file, i.rd, m[addr])
    <3> HIDE DEF g
    <3>5. WithLoad(s, n.pc, g) = Going(n, g, m)
      BY <1>2, OtherRegisters DEF s
    <3> QED BY <2>1, <3>2, <3>3, <3>4, <3>5 DEF s, n, e, g
  <2>3. CASE IsStore(i)
    <3>1. ~RegWrite(i) /\ ~IsLoad(i)
      BY <2>3 DEF RegWrite, IsLoad, IsStore
    <3>2. SetReg(file, Loaded(m, e)) = file
      BY <1>1, <3>1 DEF SetReg, Loaded
    <3> DEFINE w == [m EXCEPT ![addr] = file[i.rs2]]
    <3>3. Stored(m, e) = w
      BY <1>1, <2>3 DEF Stored
    <3>4. Sequential!MemoryInstr(s, i) = WithStore(s, n.pc, addr, file[i.rs2])
      BY <1>6, <1>11, <2>3
    <3> HIDE DEF w
    <3>5. WithStore(s, n.pc, addr, file[i.rs2]) = Going(n, file, w)
      BY <1>2, OtherMemory DEF s, w
    <3> QED BY <2>1, <3>2, <3>3, <3>4, <3>5 DEF s, n, e
  <2> QED BY <1>7, <2>2, <2>3
<1> QED BY <1>7, <1>9, <1>10, <1>11

LEMMA ExecOther ==
  ASSUME NEW c, NEW file, NEW m, NEW i, ~IsMemory(i), ~IsHalting(i)
  PROVE  Sequential!OtherInstr(Going(c, file, m), i)
           = One(Onward(c, i, file), file, m, Computed(i, c.pc, file, c.csr), c.pc)
<1> DEFINE s == Going(c, file, m)
           n == Onward(c, i, file)
           e == Computed(i, c.pc, file, c.csr)
           v == Result(i, c.pc, file[i.rs1], file[i.rs2], c.csr)
           g == IF RegWrite(i) THEN Sequential!SetReg(file, i.rd, v) ELSE file
<1>1. e.instr = i /\ e.result = v
  BY DEF Computed, Done
<1>2. s.pc = c.pc /\ s.csr = c.csr /\ s.prv = c.prv /\ s.regs = file /\ s.mem = m
  BY GoingOn
<1>3. Sequential!OtherInstr(s, i) = WithResult(s, n.pc, g, n.csr)
  <2> DEFINE next == IF BranchTaken(i, s.regs[i.rs1], s.regs[i.rs2])
                       THEN JumpTarget(i, s.pc, s.regs[i.rs1]) ELSE s.pc + 1
             write == IF RegWrite(i)
                        THEN Sequential!SetReg(s.regs, i.rd,
                               Result(i, s.pc, s.regs[i.rs1], s.regs[i.rs2], s.csr))
                        ELSE s.regs
             file2 == CsrAfter(i, s.regs[i.rs1], s.csr)
  <2>1. n.csr = file2 /\ n.pc = next /\ g = write
    BY <1>2 DEF Onward
  <2> HIDE DEF s, n, e, v, g
  <2>2. /\ Sequential!RegWrite(i) = RegWrite(i)
        /\ \A a, b : Sequential!BranchTaken(i, a, b) = BranchTaken(i, a, b)
        /\ \A a, b : Sequential!JumpTarget(i, a, b) = JumpTarget(i, a, b)
        /\ \A a, op1, op2, f : Sequential!Result(i, a, op1, op2, f) = Result(i, a, op1, op2, f)
        /\ \A op1, f : Sequential!CsrAfter(i, op1, f) = CsrAfter(i, op1, f)
    BY SameMachine, SameExecution
  <2>3. Sequential!OtherInstr(s, i) = [s EXCEPT !.pc = next, !.regs = write, !.csr = file2]
    BY <2>2 DEF Sequential!OtherInstr
  <2> QED BY <2>1, <2>3 DEF WithResult
<1>4. SetReg(file, e) = g
  BY <1>1 DEF SetReg, Sequential!SetReg
<1>5. n.prv = c.prv
  BY DEF Onward
<1> HIDE DEF s, n, e, g, v
<1>6. WithResult(s, n.pc, g, n.csr) = Going(n, g, m)
  BY <1>5, OtherResult DEF s
<1>7. One(n, file, m, e, c.pc) = Going(n, g, m)
  <2>1. OutcomeIn(n, e) = "done" /\ Stored(m, e) = m /\ Loaded(m, e) = e
    BY <1>1, Kinds
  <2> QED BY <1>1, <1>4, <2>1 DEF One, EndsIn, FaultsIn
<1> QED BY <1>3, <1>6, <1>7 DEF s, n, e

\* The instruction at the pc of the sequential machine, if it can be fetched:
\* one that ends the program, one that traps or returns, or another.
LEMMA ExecStop ==
  ASSUME NEW c, NEW file, NEW m, ~FetchFaults(c.pc, c.csr, c.prv), IsHalting(code[c.pc])
  PROVE  Sequential!Exec(Going(c, file, m)) = Finished(file, m)
<1> DEFINE s == Going(c, file, m)
<1>1. s.pc = c.pc /\ s.csr = c.csr /\ s.prv = c.prv
  BY GoingOn
<1> HIDE DEF s
<1>2. Sequential!Exec(s) = Sequential!Stopped(s)
  <2>1. /\ ~Sequential!FetchFaults(s.pc, s.csr, s.prv)
        /\ Sequential!IsHalting(code[s.pc]) /\ ~Sequential!IsMemory(code[s.pc])
        /\ code[s.pc].op \notin {"mret", "sret", "ecall", "illegal"}
    BY <1>1, SameMachine DEF IsHalting, IsMemory, IsLoad, IsStore
  <2> QED BY <2>1 DEF Sequential!Exec
<1>3. Sequential!Stopped(s) = WithStop(s)
  BY SameCsrFile, SameMasks DEF Sequential!Stopped, WithStop
<1> QED BY <1>2, <1>3, StoppedState DEF s

\* The sequential machine executes an instruction that does not trap: the context
\* goes on, and the slot it leaves is drained.
LEMMA ExecIsOne ==
  ASSUME NEW c, NEW file, NEW m, NEW i, i = code[c.pc],
         ~FetchFaults(c.pc, c.csr, c.prv), ~IsTrapping(i), ~IsHalting(i)
  PROVE  Sequential!Exec(Going(c, file, m))
           = One(Onward(c, i, file), file, m, Computed(i, c.pc, file, c.csr), c.pc)
<1> DEFINE s == Going(c, file, m)
<1>1. s.pc = c.pc /\ s.csr = c.csr /\ s.prv = c.prv
  BY GoingOn
<1> HIDE DEF s
<1>2. Sequential!Exec(s) = IF IsMemory(i) THEN Sequential!MemoryInstr(s, i)
                           ELSE Sequential!OtherInstr(s, i)
  BY <1>1, SameMachine DEF Sequential!Exec, IsTrapping
<1> QED BY <1>2, ExecMemory, ExecOther DEF s

\* Traps and returns, and a fetch that faults.
EnteredBy(c, i, file) ==
  CASE i.op = "mret" -> Mret(c)
    [] i.op = "sret" -> Sret(c)
    [] i.op \in {"ecall", "illegal"} ->
         HandleTrap(c, TrapPc(i, c.pc), TrapCause(i, c.prv), TrapValue(i))

LEMMA TrappedState ==
  ASSUME NEW c, NEW file, NEW m, NEW a, NEW cause, NEW tval, c = [csr |-> c.csr, prv |-> c.prv, pc |-> c.pc]
  PROVE  Sequential!Trapped(Going(c, file, m), a, cause, tval)
           = Going(HandleTrap(c, a, cause, tval), file, m)
<1> DEFINE s == Going(c, file, m)
           t == HandleTrap(c, a, cause, tval)
<1>1. [csr |-> s.csr, prv |-> s.prv, pc |-> s.pc] = c
  BY GoingOn
<1> HIDE DEF s
<1>2. Sequential!HandleTrap([csr |-> s.csr, prv |-> s.prv, pc |-> s.pc], a, cause, tval) = t
  BY <1>1, SameTrap
<1> HIDE DEF t
<1>3. Sequential!Trapped(s, a, cause, tval) = WithContext(s, t)
  BY <1>2 DEF Sequential!Trapped, WithContext
<1> QED BY <1>3, OtherContext DEF s, t

\* An instruction that traps or returns.
LEMMA ExecEnters ==
  ASSUME NEW c, NEW file, NEW m, NEW i, i = code[c.pc],
         c = [csr |-> c.csr, prv |-> c.prv, pc |-> c.pc],
         ~FetchFaults(c.pc, c.csr, c.prv), IsTrapping(i)
  PROVE  Sequential!Exec(Going(c, file, m)) = Going(EnteredBy(c, i, file), file, m)
<1> DEFINE s == Going(c, file, m)
<1>1. /\ s.pc = c.pc /\ s.csr = c.csr /\ s.prv = c.prv
      /\ [csr |-> s.csr, prv |-> s.prv, pc |-> s.pc] = c
  BY GoingOn
<1> HIDE DEF s
<1>2. ~IsHalting(i) /\ ~IsMemory(i)
  BY DEF IsTrapping, IsHalting, IsMemory, IsLoad, IsStore
<1>3. CASE i.op \in {"ecall", "illegal"}
  <2>1. Sequential!Exec(s) = Sequential!Trapped(s, TrapPc(i, c.pc), TrapCause(i, c.prv), TrapValue(i))
    BY <1>1, <1>2, <1>3, SameMachine, SameCauses DEF Sequential!Exec
  <2> QED BY <1>3, <2>1, TrappedState DEF s, EnteredBy
<1>4. CASE i.op \in {"mret", "sret"}
  <2> DEFINE t == EnteredBy(c, i, file)
  <2>1. t = IF i.op = "mret" THEN Mret(c) ELSE Sret(c)
    BY <1>4 DEF EnteredBy
  <2>2. Sequential!Exec(s) = Sequential!Returned(s, t)
    BY <1>1, <1>2, <1>4, <2>1, SameMachine, SameReturn DEF Sequential!Exec
  <2> HIDE DEF t
  <2>3. Sequential!Returned(s, t) = WithContext(s, t)
    BY DEF Sequential!Returned, WithContext
  <2> QED BY <2>2, <2>3, OtherContext DEF s, t
<1> QED BY <1>3, <1>4 DEF IsTrapping

\* An instruction that is not fetched.
LEMMA ExecFetchFault ==
  ASSUME NEW c, NEW file, NEW m, FetchFaults(c.pc, c.csr, c.prv),
         c = [csr |-> c.csr, prv |-> c.prv, pc |-> c.pc]
  PROVE  Sequential!Exec(Going(c, file, m))
           = Going(HandleTrap(c, c.pc, MCAUSE_INST_PAGE_FAULT, c.pc), file, m)
<1> DEFINE s == Going(c, file, m)
<1>1. s.pc = c.pc /\ s.csr = c.csr /\ s.prv = c.prv
  BY GoingOn
<1> HIDE DEF s
<1>2. Sequential!Exec(s) = Sequential!Trapped(s, c.pc, MCAUSE_INST_PAGE_FAULT, c.pc)
  BY <1>1, SameMachine, SameCauses DEF Sequential!Exec
<1> QED BY <1>2, TrappedState DEF s

-----------------------------------------------------------------------------
(* The execute stage                                                       *)

\* The registers once MEM/WB has been written back.
File == SetReg(SetReg(regs, mem_wb[0]), mem_wb[1])

\* Bubbles drain to nothing.
LEMMA NothingDrains ==
  ASSUME NEW d, ~Valid(d[0].instr), ~Valid(d[1].instr)
  PROVE  \A live, c, file, m, a : Machine(live, c, file, m, d, a) = Settled(live, c, file, m)
BY EmptySlot DEF Machine, Both, One, Settled

LEMMA AtExecute ==
  ASSUME Shape, stage = "EX"
  PROVE  /\ Arch = Settled(Live, Upcoming, DrainedMemWb, mem)
         /\ Live => DrainedMemWb = File
<1>1. Draining = NoResults.lane
  BY DEF Draining
<1>2. Live => DrainedMemWb = File
  BY DEF Live, WrittenBackHalts, DrainedMemWb, File, Lanes
<1> QED BY <1>1, <1>2, ArchIsMachine, DrainedLanes

\* The slots of EX/MEM are the next to drain.
LEMMA AfterExecute ==
  ASSUME Shape', Execution
  PROVE  /\ Arch' = Machine(Live, Upcoming', DrainedMemWb, mem, ex_mem'.lane, ex_mem'.pc)
         /\ Upcoming' = [csr |-> csr', prv |-> prv',
                         pc |-> IF Valid(if_id'.lane[0]) THEN if_id'.pc ELSE pc']
<1>1. /\ UNCHANGED <<running, mem_wb, regs, mem>> /\ stage' = "ID"
  BY DEF Execution, Execute, ExecuteBranch, ExecuteTrap
<1>2. Live' = Live /\ DrainedMemWb' = DrainedMemWb /\ Draining' = ex_mem'.lane
  BY <1>1 DEF Live, WrittenBackHalts, DrainedMemWb, Draining
<1>3. NextPc' = IF Valid(if_id'.lane[0]) THEN if_id'.pc ELSE pc'
  BY <1>1 DEF NextPc
<1>4. Upcoming' = [csr |-> csr', prv |-> prv', pc |-> NextPc']
  BY DEF Upcoming, Context
<1> QED BY <1>1, <1>2, <1>3, <1>4, ArchAfter

\* What a slot leaves in each register, whatever its result is.
LEMMA SetRegValue ==
  ASSUME NEW file \in [Reg -> Word], NEW s, s.instr.rd \in Reg, NEW r \in Reg
  PROVE  SetReg(file, s)[r] = IF Writes(s.instr, r) /\ r # 0 THEN s.result ELSE file[r]
BY DEF SetReg, Writes

\* The registers with MEM/WB written back are what forwarding finds.
LEMMA FileIs ==
  ASSUME Shape, Order
  PROVE  /\ File \in [Reg -> Word] /\ File[0] = 0
         /\ \A r \in Reg : r # 0 => NewestOfMemWb(r) = File[r]
<1> DEFINE first == SetReg(regs, mem_wb[0])
<1>1. regs \in [Reg -> Word] /\ mem_wb[0] \in Slots /\ mem_wb[1] \in Slots /\ regs[0] = 0
  BY DEF Shape, TypeOK, Lanes, Order
<1>2. first \in [Reg -> Word] /\ first[0] = 0
  BY <1>1, SetRegType, SetRegOnce
<1>3. File \in [Reg -> Word] /\ File[0] = 0
  BY <1>1, <1>2, SetRegType, SetRegOnce DEF File
<1>4. ASSUME NEW r \in Reg, r # 0
      PROVE  NewestOfMemWb(r) = File[r]
  <2>1. first[r] = IF Writes(mem_wb[0].instr, r) THEN mem_wb[0].result ELSE regs[r]
    BY <1>1, <1>4, SetRegOnce
  <2>2. File[r] = IF Writes(mem_wb[1].instr, r) THEN mem_wb[1].result ELSE first[r]
    BY <1>1, <1>2, <1>4, SetRegOnce DEF File
  <2> QED BY <2>1, <2>2 DEF NewestOfMemWb
<1> QED BY <1>3, <1>4

\* Forwarding hands slot 0 the registers as all older instructions leave them.
LEMMA OperandOfSlot0 ==
  ASSUME Shape, Order, stage = "EX", NEW r \in Reg
  PROVE  Operand(r, 0, ex_mem.lane) = File[r]
<1>1. CASE r = 0
  BY <1>1, FileIs DEF Operand
<1>2. CASE r # 0 /\ Writes(ex_mem.lane[1].instr, r) /\ ~IsMemory(ex_mem.lane[1].instr)
  <2>1. mem_wb[1] = ex_mem.lane[1]
    BY <1>2 DEF Order, Writes, Lanes
  <2>2. NewestOfMemWb(r) = ex_mem.lane[1].result
    BY <1>2, <2>1 DEF NewestOfMemWb
  <2> QED BY <1>2, <2>2, FileIs DEF Operand
<1>3. CASE r # 0 /\ ~(Writes(ex_mem.lane[1].instr, r) /\ ~IsMemory(ex_mem.lane[1].instr))
  BY <1>3, FileIs DEF Operand
<1> QED BY <1>1, <1>2, <1>3

\* So slot 0 is what the sequential machine computes.
LEMMA Slot0IsComputed ==
  ASSUME Shape, Order, stage = "EX", Valid(id_ex.lane[0])
  PROVE  /\ Executed0 = Computed(id_ex.lane[0], id_ex.pc, File, csr)
         /\ Executed0.instr = id_ex.lane[0]
         /\ NextCsr = CsrAfter(id_ex.lane[0], File[id_ex.lane[0].rs1], csr)
         /\ Taken = BranchTaken(Branch, File[Branch.rs1], File[Branch.rs2])
         /\ BranchOperand1 = File[Branch.rs1]
<1> DEFINE i == id_ex.lane[0]
<1>1. i.rs1 \in Reg /\ i.rs2 \in Reg /\ id_ex.pc + 0 = id_ex.pc
  BY DEF Shape, TypeOK, FetchLatch, Decoded, Instr, Lanes
<1>2. Operand(i.rs1, 0, ex_mem.lane) = File[i.rs1] /\ Operand(i.rs2, 0, ex_mem.lane) = File[i.rs2]
  BY <1>1, OperandOfSlot0
<1>3. Executed0 = Computed(i, id_ex.pc, File, csr)
  BY <1>1, <1>2 DEF Executed0, Executed, Computed
<1>4. id_ex.lane[1].op # "csr"
  BY DEF Shape, PairsAllowed, MayPair, IsSystem, Valid
<1>5. NextCsr = CsrAfter(i, File[i.rs1], csr)
  BY <1>2, <1>4 DEF NextCsr, CsrAfter
<1>6. Executed0.instr = i
  BY <1>3 DEF Computed, Done
<1> QED BY <1>2, <1>3, <1>5, <1>6 DEF Taken, BranchOperand1, Branch

\* A result depends on the operands the instruction reads, and on no others.
LEMMA ResultOfReads ==
  ASSUME NEW i, i.op = "csr" => i.csr \in WordCsrs \cup FlagCsrs, NEW a, NEW f,
         NEW x1, NEW y1, NEW x2, NEW y2,
         UsesRs1(i) => x1 = y1, UsesRs2(i) => x2 = y2
  PROVE  Result(i, a, x1, x2, f) = Result(i, a, y1, y2, f)
BY DEF Result, UsesRs1, UsesRs2

\* The load-use stall and the pairing rules leave slot 1 what slot 0 will leave.
LEMMA OperandOfSlot1 ==
  ASSUME Shape, Order, stage = "EX", Valid(id_ex.lane[1]), NEW r \in Reg,
         Reads(id_ex.lane[1], r)
  PROVE  Operand(r, 1, SeenByLane1) = SetReg(File, Loaded(mem, Executed0))[r]
<1> DEFINE i == id_ex.lane[0]
           e == Executed0
<1>1. Valid(i) /\ ~(IsLoad(i) /\ i.rd # 0 /\ Reads(id_ex.lane[1], i.rd))
  BY DEF Shape, LanesInOrder, InOrder, PairsAllowed, MayPair
<1>2. e.instr = i /\ i.rd \in Reg
  BY <1>1, Slot0IsComputed DEF Shape, TypeOK, FetchLatch, Decoded, Instr, Lanes
<1>3. SeenByLane1[0] = e
  BY <1>1 DEF SeenByLane1, Shape, TypeOK, ResultLatch, Lanes
<1>4. Loaded(mem, e).instr = i
  BY <1>2, Slot0IsComputed, <1>1 DEF Loaded, Computed, Done
<1>5. SetReg(File, Loaded(mem, e))[r]
        = IF Writes(i, r) /\ r # 0 THEN Loaded(mem, e).result ELSE File[r]
  BY <1>2, <1>4, FileIs, SetRegValue
<1> HIDE DEF e, i
<1>6. CASE r = 0
  BY <1>5, <1>6, FileIs DEF Operand, e
<1>7. CASE r # 0 /\ Writes(i, r)
  <2>1. Loaded(mem, e) = e
    BY <1>1, <1>2, <1>7 DEF Loaded, Writes
  <2> QED BY <1>2, <1>3, <1>5, <1>7, <2>1 DEF Operand, e
<1>8. CASE r # 0 /\ ~Writes(i, r)
  BY <1>2, <1>3, <1>5, <1>8, FileIs DEF Operand, e
<1> QED BY <1>6, <1>7, <1>8 DEF e

\* A slot without the operands its instruction does not read.
LEMMA OneDependsOn ==
  ASSUME NEW i, NEW x, NEW y, NEW z, IsStore(i) => y = z
  PROVE  \A c, file, m, a :
           One(c, file, m, Done(i, x, y), a) = One(c, file, m, Done(i, x, z), a)
<1> DEFINE d == Done(i, x, y)
           e == Done(i, x, z)
<1>1. /\ d.instr = i /\ e.instr = i /\ d.result = x /\ e.result = x
      /\ d.data = y /\ e.data = z
  BY DEF Done
<1>2. \A m : Loaded(m, d).instr = i /\ Loaded(m, e).instr = i
             /\ Loaded(m, d).result = Loaded(m, e).result
  BY DEF Loaded, Done
<1> HIDE DEF d, e
<1>3. \A m : Stored(m, d) = Stored(m, e)
  BY <1>1 DEF Stored
<1>4. \A file, m : SetReg(file, Loaded(m, d)) = SetReg(file, Loaded(m, e))
  BY <1>2 DEF SetReg
<1>5. /\ \A c : OutcomeIn(c, d) = OutcomeIn(c, e) /\ EndsIn(c, d) = EndsIn(c, e)
                /\ FaultsIn(c, d) = FaultsIn(c, e)
      /\ \A c, a : TrapIn(c, d, a) = TrapIn(c, e, a)
  BY <1>1 DEF OutcomeIn, EndsIn, FaultsIn, TrapIn
<1> QED BY <1>3, <1>4, <1>5 DEF One, d, e

\* Slot 1 of a pair is what the sequential machine computes after slot 0.
LEMMA Slot1IsComputed ==
  ASSUME Shape, Order, stage = "EX", Valid(id_ex.lane[1])
  PROVE  LET i == id_ex.lane[1]
             f == SetReg(File, Loaded(mem, Executed0))
         IN  \A c, file, m, a : One(c, file, m, Executed1, a)
                                  = One(c, file, m, Computed(i, id_ex.pc + 1, f, csr), a)
<1> DEFINE i == id_ex.lane[1]
           f == SetReg(File, Loaded(mem, Executed0))
           x1 == Operand(i.rs1, 1, SeenByLane1)
           x2 == Operand(i.rs2, 1, SeenByLane1)
           a == id_ex.pc + 1
<1>1. /\ i.rs1 \in Reg /\ i.rs2 \in Reg
      /\ i.op = "csr" => i.csr \in WordCsrs \cup FlagCsrs
  BY DEF Shape, TypeOK, FetchLatch, Decoded, Instr, Lanes
<1>2. /\ UsesRs1(i) => x1 = f[i.rs1]
      /\ UsesRs2(i) => x2 = f[i.rs2]
  BY <1>1, OperandOfSlot1 DEF Reads
<1>3. Executed1 = Done(i, Result(i, a, x1, x2, csr), IF IsMemory(i) THEN x2 ELSE 0)
  BY DEF Executed1, Executed
<1> HIDE DEF x1, x2, f, i
<1>4. Result(i, a, x1, x2, csr) = Result(i, a, f[i.rs1], f[i.rs2], csr)
  BY <1>1, <1>2, ResultOfReads
<1>5. IsStore(i) => (IF IsMemory(i) THEN x2 ELSE 0) = (IF IsMemory(i) THEN f[i.rs2] ELSE 0)
  BY <1>2 DEF UsesRs2, IsStore
<1>6. \A c, file, m, b : One(c, file, m, Executed1, b) = One(c, file, m, Computed(i, a, f, csr), b)
  BY <1>3, <1>4, <1>5, OneDependsOn DEF Computed
<1> QED BY <1>6 DEF f, i

\* The instruction in slot 0 is the one the sequential machine executes next.
LEMMA Slot0IsNext ==
  ASSUME Shape, Order, FetchIsCurrent, stage = "EX", Valid(id_ex.lane[0])
  PROVE  LET i == id_ex.lane[0]
             p == id_ex.pc
         IN  /\ p \in CodeAddrs /\ ~FetchFaults(p, csr, prv) /\ Upcoming.pc = p
             /\ i = code[p] \/ (IsHalting(i) /\ IsHalting(code[p]))
<1>1. id_ex.pc + 0 = id_ex.pc
  BY DEF Shape, TypeOK, FetchLatch
<1>2. /\ ~FetchFaults(id_ex.pc, csr, prv)
      /\ id_ex.lane[0] = ZeroWord => id_ex.pc \in CodeAddrs /\ IsHalting(code[id_ex.pc])
  BY <1>1 DEF FetchIsCurrent, Lanes
<1>3. \/ id_ex.lane[0] = ZeroWord
      \/ id_ex.pc \in CodeAddrs /\ id_ex.lane[0] = code[id_ex.pc]
  BY <1>1 DEF Order, FlowOf, InCode, Lanes
<1>4. IsHalting(ZeroWord)
  BY DEF IsHalting, ZeroWord, Bubble
<1>5. Upcoming.pc = id_ex.pc
  BY UpcomingFields, NextPcIs
<1> QED BY <1>2, <1>3, <1>4, <1>5

\* And so is the one in slot 1, after it.
LEMMA Slot1IsNext ==
  ASSUME Shape, Order, FetchIsCurrent, stage = "EX", Valid(id_ex.lane[1])
  PROVE  LET i == id_ex.lane[1]
             p == id_ex.pc + 1
         IN  /\ p \in CodeAddrs /\ ~FetchFaults(p, csr, prv)
             /\ i = code[p] \/ (IsHalting(i) /\ IsHalting(code[p]))
<1>1. /\ ~FetchFaults(id_ex.pc + 1, csr, prv)
      /\ id_ex.lane[1] = ZeroWord => id_ex.pc + 1 \in CodeAddrs /\ IsHalting(code[id_ex.pc + 1])
  BY DEF FetchIsCurrent, Lanes
<1>2. \/ id_ex.lane[1] = ZeroWord
      \/ id_ex.pc + 1 \in CodeAddrs /\ id_ex.lane[1] = code[id_ex.pc + 1]
  BY DEF Order, FlowOf, InCode, Lanes
<1>3. IsHalting(ZeroWord)
  BY DEF IsHalting, ZeroWord, Bubble
<1> QED BY <1>1, <1>2, <1>3

\* An instruction that neither traps nor returns.
LEMMA ExecNext ==
  ASSUME NEW c, NEW file, NEW m, NEW i, ~FetchFaults(c.pc, c.csr, c.prv), ~IsTrapping(i),
         i = code[c.pc] \/ (IsHalting(i) /\ IsHalting(code[c.pc]))
  PROVE  Sequential!Exec(Going(c, file, m))
           = One(Onward(c, i, file), file, m, Computed(i, c.pc, file, c.csr), c.pc)
<1> DEFINE e == Computed(i, c.pc, file, c.csr)
           n == Onward(c, i, file)
<1>1. CASE IsHalting(i)
  <2>1. e.instr = i
    BY DEF Computed, Done
  <2>2. EndsIn(n, e)
    BY <1>1, <2>1 DEF EndsIn
  <2> HIDE DEF e, n
  <2>3. One(n, file, m, e, c.pc) = Finished(file, m)
    BY <2>2 DEF One
  <2> QED BY <1>1, <2>3, ExecStop DEF e, n
<1>2. CASE ~IsHalting(i)
  BY <1>2, ExecIsOne
<1> QED BY <1>1, <1>2

\* The steps of the sequential machine.
LEMMA StepOne ==
  ASSUME NEW c, NEW file, NEW m, Arch = Going(c, file, m), c.pc \in CodeAddrs,
         Arch' = Sequential!Exec(Going(c, file, m))
  PROVE  Sequential!ExecOne
BY GoingOn, SameMachine DEF Sequential!ExecOne, Sequential!CanExecute

\* (Two instructions.)
LEMMA StepTwo ==
  ASSUME NEW c, NEW file, NEW m, NEW k, NEW g, NEW w,
         Arch = Going(c, file, m), c.pc \in CodeAddrs,
         Sequential!Exec(Going(c, file, m)) = Going(k, g, w), k.pc \in CodeAddrs,
         Arch' = Sequential!Exec(Going(k, g, w))
  PROVE  Sequential!ExecTwo
<1> DEFINE s == Going(c, file, m)
           t == Going(k, g, w)
<1>1. s.pc = c.pc /\ ~s.stop /\ t.pc = k.pc /\ ~t.stop
  BY GoingOn
<1> HIDE DEF s, t
<1>2. Sequential!Exec(Arch) = t /\ Arch = s /\ Arch' = Sequential!Exec(t)
  BY DEF s, t
<1> QED BY <1>1, <1>2, SameMachine DEF Sequential!ExecTwo, Sequential!CanExecute

\* A state that ends or faults does not depend on where the program goes on.
LEMMA OneStops ==
  ASSUME NEW c, NEW k, c.csr = k.csr, c.prv = k.prv
  PROVE  \A e : /\ EndsIn(c, e) = EndsIn(k, e) /\ FaultsIn(c, e) = FaultsIn(k, e)
                /\ EndsIn(c, e) \/ FaultsIn(c, e) =>
                     \A file, m, a : One(c, file, m, e, a) = One(k, file, m, e, a)
<1>1. \A e : OutcomeIn(c, e) = OutcomeIn(k, e)
  BY DEF OutcomeIn
<1>2. \A e, a : TrapIn(c, e, a) = TrapIn(k, e, a)
  BY <1>1, TrapIgnoresPc DEF TrapIn
<1>3. \A e : EndsIn(c, e) = EndsIn(k, e) /\ FaultsIn(c, e) = FaultsIn(k, e)
  BY <1>1 DEF EndsIn, FaultsIn
<1> QED BY <1>2, <1>3 DEF One

\* An instruction or two, neither trapping nor redirecting control.
LEMMA ExecuteSteps ==
  ASSUME Shape, Shape', Order, FetchIsCurrent, Execute
  PROVE  Arch' = Arch \/ Sequential!ExecOne \/ Sequential!ExecTwo
<1> DEFINE i0 == id_ex.lane[0]
           i1 == id_ex.lane[1]
           p  == id_ex.pc
           c  == Upcoming
           n  == Onward(c, i0, File)
           e0 == Executed0
           e1 == Executed1
           k  == Upcoming'
           f  == SetReg(File, Loaded(mem, e0))
           m  == Stored(mem, e0)
<1>1. /\ stage = "EX" /\ UNCHANGED <<pc, if_id, prv>> /\ ~Redirects
      /\ csr' = NextCsr /\ ex_mem' = NextExMem
      /\ ~TrapsInLane(0) /\ ~TrapsInLane(1)
  BY DEF Execute, Lanes
<1>2. /\ Arch = Settled(Live, c, DrainedMemWb, mem)
      /\ Live => DrainedMemWb = File
      /\ Arch' = Machine(Live, k, DrainedMemWb, mem, ex_mem'.lane, ex_mem'.pc)
      /\ k = [csr |-> csr', prv |-> prv', pc |-> IF Valid(if_id'.lane[0]) THEN if_id'.pc ELSE pc']
  BY <1>1, AtExecute, AfterExecute DEF Execution
<1>3. ex_mem'.lane[0] = e0 /\ ex_mem'.lane[1] = e1 /\ ex_mem'.pc = p
  BY <1>1 DEF NextExMem, Lanes
<1>4. p \in Int /\ (Valid(i1) => Valid(i0))
  BY DEF Shape, TypeOK, FetchLatch, LanesInOrder, InOrder
<1>5. ~Valid(i1) => ~Valid(e1.instr)
  BY BubbleInvalid DEF Executed1, Executed
<1>6. CASE ~Live
  BY <1>2, <1>6 DEF Machine, Settled
<1>7. CASE Live /\ ~Valid(i0)
  <2>1. ~Valid(e0.instr) /\ ~Valid(e1.instr)
    BY <1>4, <1>5, <1>7, BubbleInvalid DEF Executed0, Executed
  <2>2. Arch' = Settled(Live, k, DrainedMemWb, mem)
    BY <1>2, <1>3, <2>1, NothingDrains
  <2>3. csr' = csr
    BY <1>1, <1>4, <1>7 DEF NextCsr, CsrAfter, Valid
  <2>4. k = c
    BY <1>1, <1>2, <1>7, <2>3, NextPcIs, UpcomingIs
  <2> QED BY <1>2, <2>2, <2>4
<1>8. CASE Live /\ Valid(i0)
  <2>1. /\ e0 = Computed(i0, p, File, csr) /\ e0.instr = i0
        /\ NextCsr = CsrAfter(i0, File[i0.rs1], csr)
        /\ Taken = BranchTaken(i0, File[i0.rs1], File[i0.rs2])
    BY <1>1, <1>8, Slot0IsComputed DEF Branch
  <2>2. /\ p \in CodeAddrs /\ ~FetchFaults(p, csr, prv) /\ c.pc = p
        /\ i0 = code[p] \/ (IsHalting(i0) /\ IsHalting(code[p]))
        /\ c.csr = csr /\ c.prv = prv
    BY <1>1, <1>8, Slot0IsNext, UpcomingFields
  <2>3. ~IsTrapping(i0) /\ (Valid(i1) => ~IsTrapping(i1)) /\ ~PredictedTaken(i0)
        /\ ~BranchTaken(i0, File[i0.rs1], File[i0.rs2])
    BY <1>1, <1>8, <2>1 DEF TrapsInLane, Redirects, Branch
  <2>4. n.csr = k.csr /\ n.prv = k.prv /\ n.pc = p + 1
    BY <1>1, <1>2, <2>1, <2>2, <2>3 DEF Onward
  <2>5. k.pc = p + Count(id_ex)
    <3>1. (IF Valid(if_id.lane[0]) THEN if_id.pc ELSE pc) = After(id_ex)
      BY <1>8 DEF Order, FlowOf
    <3> QED BY <1>1, <1>2, <2>3, <3>1 DEF After
  <2>6. Arch = Going(c, File, mem)
    BY <1>2, <1>8 DEF Settled
  <2>7. Sequential!Exec(Going(c, File, mem)) = One(n, File, mem, e0, p)
    BY <2>1, <2>2, <2>3, ExecNext
  <2>8. Arch' = Both(k, File, mem, ex_mem'.lane, p)
    BY <1>2, <1>3, <1>8 DEF Machine
  <2>9. p \in CodeAddrs /\ c.pc \in CodeAddrs
    BY <2>2
  <2> HIDE DEF c, n, e0, e1, k, f, m
  <2>10. CASE EndsIn(k, e0) \/ FaultsIn(k, e0)
    <3>1. Arch' = One(k, File, mem, e0, p)
      BY <1>3, <2>8, <2>10 DEF Both
    <3>2. One(k, File, mem, e0, p) = One(n, File, mem, e0, p)
      BY <2>4, <2>10, OneStops
    <3> QED BY <2>6, <2>7, <2>9, <3>1, <3>2, StepOne
  <2>11. CASE ~EndsIn(k, e0) /\ ~FaultsIn(k, e0) /\ ~Valid(i1)
    <3>1. n = k
      <4>1. k.pc = p + 1
        BY <2>5, <2>11 DEF Count
      <4>2. n = [csr |-> n.csr, prv |-> n.prv, pc |-> n.pc]
        BY DEF n, Onward
      <4>3. k = [csr |-> k.csr, prv |-> k.prv, pc |-> k.pc]
        BY <1>2
      <4> QED BY <2>4, <4>1, <4>2, <4>3
    <3>2. Arch' = One(k, f, m, e1, p + 1)
      BY <1>3, <2>8, <2>11 DEF Both, f, m
    <3>3. One(k, f, m, e1, p + 1) = Going(k, f, m)
      BY <1>5, <2>11, EmptySlot DEF One
    <3>4. One(k, File, mem, e0, p) = Going(k, f, m)
      BY <2>11 DEF One, f, m
    <3> QED BY <2>6, <2>7, <2>9, <3>1, <3>2, <3>3, <3>4, StepOne
  <2>12. CASE ~EndsIn(k, e0) /\ ~FaultsIn(k, e0) /\ Valid(i1)
    <3>1. Arch' = One(k, f, m, e1, p + 1)
      BY <1>3, <2>8, <2>12 DEF Both, f, m
    <3>2. One(n, File, mem, e0, p) = Going(n, f, m)
      BY <2>4, <2>12, OneStops DEF One, f, m
    <3>3. /\ p + 1 \in CodeAddrs /\ ~FetchFaults(p + 1, csr, prv)
          /\ i1 = code[p + 1] \/ (IsHalting(i1) /\ IsHalting(code[p + 1]))
      BY <1>1, <2>12, Slot1IsNext
    <3>4. i0.op # "csr" /\ i1.op # "csr" /\ ~IsBranch(i1)
      BY <2>12 DEF Shape, PairsAllowed, MayPair, IsSystem
    <3>5. n.csr = csr /\ n.prv = prv
      BY <1>1, <1>2, <2>1, <2>4, <3>4 DEF CsrAfter
    <3>6. Sequential!Exec(Going(n, f, m))
            = One(Onward(n, i1, f), f, m, Computed(i1, p + 1, f, csr), p + 1)
      <4>1. /\ ~FetchFaults(n.pc, n.csr, n.prv) /\ ~IsTrapping(i1)
            /\ i1 = code[n.pc] \/ (IsHalting(i1) /\ IsHalting(code[n.pc]))
        BY <2>3, <2>4, <2>12, <3>3, <3>5
      <4> QED BY <2>4, <3>5, <4>1, ExecNext
    <3>7. Onward(n, i1, f) = k
      <4>1. k.pc = (p + 1) + 1
        BY <1>4, <2>5, <2>12 DEF Count
      <4>2. Onward(n, i1, f) = [csr |-> n.csr, prv |-> n.prv, pc |-> n.pc + 1]
        BY <3>4 DEF Onward, CsrAfter, BranchTaken, IsBranch
      <4>3. k = [csr |-> k.csr, prv |-> k.prv, pc |-> k.pc]
        BY <1>2
      <4> QED BY <2>4, <4>1, <4>2, <4>3
    <3>8. One(k, f, m, e1, p + 1) = One(k, f, m, Computed(i1, p + 1, f, csr), p + 1)
      BY <1>1, <2>12, Slot1IsComputed DEF e1, f, e0
    <3>9. Arch' = Sequential!Exec(Going(n, f, m))
      BY <3>1, <3>6, <3>7, <3>8
    <3>10. Sequential!Exec(Going(c, File, mem)) = Going(n, f, m) /\ n.pc \in CodeAddrs
      BY <2>4, <2>7, <3>2, <3>3
    <3> QED BY <2>6, <2>9, <3>9, <3>10, StepTwo
  <2> QED BY <2>10, <2>11, <2>12
<1> QED BY <1>6, <1>7, <1>8

\* A branch or jump that redirects control, now or when it was predicted.
LEMMA BranchSteps ==
  ASSUME Shape, Shape', Order, FetchIsCurrent, ExecuteBranch
  PROVE  Arch' = Arch \/ Sequential!ExecOne
<1> DEFINE i == id_ex.lane[0]
           p == id_ex.pc
           c == Upcoming
           n == Onward(c, i, File)
           e == Executed0
           k == Upcoming'
<1>1. /\ stage = "EX" /\ UNCHANGED prv /\ Redirects /\ csr' = NextCsr
      /\ ex_mem' = [NextExMem EXCEPT !.lane[1] = Empty]
      /\ IF Taken = PredictedTaken(i)
           THEN UNCHANGED <<pc, if_id, id_ex>>
           ELSE /\ pc' = IF Taken THEN JumpTarget(i, p, BranchOperand1) ELSE p + 1
                /\ if_id' = NoFetch
  BY DEF ExecuteBranch, Branch, Flush
<1>2. /\ Arch = Settled(Live, c, DrainedMemWb, mem)
      /\ Live => DrainedMemWb = File
      /\ Arch' = Machine(Live, k, DrainedMemWb, mem, ex_mem'.lane, ex_mem'.pc)
      /\ k = [csr |-> csr', prv |-> prv', pc |-> IF Valid(if_id'.lane[0]) THEN if_id'.pc ELSE pc']
  BY <1>1, AtExecute, AfterExecute DEF Execution
<1>3. ex_mem'.lane[0] = e /\ ex_mem'.lane[1] = Empty /\ ex_mem'.pc = p
  BY <1>1 DEF NextExMem, Lanes
<1>4. IsBranch(i) /\ Valid(i) /\ ~IsTrapping(i) /\ ~IsHalting(i) /\ ~IsMemory(i)
  BY <1>1 DEF Redirects, Taken, PredictedTaken, BranchTaken, Branch, IsBranch, Valid,
              IsTrapping, IsHalting, IsMemory, IsLoad, IsStore
<1>5. /\ e = Computed(i, p, File, csr) /\ e.instr = i
      /\ NextCsr = CsrAfter(i, File[i.rs1], csr)
      /\ Taken = BranchTaken(i, File[i.rs1], File[i.rs2]) /\ BranchOperand1 = File[i.rs1]
  BY <1>1, <1>4, Slot0IsComputed DEF Branch
<1>6. /\ p \in CodeAddrs /\ ~FetchFaults(p, csr, prv) /\ c.pc = p
      /\ i = code[p] \/ (IsHalting(i) /\ IsHalting(code[p]))
      /\ c.csr = csr /\ c.prv = prv
  BY <1>1, <1>4, Slot0IsNext, UpcomingFields
<1>7. k.pc = IF Taken THEN JumpTarget(i, p, File[i.rs1]) ELSE p + 1
  <2>1. CASE Taken = PredictedTaken(i)
    <3>1. Taken /\ PredictedTaken(i)
      BY <1>1, <2>1 DEF Redirects, Branch
    <3>2. (IF Valid(if_id.lane[0]) THEN if_id.pc ELSE pc) = After(id_ex)
      BY <1>4 DEF Order, FlowOf
    <3>3. k.pc = p + i.imm
      BY <1>1, <1>2, <2>1, <3>1, <3>2 DEF After
    <3>4. i.op # "jalr"
      BY <3>1 DEF PredictedTaken
    <3> QED BY <3>1, <3>3, <3>4 DEF JumpTarget
  <2>2. CASE Taken # PredictedTaken(i)
    <3>1. ~Valid(if_id'.lane[0])
      BY <1>1, <2>2, NothingFetched
    <3>2. k.pc = pc'
      BY <1>2, <3>1
    <3> QED BY <1>1, <1>5, <2>2, <3>2
  <2> QED BY <2>1, <2>2
<1>8. n = k
  BY <1>1, <1>2, <1>5, <1>6, <1>7 DEF Onward
<1> HIDE DEF c, n, e, k
<1>9. CASE ~Live
  BY <1>2, <1>9 DEF Machine, Settled
<1>10. CASE Live
  <2>1. Arch = Going(c, File, mem)
    BY <1>2, <1>10 DEF Settled
  <2>2. Sequential!Exec(Going(c, File, mem)) = One(n, File, mem, e, p)
    BY <1>4, <1>5, <1>6, ExecNext DEF n, e
  <2>3. ~EndsIn(k, e) /\ ~FaultsIn(k, e)
    BY <1>4, <1>5, Kinds DEF EndsIn, FaultsIn
  <2>4. Arch' = One(k, SetReg(File, Loaded(mem, e)), Stored(mem, e), Empty, p + 1)
    BY <1>2, <1>3, <1>10, <2>3 DEF Machine, Both
  <2>5. Arch' = Going(k, SetReg(File, Loaded(mem, e)), Stored(mem, e))
    BY <2>4, BubbleInvalid, EmptySlot DEF One
  <2>6. One(k, File, mem, e, p) = Going(k, SetReg(File, Loaded(mem, e)), Stored(mem, e))
    BY <2>3 DEF One
  <2>7. Arch' = Sequential!Exec(Going(c, File, mem)) /\ c.pc \in CodeAddrs
    BY <1>6, <1>8, <2>2, <2>5, <2>6
  <2> QED BY <2>1, <2>7, StepOne
<1> QED BY <1>9, <1>10

\* A return does not look at the fetch pc either.
LEMMA ReturnIgnoresPc ==
  ASSUME NEW c, NEW d, c.csr = d.csr, c.prv = d.prv
  PROVE  Mret(c) = Mret(d) /\ Sret(c) = Sret(d)
BY DEF Mret, Sret

\* A trap or return of slot 0.
LEMMA TrapSteps ==
  ASSUME Shape, Shape', Order, FetchIsCurrent, ExecuteTrap(0)
  PROVE  Arch' = Arch \/ Sequential!ExecOne
<1> DEFINE i == id_ex.lane[0]
           p == id_ex.pc
           c == Upcoming
           k == Upcoming'
           x == [Context EXCEPT !.csr = NextCsr]
           t == EnteredBy(c, i, File)
<1>1. /\ stage = "EX" /\ IsTrapping(i) /\ Flush /\ ex_mem' = NoResults
      /\ Enter(CASE i.op = "mret" -> Mret(x)
                 [] i.op = "sret" -> Sret(x)
                 [] i.op \in {"ecall", "illegal"} ->
                      HandleTrap(x, TrapPc(i, p + 0), TrapCause(i, prv), TrapValue(i)))
  BY DEF ExecuteTrap, TrapsInLane
<1>2. /\ Arch = Settled(Live, c, DrainedMemWb, mem)
      /\ Live => DrainedMemWb = File
      /\ Arch' = Machine(Live, k, DrainedMemWb, mem, ex_mem'.lane, ex_mem'.pc)
      /\ k = [csr |-> csr', prv |-> prv', pc |-> IF Valid(if_id'.lane[0]) THEN if_id'.pc ELSE pc']
  BY <1>1, AtExecute, AfterExecute DEF Execution, Lanes
<1>3. Valid(i) /\ ~IsHalting(i) /\ i.op # "csr" /\ p + 0 = p
  BY <1>1 DEF IsTrapping, IsHalting, Valid, Shape, TypeOK, FetchLatch
<1>4. /\ p \in CodeAddrs /\ ~FetchFaults(p, csr, prv) /\ i = code[p]
      /\ c.pc = p /\ c.csr = csr /\ c.prv = prv
      /\ c = [csr |-> c.csr, prv |-> c.prv, pc |-> c.pc]
  BY <1>1, <1>3, Slot0IsNext, UpcomingFields, UpcomingIs
<1>5. x.csr = c.csr /\ x.prv = c.prv
  <2>1. NextCsr = csr
    BY <1>1, <1>3, Slot0IsComputed DEF CsrAfter
  <2> QED BY <1>4, <2>1 DEF Context
<1>6. /\ Mret(x) = Mret(c) /\ Sret(x) = Sret(c)
      /\ \A a, cause, tval : HandleTrap(x, a, cause, tval) = HandleTrap(c, a, cause, tval)
  <2> HIDE DEF x, c
  <2> QED BY <1>5, TrapIgnoresPc, ReturnIgnoresPc
<1>7. Enter(t)
  <2>1. t = CASE i.op = "mret" -> Mret(c)
              [] i.op = "sret" -> Sret(c)
              [] i.op \in {"ecall", "illegal"} ->
                   HandleTrap(c, TrapPc(i, p), TrapCause(i, prv), TrapValue(i))
    BY <1>4 DEF EnteredBy
  <2> HIDE DEF t, x, c
  <2> QED BY <1>1, <1>3, <1>6, <2>1
<1>8. k.csr = t.csr /\ k.prv = t.prv /\ k.pc = t.pc
  <2>1. ~Valid(if_id'.lane[0])
    BY <1>1, NothingFetched DEF Flush
  <2> HIDE DEF t
  <2> QED BY <1>2, <1>7, <2>1 DEF Enter
<1> HIDE DEF c, k, x, t
<1>9. Arch' = Settled(Live, k, DrainedMemWb, mem)
  BY <1>1, <1>2, DrainedLanes
<1>10. CASE ~Live
  BY <1>2, <1>9, <1>10 DEF Settled
<1>11. CASE Live
  <2>1. Arch = Going(c, File, mem)
    BY <1>2, <1>11 DEF Settled
  <2>2. Sequential!Exec(Going(c, File, mem)) = Going(t, File, mem)
    BY <1>1, <1>4, ExecEnters DEF t
  <2>3. Arch' = Going(k, File, mem)
    BY <1>2, <1>9, <1>11 DEF Settled
  <2>4. Going(k, File, mem) = Going(t, File, mem)
    BY <1>8 DEF Going
  <2> QED BY <1>4, <2>1, <2>2, <2>3, <2>4, StepOne
<1> QED BY <1>10, <1>11

\* A fetch fault, with no older instruction in ID/EX and EX/MEM.
LEMMA FetchTrapSteps ==
  ASSUME Shape, Shape', FetchFaultsAlone, FetchTrap \/ FetchTrapLast
  PROVE  Arch' = Arch \/ Sequential!ExecOne
<1> DEFINE c == Upcoming
           k == Upcoming'
           t == HandleTrap(c, pc, MCAUSE_INST_PAGE_FAULT, pc)
<1>1. /\ FetchReady /\ (PairInMemory \/ LastInMemory) /\ Faulting
      /\ UNCHANGED <<running, mem_wb, regs, mem>> /\ stage = "IF" /\ stage' = "INT"
      /\ ex_mem' = NoResults /\ id_ex' = NoFetch
  BY DEF FetchTrap, FetchTrapLast, Flush, FetchReady
<1>2. /\ ~Valid(id_ex.lane[0]) /\ ~Valid(if_id.lane[0])
      /\ ~Valid(ex_mem.lane[0].instr) /\ ~Valid(ex_mem.lane[1].instr)
  BY <1>1 DEF FetchFaultsAlone, FetchReady, Lanes
<1>3. /\ c = [csr |-> c.csr, prv |-> c.prv, pc |-> c.pc]
      /\ c.csr = csr /\ c.prv = prv /\ c.pc = pc /\ pc \in CodeAddrs
      /\ FetchFaults(pc, csr, prv)
  BY <1>1, <1>2, UpcomingIs, UpcomingFields, NextPcIs, CodeType DEF Shape, Faulting
<1>4. HandleTrap(Context, pc, MCAUSE_INST_PAGE_FAULT, pc) = t
  <2>1. Context.csr = c.csr /\ Context.prv = c.prv
    BY <1>3 DEF Context
  <2> HIDE DEF c
  <2> QED BY <2>1, TrapIgnoresPc
<1>5. k.csr = t.csr /\ k.prv = t.prv /\ k.pc = t.pc
  <2>1. k = [csr |-> csr', prv |-> prv', pc |-> NextPc']
    BY DEF Upcoming, Context
  <2>2. NextPc' = IF Valid(if_id'.lane[0]) THEN if_id'.pc ELSE pc'
    BY <1>1, NothingFetched DEF NextPc
  <2> HIDE DEF t
  <2>3. CASE FetchTrap
    BY <1>4, <2>1, <2>2, <2>3, NothingFetched DEF FetchTrap, Enter, Flush
  <2>4. CASE FetchTrapLast
    <3>1. if_id' = Fetched(t.pc, ZeroWord, Bubble) /\ csr' = t.csr /\ prv' = t.prv
      BY <1>4, <2>4 DEF FetchTrapLast
    <3>2. Valid(ZeroWord)
      BY DEF Valid, ZeroWord, Bubble
    <3> QED BY <2>1, <2>2, <3>1, <3>2, FetchedLanes
  <2> QED BY <2>3, <2>4
<1>6. Arch = Settled(Live, c, DrainedMemWb, mem)
  <2>1. Draining = ex_mem.lane
    BY <1>1 DEF Draining
  <2> QED BY <1>2, <2>1, ArchIsMachine, NothingDrains
<1>7. Arch' = Settled(Live, k, DrainedMemWb, mem)
  <2>1. Draining' = NoResults.lane
    BY <1>1 DEF Draining
  <2>2. Live' = Live /\ DrainedMemWb' = DrainedMemWb
    BY <1>1 DEF Live, WrittenBackHalts, DrainedMemWb
  <2> QED BY <1>1, <2>1, <2>2, ArchAfter, DrainedLanes
<1> DEFINE file == DrainedMemWb
<1> HIDE DEF c, k, t, file
<1>8. CASE ~Live
  BY <1>6, <1>7, <1>8 DEF Settled
<1>9. CASE Live
  <2>1. Arch = Going(c, file, mem) /\ Arch' = Going(k, file, mem)
    BY <1>6, <1>7, <1>9 DEF Settled, file
  <2>2. Sequential!Exec(Going(c, file, mem)) = Going(t, file, mem)
    BY <1>3, ExecFetchFault DEF t
  <2>3. Going(k, file, mem) = Going(t, file, mem)
    BY <1>5 DEF Going
  <2>4. c.pc \in CodeAddrs
    BY <1>3
  <2> QED BY <2>1, <2>2, <2>3, <2>4, StepOne
<1> QED BY <1>8, <1>9

-----------------------------------------------------------------------------
(* The refinement                                                          *)

LEMMA StepsAreSequential ==
  ASSUME Shape, Shape', Order, Order', Precise, [Next]_vars
  PROVE  [Sequential!Next]_<<Arch, code>>
<1> SUFFICES Arch' = Arch \/ Sequential!ExecOne \/ Sequential!ExecTwo \/ Sequential!SampleTimer
  BY CodeKept DEF Sequential!Next
<1>1. /\ InterruptIsPrecise /\ FaultWritesNothing /\ TrapsAlone /\ FetchFaultsAlone
      /\ NothingRunsTwice /\ FetchIsCurrent /\ NothingBehindHalt
  BY DEF Precise
<1>2. CASE UNCHANGED vars
  <2>1. Draining' = Draining /\ NextPc' = NextPc
    BY <1>2 DEF vars, latches, Draining, NextPc
  <2> QED BY <1>2, <2>1, ArchKept DEF vars, latches, regFile
<1>3. CASE InterruptCheck
  BY <1>1, <1>3, NoInterruptSamples, InterruptIsTaken DEF InterruptCheck
<1>4. CASE WriteBack
  BY <1>1, <1>4, WriteBackKeeps
<1>5. CASE Memory
  BY <1>1, <1>5, MemoryAccessKeeps, MemoryTrapKeeps, MemoryAbortKeeps DEF Memory
<1>6. CASE Execution
  <2>1. ~ExecuteTrap(1)
    BY <1>1 DEF TrapsAlone, ExecuteTrap
  <2> QED BY <1>1, <1>6, <2>1, ExecuteSteps, BranchSteps, TrapSteps DEF Execution, Lanes
<1>7. CASE Issue
  BY <1>1, <1>7, IssueKeeps
<1>8. CASE Fetch
  BY <1>1, <1>8, FetchKeeps, FetchTrapSteps DEF Fetch
<1> QED BY <1>2, <1>3, <1>4, <1>5, <1>6, <1>7, <1>8 DEF Next, Halted

\* Each step of the pipeline from a state in which none of the code's seven
\* deviations makes a difference is a step of the sequential machine, or changes
\* nothing a program can see: stalling, pairing, forwarding, prediction,
\* squashing, the traps and the interrupts of the core add no other.
THEOREM DeviatesNowhereElse == Spec => SequentialWhenPrecise
<1>1. /\ Shape /\ Order /\ Shape' /\ Order' /\ [Next]_vars
      => [Precise => Sequential!Next]_<<Arch, code>>
  BY StepsAreSequential
<1> QED BY <1>1, OrderInvariant, PTL DEF Spec, SequentialWhenPrecise

\* The state after reset is a state of the sequential machine.
LEMMA InitArch ==
  ASSUME Init
  PROVE  Arch \in Sequential!ArchState
<1>1. Shape
  BY InitShape
<1>2. /\ running = TRUE /\ ex_mem = NoResults /\ mem_wb = NoResults.lane /\ stage = "INT"
  BY DEF Init
<1>3. NoResults.lane[0] = Empty /\ NoResults.lane[1] = Empty /\ ~Valid(Empty.instr)
  BY BubbleInvalid DEF NoResults, Lanes
<1>4. Live /\ DrainedMemWb = regs
  BY <1>2, <1>3, EmptySlot DEF Live, WrittenBackHalts, DrainedMemWb, Lanes
<1>5. Arch = Going(Upcoming, regs, mem)
  <2>1. Draining = NoResults.lane
    BY <1>2 DEF Draining
  <2> QED BY <1>1, <1>4, <2>1, ArchIsMachine, DrainedLanes DEF Settled
<1>6. /\ Upcoming.csr \in CsrFile /\ Upcoming.prv \in SUBSET {0, 1} /\ Upcoming.pc \in Int
      /\ regs \in [Reg -> Word] /\ mem \in [DataAddrs -> Word]
  BY <1>1, UpcomingIs DEF AnyContext, Shape, TypeOK
<1>7. Arch \in [pc : Int, regs : [Reg -> Word], mem : [DataAddrs -> Word],
                csr : CsrFile, prv : SUBSET {0, 1}, stop : BOOLEAN]
  BY <1>5, <1>6 DEF Going
<1> QED BY <1>7, SameMachine, SameCsrFile DEF Sequential!ArchState

\* The pipeline implements the sequential machine as long as it meets none of
\* those states.
THEOREM Implements == Spec /\ []Precise => ExecutesSequentially
<1>1. Init => Arch \in Sequential!ArchState
  BY InitArch
<1>2. [Precise => Sequential!Next]_<<Arch, code>> /\ Precise
      => [Sequential!Next]_<<Arch, code>>
  OBVIOUS
<1> QED BY <1>1, <1>2, DeviatesNowhereElse, PTL
        DEF Spec, SequentialWhenPrecise, ExecutesSequentially, Sequential!Spec

-----------------------------------------------------------------------------
(* Programs that neither trap nor are interrupted                          *)

\* What is in a latch is what the program has there, without exception.
OfProgram(program, latch) ==
  \A l \in Lanes :
    Valid(latch.lane[l]) =>
      latch.pc + l \in CodeAddrs /\ latch.lane[l] = program[latch.pc + l]

AsWritten == OfProgram(code, if_id) /\ OfProgram(code, id_ex)

\* The same, slot by slot.
LEMMA OfProgramLanes ==
  ASSUME NEW program, NEW latch \in FetchLatch
  PROVE  OfProgram(program, latch) <=>
           /\ Valid(latch.lane[0]) =>
                latch.pc \in CodeAddrs /\ latch.lane[0] = program[latch.pc]
           /\ Valid(latch.lane[1]) =>
                latch.pc + 1 \in CodeAddrs /\ latch.lane[1] = program[latch.pc + 1]
<1>1. latch.pc + 0 = latch.pc
  BY DEF FetchLatch
<1> QED BY <1>1 DEF OfProgram, Lanes

\* Only a fault on the last word of memory puts something else there.
LEMMA AsWrittenStep ==
  ASSUME Shape, AsWritten, [Next]_vars, ~FetchTrapLast
  PROVE  AsWritten'
<1>1. UNCHANGED code /\ if_id \in FetchLatch /\ id_ex \in FetchLatch /\ pc \in Int
  BY CodeKept DEF Shape, TypeOK
<1>2. OfProgram(code, if_id) /\ OfProgram(code, id_ex)
  BY DEF AsWritten
<1>3. OfProgram(code, NoFetch)
  BY BubbleInvalid DEF OfProgram, NoFetch, Fetched, Lanes
<1>4. /\ OfProgram(code, Cleared(if_id)) /\ OfProgram(code, Cleared(id_ex))
  BY BubbleInvalid DEF OfProgram, Cleared, Lanes, FetchLatch
<1>5. CASE UNCHANGED <<if_id, id_ex>>
  BY <1>1, <1>2, <1>5 DEF AsWritten
<1>6. CASE Flush
  BY <1>1, <1>3, <1>6 DEF Flush, AsWritten
<1>7. InterruptCheck \/ WriteBack \/ Memory \/ Execution \/ Halted \/ UNCHANGED vars =>
        UNCHANGED <<if_id, id_ex>> \/ Flush
  BY DEF InterruptCheck, NoInterrupt, InterruptEntry, WriteBack, Memory, MemoryAccess,
         MemoryTrap, MemoryAbort, Execution, Execute, ExecuteBranch, ExecuteTrap, Halted,
         vars, latches
<1>8. CASE Issue
  <2>1. if_id' \in FetchLatch /\ id_ex' \in FetchLatch
    BY <1>8, IssueType DEF Shape, TypeOK
  <2>2. CASE DecodeNothing \/ DecodeStall \/ IssuePair
    BY <1>1, <1>2, <1>4, <2>1, <2>2
    DEF DecodeNothing, DecodeStall, IssuePair, latches, AsWritten
  <2> DEFINE issued == Fetched(if_id.pc, if_id.lane[0], Bubble)
             rest   == Fetched(if_id.pc + 1, if_id.lane[1], Bubble)
  <2>3. /\ issued.pc = if_id.pc /\ issued.lane[0] = if_id.lane[0]
        /\ issued.lane[1] = Bubble
        /\ rest.pc = if_id.pc + 1 /\ rest.lane[0] = if_id.lane[1]
        /\ rest.lane[1] = Bubble
    BY FetchedLanes
  <2>4. IssuePredicted => id_ex' = issued /\ if_id' = Cleared(if_id)
    BY DEF IssuePredicted
  <2>5. IssueSingle => id_ex' = issued /\ if_id' = rest
    BY DEF IssueSingle, SecondMovesUp
  <2> HIDE DEF issued, rest
  <2>6. CASE IssuePredicted \/ IssueSingle
    <3>1. OfProgram(code, id_ex')
      BY <1>1, <1>2, <2>1, <2>3, <2>4, <2>5, <2>6, BubbleInvalid, OfProgramLanes
    <3>2. OfProgram(code, if_id')
      BY <1>1, <1>2, <1>4, <2>1, <2>3, <2>4, <2>5, <2>6, BubbleInvalid, OfProgramLanes
    <3> QED BY <1>1, <3>1, <3>2 DEF AsWritten
  <2> QED BY <1>8, <2>2, <2>6 DEF Issue
<1>9. CASE Fetch
  <2>1. CASE FetchHeld \/ FetchNothing \/ FetchTrap
    BY <1>5, <1>6, <2>1 DEF FetchHeld, FetchNothing, FetchTrap, latches
  <2>2. CASE FetchPair \/ FetchSingle
    <3>1. if_id' \in FetchLatch /\ UNCHANGED id_ex
      BY <1>9, <2>2, FetchType DEF Shape, TypeOK, FetchPair, FetchSingle
    <3>2. pc \in CodeAddrs /\ (FetchPair => pc + 1 \in CodeAddrs)
      BY <1>1, <2>2, CodeType DEF FetchPair, FetchSingle, Shape
    <3>3. OfProgram(code, if_id')
      BY <1>1, <2>2, <3>1, <3>2, BubbleInvalid, FetchedLanes, OfProgramLanes
      DEF FetchPair, FetchSingle
    <3> QED BY <1>1, <1>2, <3>1, <3>3 DEF AsWritten
  <2> QED BY <1>9, <2>1, <2>2 DEF Fetch
<1> QED BY <1>5, <1>6, <1>7, <1>8, <1>9 DEF Next

\* Without a timer and with nothing pending no interrupt is due, and the check
\* changes nothing that is looked at.
LEMMA NothingDue ==
  ASSUME TimerLevels = {FALSE}, csr \in CsrFile, csr.mip = {}, NEW level \in TimerLevels
  PROVE  /\ ~InterruptDue(Ticked(level))
         /\ Ticked(level).csr.mip = {} /\ Ticked(level).csr.satp = csr.satp
<1>1. \A c : PendingInterrupts(c) \subseteq c.csr.mip
  BY DEF PendingInterrupts, ReadCsr
<1>2. Ticked(level).csr = HwSetMtip(csr, FALSE)
  BY DEF Ticked, Context
<1>3. HwSetMtip(csr, FALSE).mip = {} /\ HwSetMtip(csr, FALSE).satp = csr.satp
  BY DEF HwSetMtip, CsrFile
<1> QED BY <1>1, <1>2, <1>3 DEF InterruptDue

Calm == csr.mip = {} /\ csr.satp = 0 /\ AsWritten

\* Nothing is pending, nothing faults and nothing traps.
LEMMA CalmState ==
  ASSUME Shape, Calm, Untroubled
  PROVE  /\ \A level \in TimerLevels : /\ ~InterruptDue(Ticked(level))
                                       /\ Ticked(level).csr.mip = {}
                                       /\ Ticked(level).csr.satp = 0
         /\ \A l \in Lanes : ~IsTrapping(id_ex.lane[l]) /\ id_ex.lane[l].op # "csr"
         /\ \A a : Access(a, csr, prv) \in {"done", "abort"} /\ ~FetchFaults(a, csr, prv)
<1>1. csr \in CsrFile /\ code \in Programs
  BY DEF Shape, TypeOK
<1>2. \A level \in TimerLevels : /\ ~InterruptDue(Ticked(level))
                                 /\ Ticked(level).csr.mip = {}
                                 /\ Ticked(level).csr.satp = 0
  BY <1>1, NothingDue DEF Untroubled, Calm
<1>3. ASSUME NEW l \in Lanes
      PROVE  ~IsTrapping(id_ex.lane[l]) /\ id_ex.lane[l].op # "csr"
  <2>1. CASE ~Valid(id_ex.lane[l])
    BY <2>1 DEF Valid, IsTrapping
  <2>2. CASE Valid(id_ex.lane[l])
    BY <1>1, <2>2 DEF Calm, AsWritten, OfProgram, Untroubled
  <2> QED BY <2>1, <2>2
<1>4. \A a : Access(a, csr, prv) \in {"done", "abort"} /\ ~FetchFaults(a, csr, prv)
  BY DEF Calm, Untroubled, Access, FetchFaults, TranslationOn
<1> QED BY <1>2, <1>3, <1>4

\* After reset nothing is fetched.
LEMMA InitAsWritten ==
  ASSUME Init
  PROVE  AsWritten
<1>1. if_id = NoFetch /\ id_ex = NoFetch
  BY DEF Init
<1>2. OfProgram(code, NoFetch)
  BY BubbleInvalid DEF OfProgram, NoFetch, Fetched, Lanes
<1> QED BY <1>1, <1>2 DEF AsWritten

\* And nothing is pending.
LEMMA InitCalm ==
  ASSUME Init, Untroubled
  PROVE  Calm
BY InitAsWritten DEF Init, Untroubled, Calm

\* So no handler takes a trap.
LEMMA NothingTraps ==
  ASSUME Shape, Calm, Untroubled
  PROVE  ~FetchTrap /\ ~FetchTrapLast /\ \A l \in Lanes : ~MemoryTrap(l) /\ ~ExecuteTrap(l)
<1>1. ~Faulting /\ \A l \in Lanes : Outcome(l) \in {"done", "abort"}
  BY CalmState DEF Outcome, Faulting
<1>2. \A l \in Lanes : ~TrapsInLane(l)
  BY CalmState DEF TrapsInLane, Lanes
<1> QED BY <1>1, <1>2 DEF MemoryTrap, ExecuteTrap, FetchTrap, FetchTrapLast

\* So it stays.
LEMMA CalmStep ==
  ASSUME Shape, Calm, Untroubled, [Next]_vars
  PROVE  Calm'
<1>1. csr.mip = {} /\ csr.satp = 0
  BY DEF Calm
<1>2. ~FetchTrap /\ ~FetchTrapLast /\ \A l \in Lanes : ~MemoryTrap(l) /\ ~ExecuteTrap(l)
  BY NothingTraps
<1>3. AsWritten'
  BY <1>2, AsWrittenStep DEF Calm
<1>4. CASE InterruptCheck
  <2>1. PICK level \in TimerLevels : NoInterrupt(level)
    BY <1>4, CalmState DEF InterruptCheck, InterruptEntry
  <2>2. csr' = Ticked(level).csr
    BY <2>1 DEF NoInterrupt, Enter
  <2> QED BY <1>3, <2>2, CalmState DEF Calm
<1>5. CASE Execution
  <2>1. csr' = NextCsr
    BY <1>2, <1>5 DEF Execution, Execute, ExecuteBranch
  <2>2. NextCsr = csr
    BY CalmState DEF NextCsr, CsrAfter, Lanes
  <2> QED BY <1>1, <1>3, <2>1, <2>2 DEF Calm
<1>6. CASE ~InterruptCheck /\ ~Execution
  <2>1. UNCHANGED csr
    BY <1>2, <1>6 DEF Next, Halted, vars, regFile, WriteBack, Memory, MemoryAccess, MemoryAbort,
         Issue, DecodeNothing, DecodeStall, IssuePredicted, IssuePair, IssueSingle,
         Fetch, FetchHeld, FetchPair, FetchSingle, FetchNothing
  <2> QED BY <1>1, <1>3, <2>1 DEF Calm
<1> QED BY <1>4, <1>5, <1>6

\* Of the seven parts of Precise two are left.
LEMMA CalmIsPrecise ==
  ASSUME Shape, Calm, Untroubled, NothingRunsTwice, NothingBehindHalt
  PROVE  Precise
<1>1. InterruptIsPrecise
  BY CalmState DEF InterruptIsPrecise
<1>2. \A l \in Lanes : ~Faults(l)
  BY CalmState DEF Faults, DrainOutcome
<1>3. TrapsAlone
  BY CalmState DEF TrapsAlone, TrapsInLane, Lanes
<1>4. FetchFaultsAlone
  BY CalmState DEF FetchFaultsAlone, Faulting
<1>5. ASSUME NEW l \in Lanes, Valid(id_ex.lane[l])
      PROVE  /\ ~FetchFaults(id_ex.pc + l, csr, prv)
             /\ id_ex.lane[l] = ZeroWord =>
                  id_ex.pc + l \in CodeAddrs /\ IsHalting(code[id_ex.pc + l])
  <2>1. IsHalting(ZeroWord)
    BY DEF IsHalting, ZeroWord, Bubble
  <2> QED BY <1>5, <2>1, CalmState DEF Calm, AsWritten, OfProgram
<1> QED BY <1>1, <1>2, <1>3, <1>4, <1>5
        DEF Precise, FaultWritesNothing, FetchIsCurrent

\* Without traps and interrupts the pipeline implements the sequential machine,
\* for every program that nothing follows an EBREAK of and that does not run off
\* the end of memory: hazards, pairing, stalls, forwarding, prediction and
\* squashing are invisible.
THEOREM ImplementsUntroubled ==
  Untroubled =>
    (Spec /\ [](NothingRunsTwice /\ NothingBehindHalt) => ExecutesSequentially)
<1> SUFFICES ASSUME Untroubled
             PROVE  Spec /\ [](NothingRunsTwice /\ NothingBehindHalt) => ExecutesSequentially
  OBVIOUS
<1>1. Init => Calm
  BY InitCalm
<1>2. Shape /\ Calm /\ [Next]_vars => Calm'
  BY CalmStep
<1>3. Shape /\ Calm /\ NothingRunsTwice /\ NothingBehindHalt => Precise
  BY CalmIsPrecise
<1> QED BY <1>1, <1>2, <1>3, ShapeInvariant, Implements, PTL DEF Spec

-----------------------------------------------------------------------------
(* Programs with their traps and with what follows their ends              *)

\* What has been fetched and issued before an instruction may end the program.
HaltIn(latch)  == \E l \in Lanes : IsHalting(latch.lane[l])
HaltsIn(slots) == \E l \in Lanes : IsHalting(slots[l].instr)
Ending == HaltsIn(mem_wb) \/ ~running
Past   == HaltsIn(ex_mem.lane) \/ Ending
BeforeIssued  == IF stage = "ID" THEN Ending ELSE Past
BeforeFetched == Past \/ (stage # "ID" /\ HaltIn(id_ex))
BeforePc      == BeforeFetched \/ HaltIn(if_id)

\* The text up to there, what is dead from there on.
At(a, ended, text, dead) == IF ended THEN a \in dead \cup {CodeSize} ELSE a \in text

\* Where a jump through a register, a trap or a return has led out of the text
\* nothing is left in flight that could end the program, or be discarded by the
\* fault that comes next.
Entered(text) == Leads(pc, text) \/ (FetchFaults(pc, csr, prv) /\ pc # CodeSize - 1)
Astray(text) ==
  /\ pc \notin text /\ Entered(text)
  /\ ~Valid(if_id.lane[0]) /\ ~Valid(id_ex.lane[0]) /\ ~Past
  /\ pc \in CodeAddrs => \A l \in Lanes : ~Valid(ex_mem.lane[l].instr)

\* The latches and the fetch pc are where the program is, in the text or behind
\* its end.  The fetch pc is elsewhere only behind a jump that is still to be
\* issued, and stray.  What has been issued has its successor behind it.
HasJump(latch) == Valid(latch.lane[0]) /\ \E l \in Lanes : latch.lane[l].op = "jal"
Placed(text, dead) ==
  /\ Valid(id_ex.lane[0]) => At(id_ex.pc, BeforeIssued, text, dead)
  /\ Valid(if_id.lane[0]) => At(if_id.pc, BeforeFetched, text, dead)
  /\ At(pc, BeforePc, text, dead) \/ HasJump(if_id) \/ Astray(text)
  /\ stage # "IF" /\ Valid(id_ex.lane[0]) /\ ~Valid(if_id.lane[0]) => pc = CodeSize

\* Pairs are fetched from one page, and what traps is issued in slot 0.
TrapsFirst ==
  /\ Valid(if_id.lane[1]) => if_id.pc % PageInstrs # PageInstrs - 1
  /\ ~IsTrapping(id_ex.lane[1])

\* An instruction that ends the program has only passive ones behind it: in its
\* own latch, and in the latch after it.
PassivePair(slots) == IsHalting(slots[0].instr) => Passive(slots[1].instr)
PassiveBehind ==
  /\ PassivePair(ex_mem.lane) /\ PassivePair(mem_wb)
  /\ stage # "EX" /\ Ending => \A l \in Lanes : Passive(ex_mem.lane[l].instr)
  /\ stage = "EX" /\ HaltsIn(ex_mem.lane) => HaltsIn(mem_wb)
  /\ stage = "ID" =>
       \A l \in Lanes : IsHalting(ex_mem.lane[l].instr) <=> IsHalting(id_ex.lane[l])

\* A trap or return leaves nothing in flight but MEM/WB, and the program going.
Vacated == /\ if_id = NoFetch /\ id_ex = NoFetch /\ ex_mem = NoResults
           /\ ~Ending /\ PassiveBehind /\ csr.mip = {}

Drilled(text, dead) ==
  /\ csr.mip = {} /\ AsWritten
  /\ Placed(text, dead) /\ TrapsFirst /\ PassiveBehind

\* The program at hand, its layout, and where it is.
Setting(text, dead) ==
  /\ Shape /\ Order /\ TimerLevels = {FALSE}
  /\ text \in SUBSET CodeAddrs /\ dead \in SUBSET CodeAddrs /\ LaidOut(code, text, dead)
  /\ Drilled(text, dead)

\* Where the program goes from an address of it.
LEMMA OnFrom ==
  ASSUME NEW p, NEW text \in SUBSET CodeAddrs, NEW dead \in SUBSET CodeAddrs,
         LaidOut(p, text, dead), NEW e \in BOOLEAN,
         NEW a \in CodeAddrs, At(a, e, text, dead)
  PROVE  /\ a \in text \cup dead /\ a \notin UnmappedCode
         /\ p[a].op # "jal" => At(a + 1, e \/ IsHalting(p[a]), text, dead)
         /\ p[a].op \in {"branch", "jal"} => At(a + p[a].imm, e, text, dead)
         /\ e => Passive(p[a])
         /\ IsHalting(p[a]) => a \in dead
         /\ p[a].op = "csr" => p[a].csr \notin {"mip", "sip"}
<1>1. CodeSize \notin CodeAddrs
  BY SizesAssumption DEF CodeAddrs
<1>2. CASE e
  <2>1. a \in dead
    BY <1>1, <1>2 DEF At
  <2> QED BY <1>2, <2>1 DEF At, LaidOut, Passive
<1>3. CASE ~e
  <2>1. a \in text
    BY <1>3 DEF At
  <2>2. IsHalting(p[a]) => p[a].op # "jal" /\ a \in dead /\ a + 1 \in dead
    BY <2>1 DEF LaidOut, IsHalting
  <2>3. p[a].op # "jal" /\ ~IsHalting(p[a]) => a + 1 \in text
    BY <2>1 DEF LaidOut
  <2>4. p[a].op \in {"branch", "jal"} => a + p[a].imm \in text
    BY <2>1 DEF LaidOut
  <2> QED BY <1>3, <2>1, <2>2, <2>3, <2>4 DEF At, LaidOut
<1> QED BY <1>2, <1>3

\* An empty slot is passive.
LEMMA InvalidIsPassive ==
  \A i : ~Valid(i) => Passive(i) /\ ~IsHalting(i) /\ i.op # "jal"
BY DEF Valid, Passive, WritesReg, RegWrite, IsMemory, IsLoad, IsStore, IsTrapping, IsHalting

\* What is in a latch, slot by slot, and where it leads.
LEMMA LatchAt ==
  ASSUME NEW text, NEW dead, Setting(text, dead), NEW latch \in {if_id, id_ex},
         NEW e \in BOOLEAN, Valid(latch.lane[0]), At(latch.pc, e, text, dead)
  PROVE  /\ latch.pc \in CodeAddrs /\ latch.lane[0] = code[latch.pc] /\ latch.pc \in Int
         /\ latch.pc \notin UnmappedCode
         /\ Valid(latch.lane[1]) =>
              latch.pc + 1 \in CodeAddrs /\ latch.lane[1] = code[latch.pc + 1]
         /\ e => Passive(latch.lane[0])
         /\ IsHalting(latch.lane[0]) => latch.pc \in dead
         /\ latch.lane[0].op = "csr" => latch.lane[0].csr \notin {"mip", "sip"}
         /\ latch.lane[0].op # "jal" =>
              /\ At(latch.pc + 1, e \/ IsHalting(latch.lane[0]), text, dead)
              /\ e \/ IsHalting(latch.lane[0]) => Passive(latch.lane[1])
              /\ Valid(latch.lane[1]) => latch.pc + 1 \notin UnmappedCode
              /\ latch.lane[1].op # "jal" =>
                   At(latch.pc + Count(latch), e \/ HaltIn(latch), text, dead)
         /\ latch.lane[0].op \in {"branch", "jal"} =>
              At(latch.pc + latch.lane[0].imm, e, text, dead)
<1> DEFINE a  == latch.pc
           i0 == latch.lane[0]
           i1 == latch.lane[1]
           h  == e \/ IsHalting(i0)
<1>1. /\ latch \in FetchLatch /\ OfProgram(code, latch)
      /\ text \in SUBSET CodeAddrs /\ dead \in SUBSET CodeAddrs /\ LaidOut(code, text, dead)
  BY DEF Setting, Shape, TypeOK, Drilled, AsWritten
<1>2. /\ a \in Int /\ a \in CodeAddrs /\ i0 = code[a]
      /\ Valid(i1) => a + 1 \in CodeAddrs /\ i1 = code[a + 1]
  BY <1>1, OfProgramLanes DEF FetchLatch
<1>3. HaltIn(latch) <=> IsHalting(i0) \/ IsHalting(i1)
  BY DEF HaltIn, Lanes
<1> HIDE DEF a, i0, i1
<1>4. /\ a \notin UnmappedCode
      /\ i0.op # "jal" => At(a + 1, h, text, dead)
      /\ i0.op \in {"branch", "jal"} => At(a + i0.imm, e, text, dead)
      /\ e => Passive(i0)
      /\ IsHalting(i0) => a \in dead
      /\ i0.op = "csr" => i0.csr \notin {"mip", "sip"}
  BY <1>1, <1>2, OnFrom DEF a, i0
<1>5. IsHalting(i0) \in BOOLEAN /\ IsHalting(i1) \in BOOLEAN
  BY DEF IsHalting
<1>6. ASSUME i0.op # "jal"
      PROVE  /\ h => Passive(i1)
             /\ Valid(i1) => a + 1 \notin UnmappedCode
             /\ i1.op # "jal" => At(a + Count(latch), e \/ HaltIn(latch), text, dead)
  <2>1. CASE ~Valid(i1)
    <3>1. Count(latch) = 1 /\ (HaltIn(latch) <=> IsHalting(i0))
      BY <1>3, <2>1, InvalidIsPassive DEF Count, i1
    <3>2. (e \/ HaltIn(latch)) = h
      BY <1>5, <3>1
    <3>3. At(a + Count(latch), e \/ HaltIn(latch), text, dead)
      BY <1>4, <1>6, <3>1, <3>2
    <3> QED BY <2>1, <3>3, InvalidIsPassive
  <2>2. CASE Valid(i1)
    <3>1. h \in BOOLEAN /\ At(a + 1, h, text, dead) /\ a + 1 \in CodeAddrs /\ i1 = code[a + 1]
      BY <1>2, <1>4, <1>5, <1>6, <2>2
    <3> HIDE DEF h
    <3>2. /\ a + 1 \notin UnmappedCode
          /\ i1.op # "jal" => At((a + 1) + 1, h \/ IsHalting(i1), text, dead)
          /\ h => Passive(i1)
      BY <1>1, <3>1, OnFrom
    <3>3. Count(latch) = 2 /\ (a + 1) + 1 = a + 2
      BY <1>2, <2>2 DEF Count, i1
    <3>4. (h \/ IsHalting(i1)) = (e \/ HaltIn(latch))
      BY <1>3, <1>5 DEF h
    <3> QED BY <3>2, <3>3, <3>4
  <2> QED BY <2>1, <2>2
<1> QED BY <1>2, <1>4, <1>6 DEF a, i0, i1

\* Execution changes no instruction.
LEMMA ExecutedSlots ==
  \A l \in Lanes :
    /\ IsHalting(NextExMem.lane[l].instr) <=> IsHalting(id_ex.lane[l])
    /\ Passive(id_ex.lane[l]) => Passive(NextExMem.lane[l].instr)
    /\ Valid(NextExMem.lane[l].instr) => Valid(id_ex.lane[l])
<1>1. ASSUME NEW l \in Lanes, NEW exm
      PROVE  Executed(l, exm).instr = IF Valid(id_ex.lane[l]) THEN id_ex.lane[l] ELSE Bubble
  BY BubbleInvalid DEF Executed, Done
<1>2. \A l \in Lanes : NextExMem.lane[l].instr = IF Valid(id_ex.lane[l]) THEN id_ex.lane[l]
                                                                        ELSE Bubble
  BY <1>1 DEF NextExMem, Executed0, Executed1, Lanes
<1> QED BY <1>2, BubbleInvalid, InvalidIsPassive

\* Nothing is left of a latch that is cleared.
LEMMA EmptyIsPassive ==
  /\ Passive(Empty.instr) /\ ~IsHalting(Empty.instr) /\ ~Valid(Empty.instr)
  /\ \A l \in Lanes : NoResults.lane[l] = Empty
  /\ PassivePair(NoResults.lane) /\ ~HaltsIn(NoResults.lane)
  /\ ~HaltIn(NoFetch)
<1>1. Passive(Empty.instr) /\ ~IsHalting(Empty.instr) /\ ~Valid(Empty.instr)
  BY BubbleInvalid, InvalidIsPassive
<1>2. \A l \in Lanes : NoResults.lane[l] = Empty
  BY DEF NoResults
<1>3. ~HaltIn(NoFetch)
  BY NothingFetched, InvalidIsPassive DEF HaltIn, Lanes
<1> QED BY <1>1, <1>2, <1>3 DEF PassivePair, HaltsIn, Lanes

\* Trap entry and return leave mip alone.
LEMMA TrapsKeepMip ==
  ASSUME NEW c, c.csr \in CsrFile
  PROVE  /\ \A a, cause, tval : HandleTrap(c, a, cause, tval).csr.mip = c.csr.mip
         /\ Mret(c).csr.mip = c.csr.mip /\ Sret(c).csr.mip = c.csr.mip
BY DEF HandleTrap, EnterSupervisor, EnterMachine, Mret, Sret, WriteCsr, CsrFile

\* So does a CSR instruction of the program.
LEMMA WritesKeepMip ==
  ASSUME NEW i, NEW op1, NEW f \in CsrFile,
         i.op = "csr" => i.csr \in FlagCsrs \cup WordCsrs /\ i.csr \notin {"mip", "sip"}
  PROVE  CsrAfter(i, op1, f).mip = f.mip
BY DEF CsrAfter, WriteCsr, CsrFile, FlagCsrs, WordCsrs

\* The fetch pc, when it is looked at.
LEMMA FetchAt ==
  ASSUME NEW text, NEW dead, Setting(text, dead), FetchReady
  PROVE  /\ pc \in CodeAddrs /\ ~Astray(text) => At(pc, BeforeFetched, text, dead) /\ ~Faulting
         /\ pc \notin CodeAddrs /\ ~Astray(text) => pc = CodeSize
         /\ ~FetchTrapLast
<1>1. /\ text \in SUBSET CodeAddrs /\ dead \in SUBSET CodeAddrs /\ LaidOut(code, text, dead)
      /\ Placed(text, dead) /\ Shape /\ pc \in Int
  BY DEF Setting, Drilled, Shape, TypeOK
<1>2. ~Valid(if_id.lane[0]) /\ ~Valid(if_id.lane[1]) /\ ~HasJump(if_id) /\ ~HaltIn(if_id)
  BY InvalidIsPassive DEF FetchReady, HasJump, HaltIn, Lanes
<1>3. ~Astray(text) => At(pc, BeforeFetched, text, dead)
  <2>1. BeforePc = BeforeFetched
    BY <1>2 DEF BeforePc, BeforeFetched, Past, HaltsIn, HaltIn, Ending
  <2> QED BY <1>1, <1>2, <2>1 DEF Placed
<1>4. pc \in CodeAddrs /\ ~Astray(text) => ~Faulting
  <2>1. BeforeFetched \in BOOLEAN
    BY DEF BeforeFetched
  <2> QED BY <1>1, <1>3, <2>1, OnFrom DEF Faulting, FetchFaults
<1>5. pc \notin CodeAddrs /\ ~Astray(text) => pc = CodeSize
  BY <1>1, <1>3 DEF At
<1>6. ~FetchTrapLast
  <2> SUFFICES ASSUME FetchTrapLast PROVE FALSE
    OBVIOUS
  <2>1. pc = CodeSize - 1 /\ pc \in CodeAddrs /\ Faulting
    BY <1>1, SizesAssumption DEF FetchTrapLast, LastInMemory, CodeAddrs
  <2>2. Astray(text)
    BY <1>4, <2>1
  <2>3. pc \in text \/ pc # CodeSize - 1
    BY <2>1, <2>2 DEF Astray, Entered, Leads
  <2> QED BY <2>1, <2>2, <2>3 DEF Astray
<1> QED BY <1>3, <1>4, <1>5, <1>6

\* A handler that touches neither what is fetched and issued nor EX/MEM.
LEMMA PlacedStill ==
  ASSUME NEW text, NEW dead, Placed(text, dead), TrapsFirst,
         UNCHANGED <<pc, if_id, id_ex, ex_mem, prv>>, csr'.satp = csr.satp,
         stage # "ID", stage' # "ID", Past' <=> Past,
         stage' # "IF" /\ Valid(id_ex.lane[0]) /\ ~Valid(if_id.lane[0]) => pc = CodeSize
  PROVE  Placed(text, dead)' /\ TrapsFirst'
<1>1. /\ BeforeIssued' <=> BeforeIssued
      /\ BeforeFetched' <=> BeforeFetched
      /\ BeforePc' <=> BeforePc
  BY DEF BeforeIssued, BeforeFetched, BeforePc, HaltIn
<1>2. Astray(text) => Astray(text)'
  BY DEF Astray, Entered, Leads, FetchFaults, TranslationOn
<1>3. HasJump(if_id) => HasJump(if_id)'
  BY DEF HasJump
<1> QED BY <1>1, <1>2, <1>3 DEF Placed, TrapsFirst, At

\* The interrupt check samples a timer that is never due.
LEMMA CheckDrilled ==
  ASSUME NEW text, NEW dead, Setting(text, dead), AsWritten', InterruptCheck
  PROVE  Drilled(text, dead)'
<1>1. csr \in CsrFile /\ csr.mip = {} /\ TimerLevels = {FALSE}
  BY DEF Setting, Shape, TypeOK, Drilled
<1>2. PICK level \in TimerLevels : NoInterrupt(level)
  BY <1>1, NothingDue DEF InterruptCheck, InterruptEntry
<1>3. /\ UNCHANGED <<pc, if_id, id_ex, ex_mem, mem_wb, running, prv>>
      /\ csr'.mip = {} /\ csr'.satp = csr.satp /\ stage = "INT" /\ stage' = "WB"
  BY <1>1, <1>2, NothingDue DEF NoInterrupt, Enter, Ticked, Context, latches
<1>4. (Ending' <=> Ending) /\ (Past' <=> Past)
  BY <1>3 DEF Ending, Past
<1>5. PassiveBehind'
  BY <1>3, <1>4 DEF Setting, Drilled, PassiveBehind
<1>6. Placed(text, dead)' /\ TrapsFirst'
  BY <1>3, <1>4, PlacedStill DEF Setting, Drilled, Placed
<1> QED BY <1>3, <1>5, <1>6 DEF Drilled

\* Write-back stops the core when an EBREAK leaves MEM/WB.
LEMMA WriteBackDrilled ==
  ASSUME NEW text, NEW dead, Setting(text, dead), AsWritten', WriteBack
  PROVE  Drilled(text, dead)'
<1>1. /\ UNCHANGED <<pc, if_id, id_ex, ex_mem, mem_wb, prv, csr>> /\ running
      /\ stage = "WB" /\ stage' = "MEM" /\ (running' <=> ~HaltsIn(mem_wb))
  BY DEF WriteBack, latches, Setting, Order, GoesOn, HaltsIn
<1>2. (Ending' <=> Ending) /\ (Past' <=> Past)
  BY <1>1 DEF Ending, Past
<1>3. PassiveBehind'
  BY <1>1, <1>2 DEF Setting, Drilled, PassiveBehind
<1>4. Placed(text, dead)' /\ TrapsFirst'
  BY <1>1, <1>2, PlacedStill DEF Setting, Drilled, Placed
<1> QED BY <1>1, <1>3, <1>4 DEF Drilled, Setting

\* The memory stage hands EX/MEM on, with what ends the program in it.
LEMMA MemoryAccessDrilled ==
  ASSUME NEW text, NEW dead, Setting(text, dead), AsWritten', MemoryAccess
  PROVE  Drilled(text, dead)'
<1>1. /\ UNCHANGED <<pc, if_id, id_ex, ex_mem, running, prv, csr>>
      /\ stage = "MEM" /\ stage' = "EX"
  BY DEF MemoryAccess, regFile
<1>2. /\ \A l \in Lanes : mem_wb'[l].instr = ex_mem.lane[l].instr
      /\ running <=> ~HaltsIn(mem_wb)
  BY <1>1, LoadedInstr
  DEF MemoryAccess, Setting, Shape, TypeOK, ResultLatch, Order, GoesOn, HaltsIn
<1>3. (HaltsIn(mem_wb') <=> HaltsIn(ex_mem.lane)) /\ PassivePair(mem_wb')
  BY <1>2 DEF HaltsIn, PassivePair, Lanes, Setting, Drilled, PassiveBehind
<1>4. Past' <=> Past
  BY <1>1, <1>2, <1>3 DEF Ending, Past
<1>5. PassiveBehind'
  BY <1>1, <1>3 DEF Setting, Drilled, PassiveBehind
<1>6. Placed(text, dead)' /\ TrapsFirst'
  BY <1>1, <1>4, PlacedStill DEF Setting, Drilled, Placed
<1> QED BY <1>1, <1>5, <1>6 DEF Drilled, Setting

\* An access outside memory ends the process and changes no latch.
LEMMA MemoryAbortDrilled ==
  ASSUME NEW text, NEW dead, Setting(text, dead), AsWritten', NEW l \in Lanes, MemoryAbort(l)
  PROVE  Drilled(text, dead)'
<1>1. /\ UNCHANGED <<pc, if_id, id_ex, ex_mem, mem_wb, running, prv, csr>>
      /\ stage = "MEM" /\ stage' = "EXITED"
  BY DEF MemoryAbort, latches, regFile
<1>2. (Ending' <=> Ending) /\ (Past' <=> Past)
  BY <1>1 DEF Ending, Past
<1>3. PassiveBehind'
  BY <1>1, <1>2 DEF Setting, Drilled, PassiveBehind
<1>4. Placed(text, dead)' /\ TrapsFirst'
  BY <1>1, <1>2, PlacedStill DEF Setting, Drilled, Placed
<1> QED BY <1>1, <1>3, <1>4 DEF Drilled, Setting

\* So it is where it has been sent.
LEMMA VacatedDrilled ==
  ASSUME NEW text, NEW dead, Vacated', AsWritten', Entered(text)'
  PROVE  Drilled(text, dead)'
<1>1. /\ ~Valid(if_id'.lane[0]) /\ ~Valid(if_id'.lane[1])
      /\ ~Valid(id_ex'.lane[0]) /\ ~Valid(id_ex'.lane[1])
      /\ ~HaltIn(if_id') /\ ~HaltIn(id_ex')
  BY NothingFetched, EmptyIsPassive DEF Vacated
<1>2. ~Past' /\ \A l \in Lanes : ~Valid(ex_mem'.lane[l].instr)
  BY EmptyIsPassive DEF Past, Vacated
<1>3. ~BeforePc'
  BY <1>1, <1>2 DEF BeforePc, BeforeFetched
<1>4. At(pc', BeforePc', text, dead) \/ Astray(text)'
  <2>1. CASE pc' \in text
    BY <1>3, <2>1 DEF At
  <2>2. CASE pc' \notin text
    BY <1>1, <1>2, <2>2 DEF Astray
  <2> QED BY <2>1, <2>2
<1>5. ~IsTrapping(id_ex'.lane[1])
  BY <1>1, InvalidIsPassive DEF Passive
<1>6. Placed(text, dead)' /\ TrapsFirst'
  BY <1>1, <1>4, <1>5 DEF Placed, TrapsFirst
<1> QED BY <1>6 DEF Drilled, Vacated

\* An access that traps is not behind an EBREAK.
LEMMA MemoryTrapVacates ==
  ASSUME NEW text, NEW dead, Setting(text, dead), NEW l \in Lanes, MemoryTrap(l)
  PROVE  Vacated'
<1>1. /\ csr \in CsrFile /\ csr.mip = {} /\ ex_mem \in ResultLatch
      /\ PassiveBehind /\ (running <=> ~HaltsIn(mem_wb))
      /\ stage = "MEM" /\ stage' = "EX" /\ UNCHANGED running
      /\ if_id' = NoFetch /\ id_ex' = NoFetch /\ ex_mem' = NoResults
  BY DEF Setting, Shape, TypeOK, Drilled, MemoryTrap, Order, GoesOn, HaltsIn, Flush
<1>2. IsMemory(ex_mem.lane[l].instr)
  BY DEF MemoryTrap, Outcome
<1>3. ~Ending /\ running /\ ~IsHalting(ex_mem.lane[l].instr)
  BY <1>1, <1>2 DEF PassiveBehind, Passive, Ending, IsMemory, IsLoad, IsStore, IsHalting
<1>4. \A k \in Lanes : k < l => ~IsHalting(ex_mem.lane[k].instr)
  BY <1>1, <1>2 DEF PassiveBehind, PassivePair, Passive, Lanes
<1>5. \A k \in Lanes : mem_wb'[k].instr = IF k <= l THEN ex_mem.lane[k].instr ELSE Empty.instr
  <2>1. mem_wb' = [k \in Lanes |-> CASE k < l -> Loaded(mem, ex_mem.lane[k])
                                     [] k = l -> ex_mem.lane[k]
                                     [] OTHER -> Empty]
    BY DEF MemoryTrap
  <2>2. \A k \in Lanes : Loaded(mem, ex_mem.lane[k]).instr = ex_mem.lane[k].instr
    BY <1>1, LoadedInstr DEF ResultLatch
  <2> QED BY <2>1, <2>2 DEF Lanes
<1>6. ~HaltsIn(mem_wb') /\ PassivePair(mem_wb')
  BY <1>3, <1>4, <1>5, EmptyIsPassive DEF HaltsIn, PassivePair, Lanes
<1>7. PassiveBehind' /\ ~Ending'
  BY <1>1, <1>3, <1>6, EmptyIsPassive DEF PassiveBehind, Ending
<1>8. csr'.mip = {}
  <2>1. Context.csr = csr
    BY DEF Context
  <2>2. \A a, cause, tval : HandleTrap(Context, a, cause, tval).csr.mip = {}
    BY <1>1, <2>1, TrapsKeepMip
  <2> QED BY <2>2 DEF MemoryTrap, Enter
<1> QED BY <1>1, <1>7, <1>8 DEF Vacated

\* What is about to be executed.
LEMMA AtExecution ==
  ASSUME NEW text, NEW dead, Setting(text, dead), stage = "EX"
  PROVE  /\ Past <=> Ending
         /\ BeforeFetched <=> Ending \/ HaltIn(id_ex)
         /\ Ending \in BOOLEAN
         /\ Valid(id_ex.lane[0]) => At(id_ex.pc, Ending, text, dead)
         /\ Valid(id_ex.lane[1]) => Valid(id_ex.lane[0]) /\ id_ex.lane[0].op # "jal"
         /\ ~Valid(id_ex.lane[0]) => ~HaltIn(id_ex)
<1>1. Past <=> Ending
  BY DEF Past, Setting, Drilled, PassiveBehind, Ending
<1>2. Ending \in BOOLEAN /\ Past \in BOOLEAN
  BY DEF Ending, Past
<1>3. Valid(id_ex.lane[1]) => Valid(id_ex.lane[0]) /\ id_ex.lane[0].op # "jal"
  BY DEF Setting, Shape, LanesInOrder, InOrder, Order, FlowOf, PredictedTaken
<1>4. BeforeIssued = Ending
  BY <1>1, <1>2 DEF BeforeIssued
<1>5. ~Valid(id_ex.lane[0]) => ~HaltIn(id_ex)
  BY <1>3, InvalidIsPassive DEF HaltIn, Lanes
<1>6. BeforeFetched <=> Ending \/ HaltIn(id_ex)
  BY <1>1 DEF BeforeFetched
<1> QED BY <1>1, <1>2, <1>3, <1>4, <1>5, <1>6 DEF Setting, Drilled, Placed

\* The execute stage writes no pending bit.
LEMMA NextCsrMip ==
  ASSUME NEW text, NEW dead, Setting(text, dead), stage = "EX"
  PROVE  /\ NextCsr.mip = {}
         /\ ~Valid(id_ex.lane[0]) \/ IsTrapping(id_ex.lane[0]) => NextCsr = csr
<1>1. csr \in CsrFile /\ csr.mip = {} /\ id_ex.lane[0] \in Decoded
  BY DEF Setting, Shape, TypeOK, Drilled, FetchLatch, Lanes
<1>2. id_ex.lane[1].op # "csr"
  BY DEF Setting, Shape, PairsAllowed, MayPair, IsSystem, Valid
<1>3. NextCsr = CsrAfter(id_ex.lane[0], Operand(id_ex.lane[0].rs1, 0, ex_mem.lane), csr)
  BY <1>2 DEF NextCsr, CsrAfter
<1>4. id_ex.lane[0].op = "csr" => Valid(id_ex.lane[0]) /\ id_ex.lane[0].csr \notin {"mip", "sip"}
  BY AtExecution, LatchAt DEF Valid
<1>5. id_ex.lane[0].op = "csr" => id_ex.lane[0].csr \in FlagCsrs \cup WordCsrs
  BY <1>1 DEF Decoded, Instr
<1>6. NextCsr.mip = {}
  BY <1>1, <1>3, <1>4, <1>5, WritesKeepMip
<1>7. ~Valid(id_ex.lane[0]) \/ IsTrapping(id_ex.lane[0]) => NextCsr = csr
  BY <1>3 DEF CsrAfter, Valid, IsTrapping
<1> QED BY <1>6, <1>7

\* Execution hands ID/EX on: the end of the program may now be in EX/MEM.
LEMMA ExecuteDrilled ==
  ASSUME NEW text, NEW dead, Setting(text, dead), AsWritten', Execute
  PROVE  Drilled(text, dead)'
<1>1. /\ UNCHANGED <<pc, if_id, id_ex, mem_wb, running, prv>> /\ csr' = NextCsr
      /\ ex_mem' = NextExMem /\ stage = "EX" /\ stage' = "ID"
  BY DEF Execute
<1>2. /\ Ending' <=> Ending
      /\ HaltsIn(ex_mem'.lane) <=> HaltIn(id_ex)
      /\ \A l \in Lanes : IsHalting(ex_mem'.lane[l].instr) <=> IsHalting(id_ex'.lane[l])
  BY <1>1, ExecutedSlots DEF Ending, HaltsIn, HaltIn
<1>3. /\ BeforeIssued' <=> BeforeIssued
      /\ BeforeFetched' <=> BeforeFetched
      /\ BeforePc' <=> BeforePc
  <2>1. BeforeIssued' <=> BeforeIssued
    BY <1>1, <1>2, AtExecution DEF BeforeIssued
  <2>2. BeforeFetched' <=> BeforeFetched
    BY <1>1, <1>2, AtExecution DEF BeforeFetched, Past
  <2> QED BY <1>1, <2>1, <2>2 DEF BeforePc, HaltIn
<1>4. Astray(text) => Astray(text)'
  <2> SUFFICES ASSUME Astray(text) PROVE Astray(text)'
    OBVIOUS
  <2>1. ~Valid(id_ex.lane[0]) /\ ~Valid(id_ex.lane[1]) /\ csr' = csr
    BY <1>1, AtExecution, NextCsrMip DEF Astray
  <2>2. \A l \in Lanes : ~Valid(ex_mem'.lane[l].instr)
    BY <1>1, <2>1, ExecutedSlots DEF Lanes
  <2>3. ~Past'
    BY <1>1, <1>2, <2>1, AtExecution DEF Past, Astray
  <2> QED BY <1>1, <2>1, <2>2, <2>3 DEF Astray, Entered, Leads
<1>5. Placed(text, dead)' /\ TrapsFirst'
  <2>1. HasJump(if_id) => HasJump(if_id)'
    BY <1>1 DEF HasJump
  <2>2. Placed(text, dead) /\ TrapsFirst
    BY DEF Setting, Drilled
  <2> QED BY <1>1, <1>3, <1>4, <2>1, <2>2 DEF Placed, TrapsFirst, At
<1>6. PassiveBehind'
  <2>1. PassivePair(mem_wb)
    BY DEF Setting, Drilled, PassiveBehind
  <2>2. Valid(id_ex.lane[0]) /\ IsHalting(id_ex.lane[0]) => Passive(id_ex.lane[1])
    BY AtExecution, LatchAt, <1>1 DEF IsHalting
  <2>3. PassivePair(ex_mem'.lane)
    BY <1>1, <2>2, ExecutedSlots, InvalidIsPassive DEF PassivePair, Lanes
  <2>4. ASSUME Ending, NEW l \in Lanes
        PROVE  Passive(id_ex.lane[l])
    <3>1. CASE ~Valid(id_ex.lane[l])
      BY <3>1, InvalidIsPassive
    <3>2. CASE Valid(id_ex.lane[l])
      BY <1>1, <2>4, <3>2, AtExecution, LatchAt DEF Lanes
    <3> QED BY <3>1, <3>2
  <2>5. Ending => \A l \in Lanes : Passive(ex_mem'.lane[l].instr)
    BY <1>1, <2>4, ExecutedSlots
  <2> QED BY <1>1, <1>2, <2>1, <2>3, <2>5 DEF PassiveBehind
<1> QED BY <1>1, <1>5, <1>6, NextCsrMip DEF Drilled

\* The target of a jump through a register is in the text, or out of memory.
JumpLeads(text) ==
  stage = "EX" /\ Branch.op = "jalr" => Leads(JumpTarget(Branch, id_ex.pc, BranchOperand1), text)

\* A branch or jump goes where its target is, and squashes what was fetched.
LEMMA ExecuteBranchDrilled ==
  ASSUME NEW text, NEW dead, Setting(text, dead), AsWritten', JumpLeads(text), ExecuteBranch
  PROVE  Drilled(text, dead)'
<1>1. /\ UNCHANGED <<mem_wb, running, prv>> /\ csr' = NextCsr /\ stage = "EX" /\ stage' = "ID"
      /\ ex_mem' = [NextExMem EXCEPT !.lane[1] = Empty] /\ Redirects
  BY DEF ExecuteBranch
<1>2. ex_mem'.lane[0] = NextExMem.lane[0] /\ ex_mem'.lane[1] = Empty
  BY <1>1 DEF NextExMem, Lanes
<1>3. /\ Branch.op \in {"branch", "jal", "jalr"} /\ Valid(id_ex.lane[0])
      /\ ~IsHalting(id_ex.lane[0]) /\ Branch = id_ex.lane[0]
  BY <1>1 DEF Redirects, Taken, BranchTaken, PredictedTaken, Branch, Valid, IsHalting
<1>4. ~HaltsIn(ex_mem'.lane) /\ (Ending' <=> Ending) /\ (Past' <=> Ending)
  BY <1>1, <1>2, <1>3, ExecutedSlots, EmptyIsPassive DEF HaltsIn, Lanes, Ending, Past
<1>5. /\ Ending \in BOOLEAN /\ (Past <=> Ending)
      /\ At(id_ex.pc, Ending, text, dead)
      /\ BeforeFetched <=> Ending \/ HaltIn(id_ex)
  BY <1>1, <1>3, AtExecution
<1>6. /\ Ending => Passive(id_ex.lane[0])
      /\ Branch.op = "branch" => At(id_ex.pc + 1, Ending, text, dead)
      /\ Branch.op \in {"branch", "jal"} => At(id_ex.pc + Branch.imm, Ending, text, dead)
  <2>1. (Ending \/ IsHalting(id_ex.lane[0])) = Ending
    <3> DEFINE h == IsHalting(id_ex.lane[0])
    <3>1. ~h /\ Ending \in BOOLEAN
      BY <1>3, <1>5
    <3> HIDE DEF h
    <3>2. (Ending \/ h) = Ending
      BY <3>1
    <3> QED BY <3>2 DEF h
  <2> QED BY <1>3, <1>5, <2>1, LatchAt
<1>7. ASSUME ~HaltIn(id_ex')
      PROVE  PassiveBehind'
  <2>1. PassivePair(mem_wb)
    BY DEF Setting, Drilled, PassiveBehind
  <2>2. PassivePair(ex_mem'.lane)
    BY <1>2, EmptyIsPassive DEF PassivePair
  <2>3. Ending => \A l \in Lanes : Passive(ex_mem'.lane[l].instr)
    BY <1>2, <1>6, ExecutedSlots, EmptyIsPassive DEF Lanes
  <2>4. \A l \in Lanes : ~IsHalting(ex_mem'.lane[l].instr) /\ ~IsHalting(id_ex'.lane[l])
    BY <1>4, <1>7 DEF HaltsIn, HaltIn
  <2> QED BY <1>1, <1>4, <2>1, <2>2, <2>3, <2>4 DEF PassiveBehind
<1>8. CASE Taken = PredictedTaken(Branch)
  <2>1. UNCHANGED <<pc, if_id, id_ex>> /\ PredictedTaken(id_ex.lane[0])
    BY <1>1, <1>3, <1>8 DEF ExecuteBranch, Redirects, Taken, BranchTaken, PredictedTaken
  <2>2. ~Valid(id_ex.lane[1]) /\ ~HaltIn(id_ex)
    BY <1>3, <2>1, InvalidIsPassive DEF Setting, Order, FlowOf, HaltIn, Lanes
  <2>3. /\ BeforeIssued' <=> Ending
        /\ BeforeIssued <=> Ending
        /\ BeforeFetched' <=> BeforeFetched
        /\ BeforePc' <=> BeforePc
    BY <1>1, <1>4, <1>5, <2>1, <2>2 DEF BeforeIssued, BeforeFetched, BeforePc, HaltIn
  <2>4. ~Astray(text) /\ (HasJump(if_id) => HasJump(if_id)')
    BY <1>3, <2>1 DEF Astray, HasJump
  <2>5. Placed(text, dead)' /\ TrapsFirst'
    BY <1>1, <2>1, <2>3, <2>4 DEF Setting, Drilled, Placed, TrapsFirst, At
  <2> QED BY <1>1, <1>7, <2>1, <2>2, <2>5, NextCsrMip DEF Drilled, HaltIn
<1>9. CASE Taken # PredictedTaken(Branch)
  <2>1. /\ pc' = IF Taken THEN JumpTarget(Branch, id_ex.pc, BranchOperand1) ELSE id_ex.pc + 1
        /\ if_id' = NoFetch /\ id_ex' = NoFetch
    BY <1>9 DEF ExecuteBranch, Flush
  <2>2. /\ ~Valid(if_id'.lane[0]) /\ ~Valid(if_id'.lane[1])
        /\ ~Valid(id_ex'.lane[0]) /\ ~Valid(id_ex'.lane[1])
        /\ ~HaltIn(if_id') /\ ~HaltIn(id_ex')
    BY <2>1, NothingFetched, EmptyIsPassive
  <2>3. BeforePc' <=> Ending
    BY <1>1, <1>4, <2>2 DEF BeforePc, BeforeFetched
  <2>4. Branch.op # "jalr" => At(pc', Ending, text, dead)
    BY <1>3, <1>6, <1>9, <2>1 DEF Taken, BranchTaken, PredictedTaken, JumpTarget
  <2>5. Branch.op = "jalr" => ~Ending /\ Leads(pc', text)
    BY <1>1, <1>3, <1>6, <2>1 DEF Passive, JumpLeads, Taken, BranchTaken
  <2>6. At(pc', BeforePc', text, dead) \/ Astray(text)'
    BY <1>4, <2>2, <2>3, <2>4, <2>5 DEF At, Astray, Entered, Leads
  <2>7. Placed(text, dead)' /\ TrapsFirst'
    BY <2>2, <2>6, InvalidIsPassive DEF Placed, TrapsFirst, Passive
  <2> QED BY <1>1, <1>7, <2>2, <2>7, NextCsrMip DEF Drilled, HaltIn
<1> QED BY <1>8, <1>9

\* An instruction that traps is in slot 0, and not behind an EBREAK.
LEMMA ExecuteTrapVacates ==
  ASSUME NEW text, NEW dead, Setting(text, dead), NEW l \in Lanes, ExecuteTrap(l)
  PROVE  Vacated'
<1>1. /\ csr \in CsrFile /\ csr.mip = {} /\ PassiveBehind /\ TrapsFirst
      /\ stage = "EX" /\ stage' = "ID" /\ UNCHANGED <<running, mem_wb>>
      /\ if_id' = NoFetch /\ id_ex' = NoFetch /\ ex_mem' = NoResults
  BY DEF Setting, Shape, TypeOK, Drilled, ExecuteTrap, Flush
<1>2. l = 0 /\ IsTrapping(id_ex.lane[0])
  BY <1>1 DEF ExecuteTrap, TrapsInLane, TrapsFirst, Lanes
<1>3. Valid(id_ex.lane[0]) /\ ~Passive(id_ex.lane[0])
  BY <1>2 DEF IsTrapping, Valid, Passive
<1>4. ~Ending
  BY <1>1, <1>3, AtExecution, LatchAt
<1>5. PassiveBehind' /\ ~Ending'
  BY <1>1, <1>4, EmptyIsPassive DEF PassiveBehind, Ending, HaltsIn, HaltIn
<1>6. csr'.mip = {}
  <2> DEFINE c == [Context EXCEPT !.csr = NextCsr]
  <2>1. c.csr = csr
    BY <1>1, <1>2, NextCsrMip DEF Context
  <2> HIDE DEF c
  <2>2. /\ \A a, cause, tval : HandleTrap(c, a, cause, tval).csr.mip = {}
        /\ Mret(c).csr.mip = {} /\ Sret(c).csr.mip = {}
    BY <1>1, <2>1, TrapsKeepMip
  <2>3. csr' = (CASE id_ex.lane[l].op = "mret" -> Mret(c)
                  [] id_ex.lane[l].op = "sret" -> Sret(c)
                  [] id_ex.lane[l].op \in {"ecall", "illegal"} ->
                       HandleTrap(c, TrapPc(id_ex.lane[l], id_ex.pc + l),
                                  TrapCause(id_ex.lane[l], prv), TrapValue(id_ex.lane[l]))).csr
    BY DEF ExecuteTrap, Enter, c
  <2> QED BY <1>2, <2>2, <2>3 DEF IsTrapping
<1> QED BY <1>1, <1>5, <1>6 DEF Vacated

\* Whatever the issue unit does, what is executed stays, and what is issued is
\* what was fetched.
LEMMA AtIssue ==
  ASSUME NEW text, NEW dead, Setting(text, dead), AsWritten', Issue
  PROVE  /\ UNCHANGED <<ex_mem, mem_wb, running, prv, csr>> /\ stage = "ID" /\ stage' = "IF"
         /\ Past \in BOOLEAN /\ Past' = Past /\ (BeforeFetched <=> Past)
         /\ Valid(if_id.lane[0]) => At(if_id.pc, Past, text, dead) /\ ~Astray(text)
         /\ At(pc, Past \/ HaltIn(if_id), text, dead) \/ HasJump(if_id) \/ Astray(text)
         /\ if_id \in FetchLatch /\ id_ex \in FetchLatch
         /\ Placed(text, dead)' /\ TrapsFirst' => Drilled(text, dead)'
<1>1. /\ UNCHANGED <<ex_mem, mem_wb, running, prv, csr>> /\ stage = "ID" /\ stage' = "IF"
  BY DEF Issue, DecodeNothing, DecodeStall, DecodeReady, IssuePredicted, IssuePair, IssueSingle,
         latches, regFile
<1>2. Past \in BOOLEAN /\ Past' = Past /\ (Ending' <=> Ending) /\ (BeforeFetched <=> Past)
  BY <1>1 DEF Past, Ending, BeforeFetched
<1>3. BeforeFetched = Past /\ BeforePc = (Past \/ HaltIn(if_id))
  BY <1>1 DEF BeforeFetched, BeforePc, Past
<1>4. PassiveBehind'
  BY <1>1, <1>2 DEF Setting, Drilled, PassiveBehind
<1> QED BY <1>1, <1>2, <1>3, <1>4
        DEF Setting, Drilled, Placed, Astray, Shape, TypeOK

\* Nothing that is fetched is behind a latch that is emptied.
LEMMA ClearedLatch ==
  ASSUME NEW latch \in FetchLatch
  PROVE  /\ ~Valid(Cleared(latch).lane[0]) /\ ~Valid(Cleared(latch).lane[1])
         /\ ~HaltIn(Cleared(latch)) /\ ~IsTrapping(Cleared(latch).lane[1])
<1>1. ~Valid(Cleared(latch).lane[0]) /\ ~Valid(Cleared(latch).lane[1])
  BY FetchedLanes
<1> QED BY <1>1, InvalidIsPassive DEF HaltIn, Lanes, Passive

\* A pair does not trap in slot 1.
LEMMA IssuePairDrilled ==
  ASSUME NEW text, NEW dead, Setting(text, dead), AsWritten', IssuePair
  PROVE  Drilled(text, dead)'
<1> DEFINE i0 == if_id.lane[0]
           i1 == if_id.lane[1]
<1>1. /\ Valid(i0) /\ Valid(i1) /\ ~PredictedTaken(i0) /\ CanIssueTogether(i0, i1)
      /\ id_ex' = if_id /\ if_id' = Cleared(if_id) /\ pc' = pc /\ Issue
  BY DEF IssuePair, DecodeReady, Issue
<1>2. i0.op # "jal" /\ i1.op # "jal" /\ ~HasJump(if_id)
  BY <1>1 DEF PredictedTaken, CanIssueTogether, IsBranch, HasJump, Lanes
<1>3. /\ stage' = "IF" /\ Past \in BOOLEAN /\ Past' = Past /\ if_id \in FetchLatch
      /\ At(if_id.pc, Past, text, dead) /\ At(pc, Past \/ HaltIn(if_id), text, dead)
  BY <1>1, <1>2, AtIssue
<1>4. ~Valid(if_id'.lane[0]) /\ ~Valid(if_id'.lane[1]) /\ ~HaltIn(if_id')
  BY <1>1, <1>3, ClearedLatch
<1>5. BeforeIssued' = Past /\ BeforePc' = (Past \/ HaltIn(if_id))
  BY <1>1, <1>3, <1>4 DEF BeforeIssued, BeforePc, BeforeFetched, HaltIn
<1>6. Placed(text, dead)'
  BY <1>1, <1>3, <1>4, <1>5 DEF Placed, At
<1>7. ~IsTrapping(i1)
  <2>1. CASE Past
    BY <1>1, <1>2, <1>3, <2>1, LatchAt DEF Passive
  <2>2. CASE ~Past
    <3>1. if_id.pc \in text /\ if_id.pc % PageInstrs # PageInstrs - 1
      BY <1>1, <1>3, <2>2 DEF At, Setting, Drilled, TrapsFirst
    <3>2. i0 = code[if_id.pc] /\ i1 = code[if_id.pc + 1] /\ if_id.pc + 1 \in CodeAddrs
      BY <1>1, <1>3, LatchAt
    <3> QED BY <1>1, <3>1, <3>2 DEF Setting, LaidOut
  <2> QED BY <2>1, <2>2
<1>8. TrapsFirst'
  BY <1>1, <1>4, <1>7 DEF TrapsFirst
<1> QED BY <1>1, <1>6, <1>8, AtIssue

\* The slot that stays behind is where the issued one leads.
LEMMA IssueSingleDrilled ==
  ASSUME NEW text, NEW dead, Setting(text, dead), AsWritten', IssueSingle
  PROVE  Drilled(text, dead)'
<1> DEFINE i0 == if_id.lane[0]
           i1 == if_id.lane[1]
<1>1. /\ Valid(i0) /\ ~PredictedTaken(i0) /\ pc' = pc /\ Issue
      /\ id_ex' = Fetched(if_id.pc, i0, Bubble) /\ if_id' = Fetched(if_id.pc + 1, i1, Bubble)
  BY DEF IssueSingle, DecodeReady, Issue, SecondMovesUp
<1>2. /\ id_ex'.pc = if_id.pc /\ id_ex'.lane[0] = i0 /\ id_ex'.lane[1] = Bubble
      /\ if_id'.pc = if_id.pc + 1 /\ if_id'.lane[0] = i1 /\ if_id'.lane[1] = Bubble
  BY <1>1, FetchedLanes
<1>3. i0.op # "jal" /\ ~Valid(Bubble) /\ ~IsHalting(Bubble) /\ ~IsTrapping(Bubble)
  BY <1>1, BubbleInvalid, InvalidIsPassive DEF PredictedTaken, Passive
<1>4. /\ (HaltIn(id_ex') <=> IsHalting(i0)) /\ (HaltIn(if_id') <=> IsHalting(i1))
      /\ (HaltIn(if_id) <=> IsHalting(i0) \/ IsHalting(i1))
      /\ HasJump(if_id) => HasJump(if_id')
  <2>1. HasJump(if_id) => i1.op = "jal"
    BY <1>3 DEF HasJump, Lanes
  <2>2. i1.op = "jal" => Valid(i1)
    BY DEF Valid
  <2> QED BY <1>2, <1>3, <2>1, <2>2 DEF HaltIn, Lanes, HasJump
<1>5. /\ stage' = "IF" /\ Past \in BOOLEAN /\ Past' = Past
      /\ At(if_id.pc, Past, text, dead)
      /\ At(pc, Past \/ HaltIn(if_id), text, dead) \/ HasJump(if_id)
  BY <1>1, AtIssue
<1>6. At(if_id.pc + 1, Past \/ IsHalting(i0), text, dead)
  BY <1>1, <1>3, <1>5, LatchAt
<1>7. /\ BeforeIssued' = Past
      /\ BeforeFetched' <=> Past \/ IsHalting(i0)
      /\ BeforePc' <=> Past \/ HaltIn(if_id)
  BY <1>4, <1>5 DEF BeforeIssued, BeforePc, BeforeFetched
<1>8. Placed(text, dead)'
  BY <1>1, <1>2, <1>4, <1>5, <1>6, <1>7 DEF Placed, At, HasJump
<1>9. TrapsFirst'
  BY <1>2, <1>3 DEF TrapsFirst
<1> QED BY <1>1, <1>8, <1>9, AtIssue

\* A predicted branch or jump takes the fetch pc to its target.
LEMMA IssuePredictedDrilled ==
  ASSUME NEW text, NEW dead, Setting(text, dead), AsWritten', IssuePredicted
  PROVE  Drilled(text, dead)'
<1> DEFINE i0 == if_id.lane[0]
<1>1. /\ Valid(i0) /\ PredictedTaken(i0) /\ Issue
      /\ id_ex' = Fetched(if_id.pc, i0, Bubble) /\ if_id' = Cleared(if_id)
      /\ Predict(id_ex')
  BY DEF IssuePredicted, DecodeReady, Issue
<1>2. /\ id_ex'.pc = if_id.pc /\ id_ex'.lane[0] = i0 /\ id_ex'.lane[1] = Bubble
      /\ pc' = if_id.pc + i0.imm
  BY <1>1, FetchedLanes DEF Predict
<1>3. i0.op \in {"branch", "jal"} /\ ~IsHalting(i0) /\ ~IsHalting(Bubble) /\ ~IsTrapping(Bubble)
  BY <1>1, BubbleInvalid, InvalidIsPassive DEF PredictedTaken, Passive, IsHalting
<1>4. /\ stage' = "IF" /\ Past \in BOOLEAN /\ Past' = Past /\ if_id \in FetchLatch
      /\ At(if_id.pc, Past, text, dead)
  BY <1>1, AtIssue
<1>5. At(pc', Past, text, dead)
  BY <1>1, <1>2, <1>3, <1>4, LatchAt
<1>6. ~Valid(if_id'.lane[0]) /\ ~Valid(if_id'.lane[1]) /\ ~HaltIn(if_id')
  BY <1>1, <1>4, ClearedLatch
<1>7. ~HaltIn(id_ex')
  BY <1>2, <1>3 DEF HaltIn, Lanes
<1>8. BeforeIssued' = Past /\ (BeforePc' <=> Past)
  BY <1>4, <1>6, <1>7 DEF BeforeIssued, BeforePc, BeforeFetched
<1>9. Placed(text, dead)'
  BY <1>2, <1>4, <1>5, <1>6, <1>8 DEF Placed, At
<1>10. TrapsFirst'
  BY <1>2, <1>3, <1>6 DEF TrapsFirst
<1> QED BY <1>1, <1>9, <1>10, AtIssue

\* A stall empties ID/EX.
LEMMA DecodeStallDrilled ==
  ASSUME NEW text, NEW dead, Setting(text, dead), AsWritten', DecodeStall
  PROVE  Drilled(text, dead)'
<1>1. /\ Valid(if_id.lane[0]) /\ id_ex' = Cleared(id_ex) /\ pc' = pc /\ if_id' = if_id /\ Issue
  BY DEF DecodeStall, Issue
<1>2. /\ stage' = "IF" /\ Past \in BOOLEAN /\ Past' = Past /\ id_ex \in FetchLatch
      /\ At(if_id.pc, Past, text, dead)
      /\ At(pc, Past \/ HaltIn(if_id), text, dead) \/ HasJump(if_id)
  BY <1>1, AtIssue
<1>3. ~Valid(id_ex'.lane[0]) /\ ~HaltIn(id_ex') /\ ~IsTrapping(id_ex'.lane[1])
  BY <1>1, <1>2, ClearedLatch
<1>4. (BeforeFetched' <=> Past) /\ (BeforePc' <=> Past \/ HaltIn(if_id))
  BY <1>1, <1>2, <1>3 DEF BeforePc, BeforeFetched, HaltIn
<1>5. Placed(text, dead)'
  BY <1>1, <1>2, <1>3, <1>4 DEF Placed, At, HasJump
<1>6. TrapsFirst'
  BY <1>1, <1>3 DEF TrapsFirst, Setting, Drilled
<1> QED BY <1>1, <1>5, <1>6, AtIssue

\* A latch with nothing behind it is at the end of memory, and the program has
\* ended in it or before it.
LEMMA RunsOut ==
  ASSUME NEW text, NEW dead, Setting(text, dead), stage = "ID",
         Valid(id_ex.lane[0]), ~Valid(if_id.lane[0])
  PROVE  /\ pc = CodeSize /\ pc = After(id_ex) /\ Past
         /\ At(id_ex.pc, TRUE, text, dead)
         /\ Ending \/ IsHalting(id_ex.lane[0])
<1>1. ~HaltIn(if_id) /\ ~HasJump(if_id) /\ ~Astray(text)
  BY InvalidIsPassive
  DEF Setting, Shape, LanesInOrder, InOrder, HaltIn, Lanes, HasJump, Astray
<1>2. /\ pc = CodeSize /\ pc = After(id_ex) /\ CodeSize \notin CodeAddrs
      /\ id_ex \in FetchLatch
  BY SizesAssumption
  DEF Setting, Drilled, Placed, Order, FlowOf, CodeAddrs, Shape, TypeOK
<1>3. At(pc, BeforePc, text, dead) /\ (BeforePc <=> Past)
  BY <1>1 DEF Setting, Drilled, Placed, BeforePc, BeforeFetched
<1>4. Past
  BY <1>2, <1>3 DEF At, Setting
<1>5. At(id_ex.pc, Ending, text, dead) /\ Ending \in BOOLEAN
  BY DEF Setting, Drilled, Placed, BeforeIssued, Ending
<1>6. ASSUME ~Ending
      PROVE  IsHalting(id_ex.lane[0])
  <2> SUFFICES ASSUME ~IsHalting(id_ex.lane[0]) PROVE FALSE
    OBVIOUS
  <2>1. IsHalting(id_ex.lane[1])
    BY <1>4, <1>6 DEF Past, HaltsIn, Setting, Drilled, PassiveBehind, Lanes
  <2>2. Valid(id_ex.lane[1]) /\ ~PredictedTaken(id_ex.lane[0])
    BY <2>1, InvalidIsPassive DEF Setting, Order, FlowOf
  <2>3. id_ex.lane[1] = code[id_ex.pc + 1] /\ id_ex.pc \in Int
    BY <1>5, <2>2, LatchAt
  <2>4. At(id_ex.pc + 1, FALSE, text, dead)
    <3>1. id_ex.lane[0].op # "jal"
      BY <2>2 DEF PredictedTaken
    <3>2. (Ending \/ IsHalting(id_ex.lane[0])) <=> FALSE
      BY <1>6
    <3>3. At(id_ex.pc + 1, Ending \/ IsHalting(id_ex.lane[0]), text, dead)
      BY <1>5, <3>1, LatchAt
    <3> QED BY <3>2, <3>3 DEF At
  <2>5. (id_ex.pc + 1) + 1 \in dead
    BY <2>1, <2>3, <2>4 DEF At, Setting, LaidOut
  <2>6. After(id_ex) = (id_ex.pc + 1) + 1
    BY <2>2, <2>3 DEF After, Count
  <2> QED BY <1>2, <2>5, <2>6 DEF Setting
<1>7. At(id_ex.pc, TRUE, text, dead)
  <2>1. CASE Ending
    BY <1>5, <2>1 DEF At
  <2>2. CASE IsHalting(id_ex.lane[0])
    BY <1>5, <2>2, LatchAt DEF At
  <2> QED BY <1>6, <2>1, <2>2
<1> QED BY <1>2, <1>4, <1>6, <1>7

\* With nothing to decode, ID/EX is kept, to be executed again if it is valid.
LEMMA DecodeNothingDrilled ==
  ASSUME NEW text, NEW dead, Setting(text, dead), AsWritten', DecodeNothing
  PROVE  Drilled(text, dead)'
<1>1. /\ ~Valid(if_id.lane[0]) /\ Predict(id_ex) /\ UNCHANGED <<if_id, id_ex>> /\ Issue
  BY DEF DecodeNothing, Issue, latches
<1>2. /\ UNCHANGED <<ex_mem, prv, csr>> /\ stage = "ID" /\ stage' = "IF"
      /\ Past \in BOOLEAN /\ Past' = Past
      /\ At(pc, Past \/ HaltIn(if_id), text, dead) \/ HasJump(if_id) \/ Astray(text)
  BY <1>1, AtIssue
<1>3. ~HaltIn(if_id) /\ ~HasJump(if_id) /\ TrapsFirst'
  BY <1>1, InvalidIsPassive
  DEF Setting, Shape, LanesInOrder, InOrder, HaltIn, Lanes, HasJump, Drilled, TrapsFirst
<1>4. CASE ~Valid(id_ex.lane[0])
  <2>1. ~HaltIn(id_ex) /\ pc' = pc
    BY <1>1, <1>4, InvalidIsPassive
    DEF Setting, Shape, LanesInOrder, InOrder, HaltIn, Lanes, Predict, PredictedTaken, Valid
  <2>2. BeforePc' = Past
    BY <1>1, <1>2, <1>3, <2>1 DEF BeforePc, BeforeFetched, HaltIn
  <2>3. At(pc, Past, text, dead) \/ Astray(text)
    BY <1>2, <1>3 DEF At
  <2>4. Astray(text) => Astray(text)'
    BY <1>1, <1>2, <2>1 DEF Astray, Entered, Leads, FetchFaults, TranslationOn
  <2>5. Placed(text, dead)'
    BY <1>1, <1>2, <1>4, <2>1, <2>2, <2>3, <2>4 DEF Placed, At
  <2> QED BY <1>1, <1>3, <2>5, AtIssue
<1>5. CASE Valid(id_ex.lane[0])
  <2>1. pc = CodeSize /\ pc = After(id_ex) /\ Past /\ At(id_ex.pc, TRUE, text, dead)
    BY <1>1, <1>2, <1>5, RunsOut
  <2>2. pc' = pc
    BY <1>1, <2>1 DEF Predict, After
  <2>3. BeforePc' /\ BeforeIssued'
    BY <1>2, <2>1 DEF BeforePc, BeforeFetched, BeforeIssued
  <2>4. Placed(text, dead)'
    BY <1>1, <1>2, <2>1, <2>2, <2>3 DEF Placed, At
  <2> QED BY <1>1, <1>3, <2>4, AtIssue
<1> QED BY <1>4, <1>5

\* The issue unit, whichever it does.
LEMMA IssueDrilled ==
  ASSUME NEW text, NEW dead, Setting(text, dead), AsWritten', Issue
  PROVE  Drilled(text, dead)'
BY DecodeNothingDrilled, DecodeStallDrilled, IssuePredictedDrilled, IssuePairDrilled,
   IssueSingleDrilled DEF Issue

\* What the fetch leaves alone.
LEMMA AtFetch ==
  ASSUME NEW text, NEW dead, Setting(text, dead), AsWritten',
         UNCHANGED <<id_ex, ex_mem, mem_wb, running, prv, csr>>, stage = "IF", stage' = "INT"
  PROVE  /\ Past' = Past /\ BeforeIssued = Past /\ BeforeIssued' = Past
         /\ BeforeFetched' = BeforeFetched /\ BeforeFetched \in BOOLEAN
         /\ Placed(text, dead)' /\ TrapsFirst' => Drilled(text, dead)'
<1>1. Past' = Past /\ Ending' = Ending
  BY DEF Past, Ending
<1>2. BeforeIssued = Past /\ BeforeIssued' = Past
  BY <1>1 DEF BeforeIssued, Past
<1>3. BeforeFetched' = BeforeFetched /\ BeforeFetched \in BOOLEAN
  BY <1>1 DEF BeforeFetched, HaltIn
<1>4. PassiveBehind'
  BY <1>1 DEF Setting, Drilled, PassiveBehind
<1> QED BY <1>1, <1>2, <1>3, <1>4 DEF Setting, Drilled

\* Fetch is held, or is behind the end of memory.
LEMMA FetchStillDrilled ==
  ASSUME NEW text, NEW dead, Setting(text, dead), AsWritten', FetchHeld \/ FetchNothing
  PROVE  Drilled(text, dead)'
<1>1. /\ UNCHANGED <<pc, if_id, id_ex, ex_mem, mem_wb, running, prv, csr>>
      /\ stage = "IF" /\ stage' = "INT"
  BY DEF FetchHeld, FetchNothing, FetchReady, latches, regFile
<1>2. Valid(id_ex.lane[0]) /\ ~Valid(if_id.lane[0]) => pc = CodeSize
  <2> SUFFICES ASSUME Valid(id_ex.lane[0]), ~Valid(if_id.lane[0]) PROVE pc = CodeSize
    OBVIOUS
  <2>1. FetchNothing
    BY DEF FetchHeld
  <2>2. FetchReady /\ pc \notin CodeAddrs
    BY <2>1, SizesAssumption
    DEF FetchNothing, PairInMemory, LastInMemory, CodeAddrs, Setting, Shape, TypeOK
  <2>3. ~Astray(text)
    BY DEF Astray
  <2> QED BY <2>2, <2>3, FetchAt
<1>3. Past' = Past
  BY <1>1, AtFetch
<1>4. Placed(text, dead)' /\ TrapsFirst'
  BY <1>1, <1>2, <1>3, PlacedStill DEF Setting, Drilled
<1> QED BY <1>1, <1>4, AtFetch

\* What is fetched is where the fetch pc was.
LEMMA FetchedDrilled ==
  ASSUME NEW text, NEW dead, Setting(text, dead), AsWritten', FetchPair \/ FetchSingle
  PROVE  Drilled(text, dead)'
<1> DEFINE i0 == code[pc]
           i1 == IF FetchPair THEN code[pc + 1] ELSE Bubble
           h  == BeforeFetched \/ IsHalting(i0)
<1>1. /\ UNCHANGED <<id_ex, ex_mem, mem_wb, running, prv, csr>>
      /\ stage = "IF" /\ stage' = "INT" /\ FetchReady /\ ~Faulting
  BY DEF FetchPair, FetchSingle, FetchReady, regFile
<1>2. /\ pc \in CodeAddrs /\ pc \in Int
      /\ FetchPair => pc + 1 \in CodeAddrs /\ pc % PageInstrs # PageInstrs - 1
  BY CodeType DEF FetchPair, FetchSingle, Setting, Shape, TypeOK, CrossesPage
<1>3. /\ if_id'.pc = pc /\ if_id'.lane[0] = i0 /\ if_id'.lane[1] = i1
      /\ pc' = IF FetchPair THEN pc + 2 ELSE pc + 1
  BY FetchedLanes DEF FetchPair, FetchSingle
<1>4. ~Astray(text)
  BY <1>1, <1>2, SizesAssumption DEF Astray, Entered, Leads, Faulting
<1>5. At(pc, BeforeFetched, text, dead) /\ BeforeFetched \in BOOLEAN
  BY <1>1, <1>2, <1>4, FetchAt, AtFetch
<1>6. Valid(i0) /\ (FetchPair => Valid(i1)) /\ (~FetchPair => ~Valid(i1))
  <2>1. \A a \in CodeAddrs : Valid(code[a])
    BY ProgramsAssumption DEF Setting, Shape, WellFormed, Valid
  <2> QED BY <1>2, <2>1, BubbleInvalid
<1>7. /\ i0.op # "jal" => At(pc + 1, h, text, dead)
      /\ h \in BOOLEAN
  <2>1. h \in BOOLEAN
    BY DEF IsHalting
  <2>2. /\ text \in SUBSET CodeAddrs /\ dead \in SUBSET CodeAddrs /\ LaidOut(code, text, dead)
        /\ pc \in CodeAddrs /\ BeforeFetched \in BOOLEAN /\ At(pc, BeforeFetched, text, dead)
    BY <1>2, <1>5 DEF Setting
  <2>3. i0.op # "jal" => At(pc + 1, BeforeFetched \/ IsHalting(i0), text, dead)
    BY <2>2, OnFrom
  <2> QED BY <2>1, <2>3
<1>8. i0.op # "jal" /\ i1.op # "jal" => At(pc', h \/ IsHalting(i1), text, dead)
  <2> SUFFICES ASSUME i0.op # "jal", i1.op # "jal"
               PROVE  At(pc', h \/ IsHalting(i1), text, dead)
    OBVIOUS
  <2>1. CASE ~FetchPair
    <3>1. ~IsHalting(i1) /\ pc' = pc + 1
      BY <1>3, <1>6, <2>1, InvalidIsPassive
    <3> HIDE DEF i1, h
    <3>2. (h \/ IsHalting(i1)) = h
      BY <1>7, <3>1
    <3> QED BY <1>7, <3>1, <3>2
  <2>2. CASE FetchPair
    <3>1. pc + 1 \in CodeAddrs /\ At(pc + 1, h, text, dead) /\ i1 = code[pc + 1] /\ h \in BOOLEAN
      BY <1>2, <1>7, <2>2
    <3> HIDE DEF i1, h
    <3>2. text \in SUBSET CodeAddrs /\ dead \in SUBSET CodeAddrs /\ LaidOut(code, text, dead)
      BY DEF Setting
    <3>3. At((pc + 1) + 1, h \/ IsHalting(i1), text, dead)
      BY <3>1, <3>2, OnFrom
    <3>4. pc' = (pc + 1) + 1
      BY <1>2, <1>3, <2>2
    <3> QED BY <3>3, <3>4
  <2> QED BY <2>1, <2>2
<1>9. HasJump(if_id') \/ (i0.op # "jal" /\ i1.op # "jal")
  BY <1>3, <1>6 DEF HasJump, Lanes
<1>10. BeforePc' = (h \/ IsHalting(i1))
  <2>1. HaltIn(if_id') <=> IsHalting(i0) \/ IsHalting(i1)
    BY <1>3 DEF HaltIn, Lanes
  <2>2. BeforeFetched' = BeforeFetched
    BY <1>1, AtFetch
  <2> QED BY <2>1, <2>2 DEF BeforePc
<1>11. Placed(text, dead)'
  <2>1. Valid(id_ex'.lane[0]) => At(id_ex'.pc, BeforeIssued', text, dead)
    BY <1>1, AtFetch DEF Setting, Drilled, Placed
  <2>2. At(if_id'.pc, BeforeFetched', text, dead)
    BY <1>1, <1>3, <1>5, AtFetch
  <2>3. At(pc', BeforePc', text, dead) \/ HasJump(if_id')
    BY <1>8, <1>9, <1>10
  <2> QED BY <1>3, <1>6, <2>1, <2>2, <2>3 DEF Placed, At, HasJump
<1>12. TrapsFirst'
  BY <1>1, <1>2, <1>3, <1>6 DEF Setting, Drilled, TrapsFirst
<1> QED BY <1>1, <1>11, <1>12, AtFetch

\* A fetch faults only where the program has gone out of its text.
LEMMA FetchTrapVacates ==
  ASSUME NEW text, NEW dead, Setting(text, dead), FetchTrap
  PROVE  Vacated'
<1>1. /\ csr \in CsrFile /\ csr.mip = {} /\ PassiveBehind
      /\ stage = "IF" /\ stage' = "INT" /\ UNCHANGED <<running, mem_wb>>
      /\ if_id' = NoFetch /\ id_ex' = NoFetch /\ ex_mem' = NoResults
      /\ FetchReady /\ Faulting
  BY DEF Setting, Shape, TypeOK, Drilled, FetchTrap, FetchReady, Flush
<1>2. pc \in CodeAddrs
  BY CodeType DEF FetchTrap, Setting, Shape
<1>3. Astray(text)
  BY <1>1, <1>2, FetchAt
<1>4. ~Ending /\ ~Ending'
  BY <1>1, <1>3 DEF Astray, Past, Ending
<1>5. PassiveBehind'
  BY <1>1, <1>4, EmptyIsPassive DEF PassiveBehind
<1>6. csr'.mip = {}
  <2>1. \A a, cause, tval : HandleTrap(Context, a, cause, tval).csr.mip = {}
    BY <1>1, TrapsKeepMip DEF Context
  <2> QED BY <2>1 DEF FetchTrap, Enter
<1> QED BY <1>1, <1>4, <1>5, <1>6 DEF Vacated

\* Every step, if jumps through a register and traps lead to the text, out of
\* memory or to a page that faults.
LEMMA DrilledStep ==
  ASSUME NEW text, NEW dead, Setting(text, dead), [Next]_vars, JumpLeads(text),
         FetchTrap \/ (\E l \in Lanes : MemoryTrap(l) \/ ExecuteTrap(l)) => Entered(text)'
  PROVE  Drilled(text, dead)'
<1>1. ~FetchTrapLast
  BY FetchAt DEF FetchTrapLast
<1>2. AsWritten'
  BY <1>1, AsWrittenStep DEF Setting, Drilled
<1>3. CASE UNCHANGED vars
  <2>1. UNCHANGED <<pc, stage, if_id, id_ex, ex_mem, mem_wb, running, prv, csr>>
    BY <1>3 DEF vars, latches, regFile
  <2>2. Ending' = Ending /\ Past' = Past
    BY <2>1 DEF Ending, Past
  <2>3. BeforeIssued' = BeforeIssued /\ BeforeFetched' = BeforeFetched /\ BeforePc' = BeforePc
    BY <2>1, <2>2 DEF BeforeIssued, BeforeFetched, BeforePc, HaltIn
  <2>4. Astray(text) => Astray(text)'
    BY <2>1, <2>2 DEF Astray, Entered, Leads, FetchFaults, TranslationOn
  <2>5. Placed(text, dead)' /\ TrapsFirst' /\ PassiveBehind'
    BY <2>1, <2>2, <2>3, <2>4
    DEF Setting, Drilled, Placed, TrapsFirst, PassiveBehind, At, HasJump
  <2> QED BY <1>2, <2>1, <2>5 DEF Drilled, Setting
<1>4. CASE InterruptCheck
  BY <1>2, <1>4, CheckDrilled
<1>5. CASE WriteBack
  BY <1>2, <1>5, WriteBackDrilled
<1>6. CASE Memory
  BY <1>2, <1>6, MemoryAccessDrilled, MemoryTrapVacates, MemoryAbortDrilled, VacatedDrilled
  DEF Memory
<1>7. CASE Execution
  BY <1>2, <1>7, ExecuteDrilled, ExecuteBranchDrilled, ExecuteTrapVacates, VacatedDrilled
  DEF Execution
<1>8. CASE Issue
  BY <1>2, <1>8, IssueDrilled
<1>9. CASE Fetch
  BY <1>1, <1>2, <1>9, FetchStillDrilled, FetchedDrilled, FetchTrapVacates, VacatedDrilled
  DEF Fetch
<1> QED BY <1>3, <1>4, <1>5, <1>6, <1>7, <1>8, <1>9 DEF Next, Halted

\* After reset nothing is fetched, and the fetch pc is in the text.
LEMMA InitDrilled ==
  ASSUME NEW text, NEW dead, Init, \A c \in Contexts : c.csr.mip = {} /\ c.pc \in text
  PROVE  Drilled(text, dead)
<1>1. /\ pc \in text /\ csr.mip = {} /\ stage = "INT" /\ running
      /\ if_id = NoFetch /\ id_ex = NoFetch /\ ex_mem = NoResults /\ mem_wb = NoResults.lane
  BY DEF Init
<1>2. /\ ~Valid(if_id.lane[0]) /\ ~Valid(if_id.lane[1])
      /\ ~Valid(id_ex.lane[0]) /\ ~Valid(id_ex.lane[1])
      /\ ~HaltIn(if_id) /\ ~HaltIn(id_ex)
  BY <1>1, NothingFetched, EmptyIsPassive
<1>3. ~Ending /\ ~Past
  BY <1>1, EmptyIsPassive DEF Ending, Past, HaltsIn
<1>4. Placed(text, dead)
  BY <1>1, <1>2, <1>3 DEF Placed, At, BeforePc, BeforeFetched
<1>5. TrapsFirst
  BY <1>2, InvalidIsPassive DEF TrapsFirst, Passive
<1>6. PassiveBehind
  BY <1>1, <1>3, EmptyIsPassive DEF PassiveBehind, PassivePair
<1> QED BY <1>1, <1>4, <1>5, <1>6, InitAsWritten DEF Drilled

\* A trap leaves the fetch pc on the next instruction.
LEMMA VacatedEntered ==
  ASSUME NEW text, Shape, Vacated, OnCourse(text)
  PROVE  Entered(text)
<1>1. Live
  BY DEF Vacated, Ending, Live, WrittenBackHalts, HaltsIn
<1>2. Draining = NoResults.lane
  BY DEF Draining, Vacated
<1>3. NextPc = pc
  BY NextPcIs, NothingFetched DEF Vacated
<1>4. Arch = Going(Upcoming, DrainedMemWb, mem)
  BY <1>1, <1>2, ArchIsMachine, DrainedLanes DEF Settled
<1>5. ~Arch.stop /\ Arch.pc = pc /\ Arch.csr = csr /\ Arch.prv = prv
  BY <1>3, <1>4, GoingOn, UpcomingFields
<1> QED BY <1>5 DEF OnCourse, Entered

\* What this says of the next state.
LEMMA VacatedEnteredAfter ==
  \A text : Shape' /\ Vacated' /\ OnCourse(text)' => Entered(text)'
<1> SUFFICES ASSUME NEW text
             PROVE  Shape' /\ Vacated' /\ OnCourse(text)' => Entered(text)'
  OBVIOUS
<1>1. Shape /\ Vacated /\ OnCourse(text) => Entered(text)
  BY VacatedEntered
<1>2. (Shape /\ Vacated /\ OnCourse(text) => Entered(text))'
  BY <1>1, PTL
<1> QED BY <1>2

\* A jump through a register leads where it does for the program.
LEMMA CourseLeads ==
  ASSUME NEW text, NEW dead, Setting(text, dead), OnCourse(text)
  PROVE  JumpLeads(text)
<1> SUFFICES ASSUME stage = "EX", Branch.op = "jalr"
             PROVE  Leads(JumpTarget(Branch, id_ex.pc, BranchOperand1), text)
  BY DEF JumpLeads
<1>1. Branch = id_ex.lane[0] /\ Valid(id_ex.lane[0]) /\ ~Passive(id_ex.lane[0])
  BY DEF Branch, Valid, Passive
<1>2. At(id_ex.pc, Ending, text, dead) /\ Ending \in BOOLEAN
  BY <1>1, AtExecution
<1>3. id_ex.pc \in CodeAddrs /\ Branch = code[id_ex.pc] /\ ~Ending
  BY <1>1, <1>2, LatchAt
<1>4. Live
  BY <1>3 DEF Ending, Live, WrittenBackHalts, HaltsIn
<1>5. Arch = Going(Upcoming, File, mem)
  BY <1>4, AtExecute DEF Settled, Setting
<1>6. NextPc = id_ex.pc
  BY <1>1, NextPcIs
<1>7. ~Arch.stop /\ Arch.pc = id_ex.pc /\ Arch.regs = File
  BY <1>5, <1>6, GoingOn, UpcomingFields
<1>8. BranchOperand1 = File[Branch.rs1]
  BY <1>1, Slot0IsComputed DEF Setting
<1> QED BY <1>3, <1>7, <1>8 DEF OnCourse

\* Six of the seven parts of Precise hold.
LEMMA DrilledIsPrecise ==
  ASSUME NEW text, NEW dead, Setting(text, dead), FaultWritesNothing
  PROVE  Precise
<1>1. InterruptIsPrecise
  BY NothingDue DEF InterruptIsPrecise, Setting, Shape, TypeOK, Drilled
<1>2. TrapsAlone
  BY DEF TrapsAlone, TrapsInLane, Setting, Drilled, TrapsFirst
<1>3. FetchFaultsAlone
  <2> SUFFICES ASSUME FetchReady, PairInMemory \/ LastInMemory, Faulting
               PROVE  /\ ~Valid(id_ex.lane[0])
                      /\ \A l \in Lanes : ~Valid(ex_mem.lane[l].instr)
    BY DEF FetchFaultsAlone
  <2>1. pc \in CodeAddrs
    BY CodeType DEF Setting, Shape
  <2> QED BY <2>1, FetchAt DEF Astray
<1>4. NothingRunsTwice
  <2> SUFFICES ASSUME stage = "ID", Valid(id_ex.lane[0]), ~Valid(if_id.lane[0])
               PROVE  ArchStop
    BY DEF NothingRunsTwice
  <2>1. CASE Ending
    BY <2>1 DEF Ending, HaltsIn, ArchStop, WrittenBackHalts
  <2>2. CASE ~Ending
    <3>1. IsHalting(ex_mem.lane[0].instr)
      BY <2>2, RunsOut DEF Setting, Drilled, PassiveBehind, Lanes
    <3>2. Live
      BY <2>2 DEF Ending, Live, WrittenBackHalts, HaltsIn
    <3>3. Drains(0) /\ Ends(0)
      BY <3>1, <3>2, LanesInTurn DEF Ends, Draining
    <3> QED BY <3>3 DEF ArchStop, Lanes
  <2> QED BY <2>1, <2>2
<1>5. FetchIsCurrent
  <2> SUFFICES ASSUME stage = "EX", NEW l \in Lanes, Valid(id_ex.lane[l])
               PROVE  /\ ~FetchFaults(id_ex.pc + l, csr, prv)
                      /\ id_ex.lane[l] = ZeroWord =>
                           id_ex.pc + l \in CodeAddrs /\ IsHalting(code[id_ex.pc + l])
    BY DEF FetchIsCurrent
  <2>1. Valid(id_ex.lane[0]) /\ (l = 1 => id_ex.lane[0].op # "jal")
    BY AtExecution DEF Lanes
  <2>2. id_ex.pc + l \notin UnmappedCode
    BY <2>1, AtExecution, LatchAt DEF Lanes
  <2>3. id_ex.pc + l \in CodeAddrs /\ id_ex.lane[l] = code[id_ex.pc + l]
    BY DEF Setting, Drilled, AsWritten, OfProgram
  <2> QED BY <2>2, <2>3 DEF FetchFaults, ZeroWord, Bubble, IsHalting
<1>6. NothingBehindHalt
  <2>1. IsHalting(mem_wb[0].instr) => ~WritesReg(mem_wb[1].instr)
    BY DEF Setting, Drilled, PassiveBehind, PassivePair, Passive
  <2>2. ASSUME stage = "MEM", NEW l \in Lanes, IsStore(ex_mem.lane[l].instr)
        PROVE  running /\ \A k \in Lanes : k < l => ~IsHalting(ex_mem.lane[k].instr)
    <3>1. ~Passive(ex_mem.lane[l].instr)
      BY <2>2 DEF Passive, IsMemory
    <3>2. ~Ending
      BY <2>2, <3>1 DEF Setting, Drilled, PassiveBehind
    <3> QED BY <3>1, <3>2 DEF Ending, Setting, Drilled, PassiveBehind, PassivePair, Lanes
  <2> QED BY <2>1, <2>2 DEF NothingBehindHalt
<1> QED BY <1>1, <1>2, <1>3, <1>4, <1>5, <1>6 DEF Precise

-----------------------------------------------------------------------------
(* Disciplined programs                                                    *)

\* The invariant, for the program that runs.
Drilling(text, dead) == \A p \in Programs : code = p => Drilled(text[p], dead[p])

\* What it says of the program at hand.
LEMMA DrillingSetting ==
  ASSUME NEW text, NEW dead, Disciplined(text, dead), Shape, Order, Drilling(text, dead),
         NEW p \in Programs, code = p
  PROVE  Setting(text[p], dead[p])
BY DEF Disciplined, Drilling, Setting

\* It holds after reset.
LEMMA DrillingInit ==
  ASSUME NEW text, NEW dead, Disciplined(text, dead), Init
  PROVE  Drilling(text, dead)
BY InitDrilled DEF Disciplined, Drilling

\* A step on course keeps it.
LEMMA DrillingStep ==
  ASSUME NEW text, NEW dead, Disciplined(text, dead), Drilling(text, dead),
         Shape, Order, Shape', [Next]_vars, OnCourse(text[code]), OnCourse(text[code])'
  PROVE  Drilling(text, dead)'
<1>1. code' = code
  BY CodeKept
<1> SUFFICES ASSUME NEW p \in Programs, code' = p
             PROVE  Drilled(text[p], dead[p])'
  BY DEF Drilling
<1> DEFINE t == text[p]
           d == dead[p]
<1>2. Setting(t, d) /\ OnCourse(t) /\ OnCourse(t)'
  BY <1>1, DrillingSetting
<1> HIDE DEF t, d
<1>3. JumpLeads(t)
  BY <1>2, CourseLeads
<1>4. FetchTrap \/ (\E l \in Lanes : MemoryTrap(l) \/ ExecuteTrap(l)) => Vacated'
  BY <1>2, MemoryTrapVacates, ExecuteTrapVacates, FetchTrapVacates
<1>5. Vacated' => Entered(t)'
  BY <1>2, VacatedEnteredAfter
<1>6. Drilled(t, d)'
  BY <1>2, <1>3, <1>4, <1>5, DrilledStep
<1> QED BY <1>6 DEF t, d

\* A disciplined program whose jumps, traps and returns stay on course meets
\* none of the deviations, but for a load that traps and writes its register:
\* no instruction is executed twice or skipped, discarded by a trap of its own
\* pair or by a fetch fault, or takes effect behind an EBREAK.
THEOREM DisciplinedIsPrecise ==
  \A text, dead :
    Disciplined(text, dead) =>
      (Spec /\ [](OnCourse(text[code]) /\ FaultWritesNothing) => []Precise)
<1> SUFFICES ASSUME NEW text, NEW dead, Disciplined(text, dead)
             PROVE  Spec /\ [](OnCourse(text[code]) /\ FaultWritesNothing) => []Precise
  OBVIOUS
<1>1. Init => Drilling(text, dead)
  BY DrillingInit
<1>2. /\ Shape /\ Order /\ Drilling(text, dead) /\ [Next]_vars /\ Shape'
      /\ OnCourse(text[code]) /\ OnCourse(text[code])'
      => Drilling(text, dead)'
  BY DrillingStep
<1>3. Shape /\ Order /\ Drilling(text, dead) /\ FaultWritesNothing => Precise
  BY DrillingSetting, DrilledIsPrecise DEF Shape
<1> QED BY <1>1, <1>2, <1>3, OrderInvariant, PTL DEF Spec

\* So the pipeline implements the sequential machine for it.
THEOREM ImplementsDisciplined ==
  \A text, dead :
    Disciplined(text, dead) =>
      (Spec /\ [](OnCourse(text[code]) /\ FaultWritesNothing) => ExecutesSequentially)
<1> SUFFICES ASSUME NEW text, NEW dead, Disciplined(text, dead)
             PROVE  Spec /\ [](OnCourse(text[code]) /\ FaultWritesNothing) => ExecutesSequentially
  OBVIOUS
<1>1. Spec /\ [](OnCourse(text[code]) /\ FaultWritesNothing) => []Precise
  BY DisciplinedIsPrecise
<1> QED BY <1>1, Implements, PTL

-----------------------------------------------------------------------------
(* Well-behaved programs                                                   *)

\* Besides, nothing traps.
Behaving(text, dead) == Calm /\ Drilling(text, dead)

\* A jump through a register leads to a word, and every word is in the text.
LEMMA BehavingLeads ==
  ASSUME NEW text, NEW dead, WellBehaved(text, dead), Shape, Order,
         NEW p \in Programs, code = p, Setting(text[p], dead[p])
  PROVE  JumpLeads(text[p])
<1> SUFFICES ASSUME stage = "EX", Branch.op = "jalr"
             PROVE  Leads(JumpTarget(Branch, id_ex.pc, BranchOperand1), text[p])
  BY DEF JumpLeads
<1>1. Branch = id_ex.lane[0] /\ Valid(id_ex.lane[0]) /\ ~Passive(id_ex.lane[0])
  BY DEF Branch, Valid, Passive
<1>2. At(id_ex.pc, Ending, text[p], dead[p]) /\ Ending \in BOOLEAN
  BY <1>1, AtExecution
<1>3. Branch = code[id_ex.pc] /\ id_ex.pc \in text[p]
  BY <1>1, <1>2, LatchAt DEF At
<1>4. BranchOperand1 \in Word /\ Branch.imm \in Int
  <2>1. BranchOperand1 = File[Branch.rs1] /\ File \in [Reg -> Word]
    BY <1>1, Slot0IsComputed, FileIs
  <2>2. Branch.imm \in Int /\ Branch.rs1 \in Reg
    BY DEF Shape, TypeOK, FetchLatch, Decoded, Instr, Lanes, Branch
  <2> QED BY <2>1, <2>2
<1>5. JumpTarget(Branch, id_ex.pc, BranchOperand1) \in Word
  BY <1>4, SizesAssumption DEF JumpTarget, Wrap, Word
<1> QED BY <1>3, <1>5 DEF WellBehaved, Leads

\* Every step keeps it: there are no traps to lead anywhere.
LEMMA BehavingStep ==
  ASSUME NEW text, NEW dead, WellBehaved(text, dead), Shape, Order, Behaving(text, dead),
         [Next]_vars
  PROVE  Behaving(text, dead)'
<1>1. code' = code
  BY CodeKept
<1>2. ~FetchTrap /\ \A l \in Lanes : ~MemoryTrap(l) /\ ~ExecuteTrap(l)
  BY NothingTraps DEF Behaving, WellBehaved
<1>3. ASSUME NEW p \in Programs, code' = p
      PROVE  Drilled(text[p], dead[p])'
  <2> DEFINE t == text[p]
             d == dead[p]
  <2>1. Setting(t, d)
    BY <1>1, <1>3, DrillingSetting DEF Behaving, WellBehaved
  <2>2. JumpLeads(t)
    BY <1>1, <1>3, <2>1, BehavingLeads
  <2> HIDE DEF t, d
  <2>3. Drilled(t, d)'
    BY <1>2, <2>1, <2>2, DrilledStep
  <2> QED BY <2>3 DEF t, d
<1>4. Calm'
  BY CalmStep DEF Behaving, WellBehaved
<1> QED BY <1>3, <1>4 DEF Behaving, Drilling

\* And it leaves no room for a deviation.
LEMMA BehavingIsPrecise ==
  ASSUME NEW text, NEW dead, WellBehaved(text, dead), Shape, Order, Behaving(text, dead)
  PROVE  Precise
<1>1. Setting(text[code], dead[code])
  BY DrillingSetting DEF Behaving, WellBehaved, Shape
<1>2. \A l \in Lanes : ~Faults(l)
  BY CalmState DEF Faults, DrainOutcome, Behaving, WellBehaved
<1> QED BY <1>1, <1>2, DrilledIsPrecise DEF FaultWritesNothing

\* Precise is an invariant of every program that is laid out so that it ends
\* before it leaves memory, and that neither traps nor returns, whatever it
\* computes and wherever its jumps through registers lead.
THEOREM AlwaysPrecise ==
  \A text, dead : WellBehaved(text, dead) => (Spec => []Precise)
<1> SUFFICES ASSUME NEW text, NEW dead, WellBehaved(text, dead) PROVE Spec => []Precise
  OBVIOUS
<1>1. Init => Behaving(text, dead)
  BY DrillingInit, InitCalm DEF Behaving, WellBehaved
<1>2. Shape /\ Order /\ Behaving(text, dead) /\ [Next]_vars => Behaving(text, dead)'
  BY BehavingStep
<1>3. Shape /\ Order /\ Behaving(text, dead) => Precise
  BY BehavingIsPrecise
<1> QED BY <1>1, <1>2, <1>3, OrderInvariant, PTL DEF Spec

\* So the pipeline implements the sequential machine for such programs, on
\* every run and with no further condition.
THEOREM ImplementsWellBehaved ==
  \A text, dead : WellBehaved(text, dead) => (Spec => ExecutesSequentially)
<1> SUFFICES ASSUME NEW text, NEW dead, WellBehaved(text, dead)
             PROVE  Spec => ExecutesSequentially
  OBVIOUS
<1>1. Spec => []Precise
  BY AlwaysPrecise
<1> QED BY <1>1, Implements, PTL

=============================================================================
