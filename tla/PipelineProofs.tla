--------------------------- MODULE PipelineProofs ---------------------------
(***************************************************************************)
(* What the pipeline keeps for every size of the machine, every set of     *)
(* programs, every boot context and every behaviour of the timer: its      *)
(* type, and the shape of its latches.                                     *)
(***************************************************************************)
EXTENDS Pipeline, TrapsProofs

-----------------------------------------------------------------------------
(* Values                                                                  *)

\* Reducing a number gives a word.
LEMMA WrapType == ASSUME NEW n \in Int PROVE Wrap(n) \in Word
  BY SizesAssumption DEF Wrap, Word

\* A CSR that holds a word reads as a number, a flag CSR as flags.
LEMMA ReadCsrType ==
  ASSUME NEW f \in CsrFile
  PROVE  /\ \A name \in WordCsrs : ReadCsr(f, name) \in Int
         /\ \A name \in FlagCsrs : ReadCsr(f, name) \in Bits
<1>1. ASSUME NEW name \in WordCsrs
      PROVE  ReadCsr(f, name) \in Int
  BY DEF ReadCsr, WordCsrs, CsrFile
<1>2. ASSUME NEW name \in FlagCsrs
      PROVE  ReadCsr(f, name) \in Bits
  BY DEF ReadCsr, FlagCsrs, CsrFile, Bits
<1> QED BY <1>1, <1>2

\* The ALU produces a word for every instruction.
LEMMA ResultType ==
  ASSUME NEW i \in Instr, NEW a \in Int, NEW op1 \in Word, NEW op2 \in Word, NEW f \in CsrFile
  PROVE  Result(i, a, op1, op2, f) \in Word
<1>1. op1 \in Int /\ op2 \in Int /\ i.imm \in Int /\ 0 \in Word
  BY SizesAssumption DEF Word, Instr
<1>2. Wrap(op1 - op2) \in Word /\ Wrap(op1 + i.imm) \in Word /\ Wrap(a + i.imm) \in Word /\ Wrap(a + 1) \in Word
  BY <1>1, WrapType
<1>3. i.csr \in WordCsrs => Wrap(ReadCsr(f, i.csr)) \in Word
  BY ReadCsrType, WrapType
<1> QED BY <1>1, <1>2, <1>3 DEF Result, Difference

\* A CSR write leaves a CSR file: a set or clear never mixes flags and words.
LEMMA CsrAfterType ==
  ASSUME NEW i \in Decoded, NEW op1 \in Word, NEW f \in CsrFile
  PROVE  CsrAfter(i, op1, f) \in CsrFile
<1>1. CASE i.op # "csr"
  BY <1>1 DEF CsrAfter
<1>2. CASE i.op = "csr"
  <2> DEFINE old == ReadCsr(f, i.csr)
  <2>1. /\ i \in Instr /\ WellFormed(i) /\ i.csr \in FlagCsrs \cup WordCsrs
        /\ i.bits \in Bits /\ i.function \in {"rw", "rs", "rc"}
    BY <1>2 DEF Decoded, Instr
  <2>2. CASE i.csr \in FlagCsrs
    <3> DEFINE new == CsrWriteValue(i.function, old, i.bits, i.bits = {})
    <3>1. old \in Bits
      BY <2>2, ReadCsrType
    <3> HIDE DEF old
    <3>2. new \in Bits
      BY <2>1, <3>1 DEF CsrWriteValue, Bits
    <3>3. CsrAfter(i, op1, f) = WriteCsr(f, i.csr, new)
      BY <1>2, <2>2 DEF CsrAfter, old
    <3> QED BY <2>2, <3>2, <3>3, WriteFlagType
  <2>3. CASE i.csr \in WordCsrs
    <3> DEFINE new == CsrWriteValue(i.function, old, op1, i.rs1 = 0)
    <3>1. old \in Int /\ op1 \in Int
      BY <2>3, ReadCsrType DEF Word
    <3> HIDE DEF old
    <3>2. i.function = "rw" \/ i.rs1 = 0
      BY <1>2, <2>1, <2>3 DEF WellFormed
    <3>3. new \in Int
      BY <2>1, <3>1, <3>2 DEF CsrWriteValue
    <3>4. i.csr \notin FlagCsrs
      BY <2>3 DEF FlagCsrs, WordCsrs
    <3>5. CsrAfter(i, op1, f) = WriteCsr(f, i.csr, new)
      BY <1>2, <3>4 DEF CsrAfter, old
    <3> QED BY <2>3, <3>3, <3>5, WriteWordType
  <2> QED BY <2>1, <2>2, <2>3
<1> QED BY <1>1, <1>2

-----------------------------------------------------------------------------
(* Slots and latches                                                       *)

\* Empty slots and latches have the types of slots and latches.
LEMMA EmptyType ==
  /\ Bubble \in Decoded /\ ZeroWord \in Decoded
  /\ Empty \in Slots
  /\ NoResults \in ResultLatch /\ NoFetch \in FetchLatch
  /\ NoResults.lane \in [Lanes -> Slots]
<1>1. Bubble \in Instr /\ Bubble.op = "bubble" /\ ZeroWord \in Instr /\ ZeroWord.op = "zero"
  BY SizesAssumption DEF Bubble, ZeroWord, Instr, Ops, Reg, Bits, WordCsrs
<1>2. Bubble \in Decoded /\ ZeroWord \in Decoded
  BY <1>1 DEF Decoded, WellFormed
<1>3. Empty \in Slots
  BY <1>2, SizesAssumption DEF Empty, Done, Slots, Word
<1> QED BY <1>2, <1>3 DEF NoResults, ResultLatch, NoFetch, Fetched, FetchLatch, Lanes

\* A latch filled with decoded instructions.
LEMMA FetchedType ==
  ASSUME NEW a \in Int, NEW i0 \in Decoded, NEW i1 \in Decoded
  PROVE  Fetched(a, i0, i1) \in FetchLatch
  BY DEF Fetched, FetchLatch, Lanes

\* Invalidating both slots.
LEMMA ClearedType ==
  ASSUME NEW latch \in FetchLatch
  PROVE  Cleared(latch) \in FetchLatch
  BY EmptyType DEF Cleared, FetchLatch, Lanes

\* A register write of a slot.
LEMMA SetRegType ==
  ASSUME NEW file \in [Reg -> Word], NEW s \in Slots
  PROVE  SetReg(file, s) \in [Reg -> Word]
  BY DEF SetReg, Slots

\* A memory access that succeeds is inside memory.
LEMMA DoneAccess ==
  ASSUME NEW addr, NEW f, NEW p, Access(addr, f, p) = "done"
  PROVE  addr \in DataAddrs
  BY DEF Access

-----------------------------------------------------------------------------
(* Execute: the newest value of a register, and what a slot becomes        *)

\* Forwarding finds a word, wherever it finds it.
LEMMA OperandType ==
  ASSUME TypeOK, NEW r \in Reg, NEW lane \in Lanes, NEW exm \in [Lanes -> Slots]
  PROVE  Operand(r, lane, exm) \in Word
<1>1. /\ 0 \in Word /\ 0 \in Lanes /\ 1 \in Lanes /\ 1 - lane \in Lanes
      /\ \A l \in Lanes : exm[l].result \in Word /\ mem_wb[l].result \in Word
      /\ regs[r] \in Word
  BY SizesAssumption DEF TypeOK, Lanes, Slots, Word
<1>2. NewestOfMemWb(r) \in Word
  BY <1>1 DEF NewestOfMemWb
<1> QED BY <1>1, <1>2 DEF Operand

\* What executeSlot leaves in a slot.
LEMMA ExecutedType ==
  ASSUME TypeOK, NEW lane \in Lanes, NEW exm \in [Lanes -> Slots]
  PROVE  Executed(lane, exm) \in Slots
<1> DEFINE i   == id_ex.lane[lane]
           op1 == Operand(i.rs1, lane, exm)
           op2 == Operand(i.rs2, lane, exm)
<1>1. i \in Decoded /\ i \in Instr /\ i.rs1 \in Reg /\ i.rs2 \in Reg
  BY DEF TypeOK, FetchLatch, Decoded, Instr
<1>2. op1 \in Word /\ op2 \in Word
  BY <1>1, OperandType
<1>3. id_ex.pc + lane \in Int /\ csr \in CsrFile /\ 0 \in Word
  BY SizesAssumption DEF TypeOK, FetchLatch, Lanes, Word
<1> HIDE DEF op1, op2
<1>4. Result(i, id_ex.pc + lane, op1, op2, csr) \in Word
  BY <1>1, <1>2, <1>3, ResultType
<1>5. Done(i, Result(i, id_ex.pc + lane, op1, op2, csr), IF IsMemory(i) THEN op2 ELSE 0) \in Slots
  BY <1>1, <1>2, <1>3, <1>4 DEF Done, Slots
<1> QED BY <1>5, EmptyType DEF Executed, op1, op2

\* EX/MEM as the second lane sees it, and EX/MEM after the stage.
LEMMA NextExMemType ==
  ASSUME TypeOK
  PROVE  /\ ex_mem.lane \in [Lanes -> Slots]
         /\ SeenByLane1 \in [Lanes -> Slots]
         /\ NextExMem \in ResultLatch
         /\ [NextExMem EXCEPT !.lane[1] = Empty] \in ResultLatch
<1>1. ex_mem.lane \in [Lanes -> Slots] /\ 0 \in Lanes /\ 1 \in Lanes /\ id_ex.pc \in Int
  BY DEF TypeOK, ResultLatch, FetchLatch, Lanes
<1>2. Executed0 \in Slots
  BY <1>1, ExecutedType DEF Executed0
<1>3. SeenByLane1 \in [Lanes -> Slots]
  BY <1>1, <1>2 DEF SeenByLane1
<1>4. Executed1 \in Slots
  BY <1>1, <1>3, ExecutedType DEF Executed1
<1> QED BY <1>1, <1>2, <1>3, <1>4, EmptyType DEF NextExMem, ResultLatch, Lanes

\* The CSR file after the writes of both slots.
LEMMA NextCsrType ==
  ASSUME TypeOK
  PROVE  NextCsr \in CsrFile
<1> DEFINE a == Operand(id_ex.lane[0].rs1, 0, ex_mem.lane)
           b == Operand(id_ex.lane[1].rs1, 1, SeenByLane1)
           f == CsrAfter(id_ex.lane[0], a, csr)
<1>1. /\ 0 \in Lanes /\ 1 \in Lanes /\ csr \in CsrFile
      /\ \A l \in Lanes : id_ex.lane[l] \in Decoded /\ id_ex.lane[l].rs1 \in Reg
  BY DEF TypeOK, FetchLatch, Lanes, Decoded, Instr
<1>2. a \in Word /\ b \in Word
  BY <1>1, NextExMemType, OperandType
<1> HIDE DEF a, b
<1>3. f \in CsrFile
  BY <1>1, <1>2, CsrAfterType
<1> HIDE DEF f
<1>4. CsrAfter(id_ex.lane[1], b, f) \in CsrFile
  BY <1>1, <1>2, <1>3, CsrAfterType
<1> QED BY <1>4 DEF NextCsr, a, b, f

-----------------------------------------------------------------------------
(* Contexts                                                                *)

\* The current context, whatever the execute stage has made of its CSRs.
LEMMA ContextType ==
  ASSUME TypeOK
  PROVE  /\ Context \in AnyContext
         /\ [Context EXCEPT !.csr = NextCsr] \in AnyContext
         /\ \A level \in BOOLEAN : Ticked(level) \in AnyContext
<1>1. Context \in AnyContext
  BY DEF TypeOK, Context, AnyContext
<1>2. [Context EXCEPT !.csr = NextCsr] \in AnyContext
  BY <1>1, NextCsrType DEF AnyContext
<1>3. ASSUME NEW level \in BOOLEAN
      PROVE  Ticked(level) \in AnyContext
  BY <1>1, TickedType DEF Ticked, Context
<1> QED BY <1>1, <1>2, <1>3

\* Entering a context leaves csr, prv and pc of their types.
LEMMA EnterType ==
  ASSUME NEW c \in AnyContext, Enter(c)
  PROVE  csr' \in CsrFile /\ prv' \in SUBSET {0, 1} /\ pc' \in Int
  BY DEF AnyContext, Enter

\* Every cause that is raised is one.
LEMMA CauseTypes ==
  /\ \A p : EcallCause(p) \in Causes
  /\ \A i, p : TrapCause(i, p) \in Causes
  /\ \A i, outcome : AccessCause(i, outcome) \in Causes
  /\ MCAUSE_INST_PAGE_FAULT \in Causes
<1>1. \A n \in 0..15 : Exception(n) \in Causes
  BY DEF Exception, Causes
<1>2. \A p : EcallCause(p) \in Causes
  BY <1>1 DEF EcallCause, MCAUSE_ECALL_U, MCAUSE_ECALL_S, MCAUSE_ECALL_M
<1>3. MCAUSE_ILLEGAL \in Causes /\ MCAUSE_INST_PAGE_FAULT \in Causes
  BY <1>1 DEF MCAUSE_ILLEGAL, MCAUSE_INST_PAGE_FAULT
<1>4. \A i, p : TrapCause(i, p) \in Causes
  BY <1>2, <1>3 DEF TrapCause
<1>5. \A i, outcome : AccessCause(i, outcome) \in Causes
  BY <1>1 DEF AccessCause, MCAUSE_LOAD_MISALIGNED, MCAUSE_STORE_MISALIGNED,
              MCAUSE_LOAD_PAGE_FAULT, MCAUSE_STORE_PAGE_FAULT
<1> QED BY <1>2, <1>3, <1>4, <1>5

-----------------------------------------------------------------------------
(* Each handler keeps the type                                             *)

\* The latches after a flush.
LEMMA FlushType ==
  ASSUME Flush
  PROVE  if_id' \in FetchLatch /\ id_ex' \in FetchLatch
  BY EmptyType DEF Flush

\* The interrupt check.
LEMMA InterruptCheckType ==
  ASSUME TypeOK, InterruptCheck
  PROVE  TypeOK'
<1>1. PICK level \in TimerLevels : NoInterrupt(level) \/ InterruptEntry(level)
  BY DEF InterruptCheck
<1>2. level \in BOOLEAN /\ Ticked(level) \in AnyContext
  BY TimerAssumption, ContextType
<1>3. CASE NoInterrupt(level)
  <2>1. csr' \in CsrFile /\ prv' \in SUBSET {0, 1} /\ pc' \in Int
    BY <1>2, <1>3, EnterType DEF NoInterrupt
  <2> QED BY <1>3, <2>1 DEF NoInterrupt, TypeOK, Stages, latches
<1>4. CASE InterruptEntry(level)
  <2>1. TakeInterrupt(Ticked(level)) \in AnyContext
    BY <1>2, <1>4, TakeInterruptType DEF InterruptEntry
  <2>2. csr' \in CsrFile /\ prv' \in SUBSET {0, 1} /\ pc' \in Int
    BY <1>4, <2>1, EnterType DEF InterruptEntry
  <2>3. if_id' \in FetchLatch /\ id_ex' \in FetchLatch
    BY <1>4, FlushType DEF InterruptEntry
  <2> QED BY <1>4, <2>2, <2>3 DEF InterruptEntry, TypeOK, Stages
<1> QED BY <1>1, <1>3, <1>4

\* Write-back.
LEMMA WriteBackType ==
  ASSUME TypeOK, WriteBack
  PROVE  TypeOK'
<1>1. mem_wb[0] \in Slots /\ mem_wb[1] \in Slots /\ regs \in [Reg -> Word]
  BY DEF TypeOK, Lanes
<1>2. SetReg(regs, mem_wb[0]) \in [Reg -> Word]
  BY <1>1, SetRegType
<1>3. SetReg(SetReg(regs, mem_wb[0]), mem_wb[1]) \in [Reg -> Word]
  BY <1>1, <1>2, SetRegType
<1>4. regs' \in [Reg -> Word]
  BY <1>3 DEF WriteBack
<1>5. running' \in BOOLEAN
  BY DEF WriteBack, GoesOn
<1> QED BY <1>4, <1>5 DEF WriteBack, TypeOK, Stages, latches

\* A load that is inside memory reads a word, a store there writes one.
LEMMA AccessType ==
  ASSUME TypeOK, NEW l \in Lanes, Outcome(l) = "done", NEW m \in [DataAddrs -> Word]
  PROVE  /\ Loaded(m, ex_mem.lane[l]) \in Slots
         /\ Stored(m, ex_mem.lane[l]) \in [DataAddrs -> Word]
<1> DEFINE s == ex_mem.lane[l]
<1>1. s \in Slots
  BY DEF TypeOK, ResultLatch
<1>2. IsMemory(s.instr) => s.result \in DataAddrs
  BY DoneAccess DEF Outcome
<1>3. Loaded(m, s) \in Slots
  BY <1>1, <1>2 DEF Loaded, Slots, IsMemory
<1>4. Stored(m, s) \in [DataAddrs -> Word]
  BY <1>1, <1>2 DEF Stored, Slots, IsMemory
<1> QED BY <1>3, <1>4

\* The memory the slot in lane l finds.
LEMMA MemAfterType ==
  ASSUME TypeOK, NEW l \in Lanes, Reached(l)
  PROVE  MemAfter(l) \in [DataAddrs -> Word]
<1>1. mem \in [DataAddrs -> Word] /\ 0 \in Lanes
  BY DEF TypeOK, Lanes
<1>2. CASE l = 0
  BY <1>1, <1>2 DEF MemAfter
<1>3. CASE l = 1
  <2>1. Outcome(0) = "done"
    BY <1>1, <1>3 DEF Reached
  <2> QED BY <1>1, <1>3, <2>1, AccessType DEF MemAfter
<1> QED BY <1>2, <1>3 DEF Lanes

\* The memory stage.
LEMMA MemoryType ==
  ASSUME TypeOK, Memory
  PROVE  TypeOK'
<1>0. mem \in [DataAddrs -> Word] /\ 0 \in Lanes /\ 1 \in Lanes
  BY DEF TypeOK, Lanes
<1>1. CASE MemoryAccess
  <2>1. \A l \in Lanes : Outcome(l) = "done"
    BY <1>1 DEF MemoryAccess
  <2>2. \A l \in Lanes : Reached(l)
    BY <2>1 DEF Reached
  <2>3. \A l \in Lanes : MemAfter(l) \in [DataAddrs -> Word]
    BY <2>2, MemAfterType
  <2>4. \A l \in Lanes : Loaded(MemAfter(l), ex_mem.lane[l]) \in Slots
    BY <2>1, <2>3, AccessType
  <2>5. mem_wb' \in [Lanes -> Slots]
    BY <1>1, <2>4 DEF MemoryAccess
  <2>6. mem' \in [DataAddrs -> Word]
    BY <1>0, <1>1, <2>1, <2>3, AccessType DEF MemoryAccess
  <2> QED BY <1>1, <2>5, <2>6 DEF MemoryAccess, TypeOK, Stages, regFile
<1>2. ASSUME NEW l \in Lanes, MemoryTrap(l)
      PROVE  TypeOK'
  <2> DEFINE s == ex_mem.lane[l]
             c == HandleTrap(Context, FaultPc(l), AccessCause(s.instr, Outcome(l)), s.result)
  <2>1. Reached(l) /\ \A k \in Lanes : k < l => Outcome(k) = "done"
    BY <1>2 DEF MemoryTrap, Reached
  <2>2. mem' \in [DataAddrs -> Word]
    BY <1>2, <2>1, MemAfterType DEF MemoryTrap
  <2>3. \A k \in Lanes : ex_mem.lane[k] \in Slots
    BY DEF TypeOK, ResultLatch
  <2>4. \A k \in Lanes : k < l => Loaded(mem, ex_mem.lane[k]) \in Slots
    BY <1>0, <2>1, AccessType
  <2>5. mem_wb' \in [Lanes -> Slots]
    BY <1>2, <2>3, <2>4, EmptyType DEF MemoryTrap
  <2>6. FaultPc(l) \in Int /\ s.result \in Int
    BY <2>3 DEF TypeOK, ResultLatch, FaultPc, Lanes, Slots, Word
  <2>7. c \in AnyContext
    BY <2>6, ContextType, CauseTypes, HandleTrapType
  <2>8. csr' \in CsrFile /\ prv' \in SUBSET {0, 1} /\ pc' \in Int
    BY <1>2, <2>7, EnterType DEF MemoryTrap
  <2>9. if_id' \in FetchLatch /\ id_ex' \in FetchLatch /\ ex_mem' \in ResultLatch
    BY <1>2, FlushType, EmptyType DEF MemoryTrap
  <2> QED BY <1>2, <2>2, <2>5, <2>8, <2>9 DEF MemoryTrap, TypeOK, Stages
<1>3. ASSUME NEW l \in Lanes, MemoryAbort(l)
      PROVE  TypeOK'
  <2>1. mem' \in [DataAddrs -> Word]
    BY <1>3, MemAfterType DEF MemoryAbort
  <2> QED BY <1>3, <2>1 DEF MemoryAbort, TypeOK, Stages, latches, regFile
<1> QED BY <1>1, <1>2, <1>3 DEF Memory

\* The pc a jump goes to and the operand it may come from.
LEMMA TargetType ==
  ASSUME TypeOK
  PROVE  JumpTarget(Branch, id_ex.pc, BranchOperand1) \in Int /\ id_ex.pc + 1 \in Int
<1>1. /\ Branch \in Decoded /\ Branch.rs1 \in Reg /\ Branch.imm \in Int
      /\ id_ex.pc \in Int /\ 0 \in Lanes
  BY DEF TypeOK, FetchLatch, Lanes, Branch, Decoded, Instr
<1>2. BranchOperand1 \in Word
  BY <1>1, NextExMemType, OperandType DEF BranchOperand1
<1> HIDE DEF Branch, BranchOperand1
<1>3. BranchOperand1 + Branch.imm \in Int
  BY <1>1, <1>2, SizesAssumption DEF Word
<1>4. Wrap(BranchOperand1 + Branch.imm) \in Int
  BY <1>3, WrapType, SizesAssumption DEF Word
<1> QED BY <1>1, <1>4 DEF JumpTarget

\* The execute stage.
LEMMA ExecutionType ==
  ASSUME TypeOK, Execution
  PROVE  TypeOK'
<1>0. NextCsr \in CsrFile /\ NextExMem \in ResultLatch /\ [NextExMem EXCEPT !.lane[1] = Empty] \in ResultLatch
  BY NextCsrType, NextExMemType
<1>1. CASE Execute
  BY <1>0, <1>1 DEF Execute, TypeOK, Stages
<1>2. CASE ExecuteBranch
  <2>1. pc' \in Int /\ if_id' \in FetchLatch /\ id_ex' \in FetchLatch
    BY <1>2, TargetType, FlushType DEF ExecuteBranch, TypeOK
  <2> QED BY <1>0, <1>2, <2>1 DEF ExecuteBranch, TypeOK, Stages
<1>3. ASSUME NEW l \in Lanes, ExecuteTrap(l)
      PROVE  TypeOK'
  <2> DEFINE i == id_ex.lane[l]
             c == [Context EXCEPT !.csr = NextCsr]
             h == HandleTrap(c, TrapPc(i, id_ex.pc + l), TrapCause(i, prv), TrapValue(i))
  <2>1. i \in Decoded /\ i.imm \in Int /\ id_ex.pc + l \in Int
    BY DEF TypeOK, FetchLatch, Lanes, Decoded, Instr
  <2>2. TrapPc(i, id_ex.pc + l) \in Int /\ TrapValue(i) \in Int
    BY <2>1 DEF TrapPc, TrapValue
  <2>3. c \in AnyContext
    BY ContextType
  <2>4. h \in AnyContext /\ Mret(c) \in AnyContext /\ Sret(c) \in AnyContext
    BY <2>2, <2>3, CauseTypes, HandleTrapType, MretType, SretType
  <2>5. i.op \in {"mret", "sret", "ecall", "illegal"}
    BY <1>3 DEF ExecuteTrap, TrapsInLane, IsTrapping, Lanes
  <2>6. Enter(Mret(c)) \/ Enter(Sret(c)) \/ Enter(h)
    BY <1>3, <2>5 DEF ExecuteTrap
  <2>7. csr' \in CsrFile /\ prv' \in SUBSET {0, 1} /\ pc' \in Int
    BY <2>4, <2>6, EnterType
  <2>8. if_id' \in FetchLatch /\ id_ex' \in FetchLatch /\ ex_mem' \in ResultLatch
    BY <1>3, FlushType, EmptyType DEF ExecuteTrap
  <2> QED BY <1>3, <2>7, <2>8 DEF ExecuteTrap, TypeOK, Stages
<1> QED BY <1>1, <1>2, <1>3 DEF Execution

\* The prediction moves the pc by an offset of the latch.
LEMMA PredictType ==
  ASSUME TypeOK, NEW latch \in FetchLatch, Predict(latch)
  PROVE  pc' \in Int
<1>1. latch.lane[0].imm \in Int /\ latch.pc \in Int
  BY DEF FetchLatch, Lanes, Decoded, Instr
<1> QED BY <1>1 DEF Predict, TypeOK

\* The issue unit.
LEMMA IssueType ==
  ASSUME TypeOK, Issue
  PROVE  TypeOK'
<1>0. /\ if_id \in FetchLatch /\ id_ex \in FetchLatch /\ if_id.pc \in Int /\ if_id.pc + 1 \in Int
      /\ if_id.lane[0] \in Decoded /\ if_id.lane[1] \in Decoded
  BY DEF TypeOK, FetchLatch, Lanes
<1>1. /\ Cleared(if_id) \in FetchLatch /\ Cleared(id_ex) \in FetchLatch
      /\ Fetched(if_id.pc, if_id.lane[0], Bubble) \in FetchLatch
      /\ SecondMovesUp \in FetchLatch
  BY <1>0, EmptyType, ClearedType, FetchedType DEF SecondMovesUp
<1>2. CASE DecodeNothing
  <2>1. pc' \in Int
    BY <1>0, <1>2, PredictType DEF DecodeNothing
  <2> QED BY <1>2, <2>1 DEF DecodeNothing, TypeOK, Stages, latches, regFile
<1>3. CASE DecodeStall
  BY <1>1, <1>3 DEF DecodeStall, TypeOK, Stages, regFile
<1>4. CASE IssuePredicted
  <2>1. id_ex' \in FetchLatch /\ if_id' \in FetchLatch
    BY <1>1, <1>4 DEF IssuePredicted
  <2>2. pc' \in Int
    BY <1>4, <2>1, PredictType DEF IssuePredicted
  <2> QED BY <1>4, <2>1, <2>2 DEF IssuePredicted, TypeOK, Stages, regFile
<1>5. CASE IssuePair
  BY <1>1, <1>5 DEF IssuePair, TypeOK, Stages, regFile
<1>6. CASE IssueSingle
  BY <1>1, <1>6 DEF IssueSingle, TypeOK, Stages, regFile
<1> QED BY <1>2, <1>3, <1>4, <1>5, <1>6 DEF Issue

\* Instructions come from memory, inside it.
LEMMA CodeType ==
  ASSUME TypeOK
  PROVE  /\ PairInMemory => pc \in CodeAddrs /\ pc + 1 \in CodeAddrs
         /\ LastInMemory => pc \in CodeAddrs
         /\ \A a \in CodeAddrs : code[a] \in Decoded
  BY SizesAssumption DEF TypeOK, PairInMemory, LastInMemory, CodeAddrs

\* Fetch.
LEMMA FetchType ==
  ASSUME TypeOK, Fetch
  PROVE  TypeOK'
<1> DEFINE c == HandleTrap(Context, pc, MCAUSE_INST_PAGE_FAULT, pc)
<1>0. pc \in Int /\ c \in AnyContext
  BY ContextType, CauseTypes, HandleTrapType DEF TypeOK
<1> HIDE DEF c
<1>1. CASE FetchHeld
  BY <1>1 DEF FetchHeld, TypeOK, Stages, latches, regFile
<1>2. CASE FetchPair
  <2>1. if_id' \in FetchLatch
    BY <1>0, <1>2, CodeType, FetchedType DEF FetchPair
  <2> QED BY <1>0, <1>2, <2>1 DEF FetchPair, TypeOK, Stages, regFile
<1>3. CASE FetchSingle
  <2>1. if_id' \in FetchLatch
    BY <1>0, <1>3, CodeType, EmptyType, FetchedType DEF FetchSingle
  <2> QED BY <1>0, <1>3, <2>1 DEF FetchSingle, TypeOK, Stages, regFile
<1>4. CASE FetchTrap
  <2>1. csr' \in CsrFile /\ prv' \in SUBSET {0, 1} /\ pc' \in Int
    BY <1>0, <1>4, EnterType DEF FetchTrap, c
  <2>2. if_id' \in FetchLatch /\ id_ex' \in FetchLatch /\ ex_mem' \in ResultLatch
    BY <1>4, FlushType, EmptyType DEF FetchTrap
  <2> QED BY <1>4, <2>1, <2>2 DEF FetchTrap, TypeOK, Stages
<1>5. CASE FetchTrapLast
  <2>1. csr' \in CsrFile /\ prv' \in SUBSET {0, 1} /\ pc' \in Int /\ c.pc \in Int
    BY <1>0, <1>5 DEF FetchTrapLast, AnyContext, c
  <2>2. if_id' \in FetchLatch /\ id_ex' \in FetchLatch /\ ex_mem' \in ResultLatch
    BY <1>5, <2>1, EmptyType, FetchedType DEF FetchTrapLast, c
  <2> QED BY <1>5, <2>1, <2>2 DEF FetchTrapLast, TypeOK, Stages
<1>6. CASE FetchNothing
  BY <1>6 DEF FetchNothing, TypeOK, Stages, latches, regFile
<1> QED BY <1>1, <1>2, <1>3, <1>4, <1>5, <1>6 DEF Fetch

-----------------------------------------------------------------------------
(* The type invariant                                                      *)

\* What instruction memory may hold is decoded.
LEMMA ProgramType ==
  ASSUME NEW p \in Programs
  PROVE  p \in [CodeAddrs -> Decoded] /\ \A a \in CodeAddrs : Valid(p[a])
  BY ProgramsAssumption DEF Decoded, WellFormed, Valid

\* The state after reset.
LEMMA InitType ==
  ASSUME Init
  PROVE  TypeOK
<1>1. PICK c \in Contexts : csr = c.csr /\ prv = c.prv /\ pc = c.pc
  BY DEF Init
<1>2. csr \in CsrFile /\ prv \in SUBSET {0, 1} /\ pc \in Int
  BY <1>1, ContextsAssumption
<1>3. regs \in [Reg -> Word] /\ mem \in [DataAddrs -> Word]
  BY InitDataAssumption, SizesAssumption DEF Init, Word
<1>4. code \in [CodeAddrs -> Decoded]
  BY ProgramType DEF Init
<1> QED BY <1>2, <1>3, <1>4, EmptyType DEF Init, TypeOK, Stages

\* Type correctness of the pipeline: whatever is fetched, forwarded, loaded,
\* trapped on and returned to, every latch holds decoded instructions and every
\* register and memory cell a word of the machine.
THEOREM PipelineTypeCorrect == Spec => []TypeOK
<1>1. Init => TypeOK
  BY InitType
<1>2. TypeOK /\ [Next]_vars => TypeOK'
  <2> SUFFICES ASSUME TypeOK, [Next]_vars PROVE TypeOK'
    OBVIOUS
  <2>1. CASE InterruptCheck
    BY <2>1, InterruptCheckType
  <2>2. CASE WriteBack
    BY <2>2, WriteBackType
  <2>3. CASE Memory
    BY <2>3, MemoryType
  <2>4. CASE Execution
    BY <2>4, ExecutionType
  <2>5. CASE Issue
    BY <2>5, IssueType
  <2>6. CASE Fetch
    BY <2>6, FetchType
  <2>7. CASE UNCHANGED vars
    BY <2>7 DEF TypeOK, vars, latches, regFile
  <2> QED BY <2>1, <2>2, <2>3, <2>4, <2>5, <2>6, <2>7 DEF Next, Halted
<1> QED BY <1>1, <1>2, PTL DEF Spec
=============================================================================
