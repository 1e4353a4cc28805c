------------------------------ MODULE Pipeline ------------------------------
(***************************************************************************)
(* The five-stage, dual-issue, in-order core.  One clock tick runs the     *)
(* interrupt check and then the stages from the last to the first, so that *)
(* each stage reads its input latch before the stage before it overwrites  *)
(* it.  Each of these handlers is a group of actions here, one for each of *)
(* its outcomes; stage says whose turn it is.                              *)
(*                                                                         *)
(* A latch has a lane for each of the two slots; MEM/WB has nothing else.  *)
(* An invalid slot is the Bubble: the code reads nothing of a slot that is *)
(* not valid.  What the latches carry besides (decoded signals, memRead,   *)
(* memWrite, the jump target) is a function of the instruction and the pc. *)
(***************************************************************************)
EXTENDS Rv32

CONSTANTS
  Programs,          \* the contents of instruction memory to consider
  Contexts,          \* csr, prv and pc that boot code may have established
  InitData,          \* the data memory at the start
  StackPointer,      \* the initial x2
  TimerLevels,       \* what the timer comparison may be at a tick
  PreciseInterrupts  \* for the sequential machine: see Isa.tla

ASSUME ProgramsAssumption ==
  \A p \in Programs : p \in [CodeAddrs -> Instr] /\ \A a \in CodeAddrs : WellFormed(p[a])
ASSUME ContextsAssumption ==
  Contexts \subseteq [csr : CsrFile, prv : SUBSET {0, 1}, pc : Int]
ASSUME InitDataAssumption ==
  InitData \in [DataAddrs -> Word] /\ StackPointer \in Word
ASSUME TimerAssumption == TimerLevels \subseteq BOOLEAN /\ TimerLevels # {}

VARIABLES
  code,     \* instruction memory
  stage,    \* the handler that runs next
  running,  \* cleared by EBREAK and by the all-zero word
  pc,       \* the fetch pc
  if_id, id_ex, ex_mem, mem_wb,   \* the latches
  regs, csr, prv,                 \* the register file
  mem                             \* data memory

latches == <<if_id, id_ex, ex_mem, mem_wb>>
regFile == <<regs, csr, prv>>
vars == <<code, stage, running, pc, latches, regFile, mem>>

Stages == {"INT", "WB", "MEM", "EX", "ID", "IF", "EXITED"}

\* What the execute stage adds to a slot.
Done(i, result, data) == [instr |-> i, result |-> result, data |-> data]
Empty == Done(Bubble, 0, 0)

Fetched(a, i0, i1) == [pc |-> a, lane |-> [l \in Lanes |-> IF l = 0 THEN i0 ELSE i1]]
NoFetch   == Fetched(0, Bubble, Bubble)
NoResults == [pc |-> 0, lane |-> [l \in Lanes |-> Empty]]

Valid(i) == i.op # "bubble"

Context == [csr |-> csr, prv |-> prv, pc |-> pc]

\* csr, prv and pc take the values a trap entry or return gives them.
Enter(c) == csr' = c.csr /\ prv' = c.prv /\ pc' = c.pc

\* Defect for the mutant runs: ID/EX is forgotten.
FlushFetched == if_id' = NoFetch /\ UNCHANGED id_ex

\* PipelineRegisters::flush: the two younger latches.
Flush == if_id' = NoFetch /\ id_ex' = NoFetch

Init ==
  /\ code \in Programs
  /\ \E c \in Contexts : csr = c.csr /\ prv = c.prv /\ pc = c.pc
  /\ stage = "INT"
  /\ running = TRUE
  /\ if_id = NoFetch /\ id_ex = NoFetch
  /\ ex_mem = NoResults /\ mem_wb = NoResults.lane
  /\ regs = [r \in Reg |-> IF r = 2 THEN StackPointer ELSE 0]
  /\ mem = InitData

-----------------------------------------------------------------------------
(* checkAndHandleInterrupts, after the timer has been sampled.             *)

Ticked(level) == [Context EXCEPT !.csr = HwSetMtip(csr, level)]

NoInterrupt(level) ==
  /\ stage = "INT" /\ running
  /\ ~InterruptDue(Ticked(level))
  /\ Enter(Ticked(level))
  /\ stage' = "WB"
  /\ UNCHANGED <<code, running, latches, regs, mem>>

\* The fetch pc is what is saved, whatever is still in IF/ID and ID/EX.
InterruptEntry(level) ==
  /\ stage = "INT" /\ running
  /\ InterruptDue(Ticked(level))
  /\ Enter(TakeInterrupt(Ticked(level)))
  /\ Flush
  /\ stage' = "WB"
  /\ UNCHANGED <<code, running, ex_mem, mem_wb, regs, mem>>

-----------------------------------------------------------------------------
(* writeBack: slot 0 before slot 1, halting instructions write nothing and *)
(* do not keep the other slot from being written.                          *)

SetReg(file, s) ==
  IF RegWrite(s.instr) /\ s.instr.rd # 0
    THEN [file EXCEPT ![s.instr.rd] = s.result] ELSE file

\* Defect for the mutant runs: a halting instruction in slot 1 is overlooked.
GoesOnAfterSlot0(slots) == ~IsHalting(slots[0].instr)

GoesOn(slots) == \A l \in Lanes : ~IsHalting(slots[l].instr)

WriteBack ==
  /\ stage = "WB"
  /\ regs' = SetReg(SetReg(regs, mem_wb[0]), mem_wb[1])
  /\ running' = GoesOn(mem_wb)
  /\ stage' = "MEM"
  /\ UNCHANGED <<code, pc, latches, csr, prv, mem>>

-----------------------------------------------------------------------------
(* memoryAccess                                                            *)

Outcome(l) == LET s == ex_mem.lane[l]
              IN  IF IsMemory(s.instr) THEN Access(s.result, csr, prv) ELSE "done"

\* The slots before lane l went through the stage undisturbed.
Reached(l) == \A k \in Lanes : k < l => Outcome(k) = "done"

Stored(m, s) == IF IsStore(s.instr) THEN [m EXCEPT ![s.result] = s.data] ELSE m
Loaded(m, s) == IF IsLoad(s.instr) THEN [s EXCEPT !.result = m[s.result]] ELSE s

MemAfter(l) == IF l = 0 THEN mem ELSE Stored(mem, ex_mem.lane[0])

MemoryAccess ==
  /\ stage = "MEM"
  /\ \A l \in Lanes : Outcome(l) = "done"
  /\ mem_wb' = [l \in Lanes |-> Loaded(MemAfter(l), ex_mem.lane[l])]
  /\ mem' = Stored(MemAfter(1), ex_mem.lane[1])
  /\ stage' = "EX"
  /\ UNCHANGED <<code, running, pc, if_id, id_ex, ex_mem, regFile>>

\* Defect for the mutant runs: both slots of a pair have the address of slot 0.
PairPc(l) == ex_mem.pc

FaultPc(l) == ex_mem.pc + l

\* The faulting slot has been moved to MEM/WB before the checks: it stays
\* there, with its address for a result.
MemoryTrap(l) ==
  /\ stage = "MEM"
  /\ Reached(l) /\ Outcome(l) \in {"misaligned", "page fault"}
  /\ LET s == ex_mem.lane[l]
     IN  Enter(HandleTrap(Context, FaultPc(l),
                          AccessCause(s.instr, Outcome(l)), s.result))
  /\ mem_wb' = [k \in Lanes |-> CASE k < l -> Loaded(mem, ex_mem.lane[k])
                                   [] k = l -> ex_mem.lane[k]
                                   [] OTHER -> Empty]
  /\ mem' = MemAfter(l)
  /\ Flush
  /\ ex_mem' = NoResults
  /\ stage' = "EX"
  /\ UNCHANGED <<code, running, regs>>

\* The memory system throws; main reports it and the process ends.
MemoryAbort(l) ==
  /\ stage = "MEM"
  /\ Reached(l) /\ Outcome(l) = "abort"
  /\ mem' = MemAfter(l)
  /\ stage' = "EXITED"
  /\ UNCHANGED <<code, running, pc, latches, regFile>>

-----------------------------------------------------------------------------
(* execute                                                                 *)

\* Defect for the mutant runs: of two results for r the older one is taken.
OlderOfMemWb(r) == IF Writes(mem_wb[0].instr, r) THEN mem_wb[0].result
                   ELSE IF Writes(mem_wb[1].instr, r) THEN mem_wb[1].result
                   ELSE regs[r]

\* MEM/WB, about to be written back, slot 1 first; else the register file.
NewestOfMemWb(r) == IF Writes(mem_wb[1].instr, r) THEN mem_wb[1].result
                    ELSE IF Writes(mem_wb[0].instr, r) THEN mem_wb[0].result
                    ELSE regs[r]

\* getOperand: the newest value of r before the instruction in a lane.  exm
\* is EX/MEM as the lane sees it: slot 0 of it is already the new one for
\* lane 1.
Operand(r, lane, exm) ==
  LET other == 1 - lane
  IN  IF r = 0 THEN 0
      ELSE IF lane = 1 /\ Writes(exm[0].instr, r) THEN exm[0].result
      ELSE IF Writes(exm[other].instr, r) /\ ~IsMemory(exm[other].instr)
             THEN exm[other].result
      ELSE NewestOfMemWb(r)

\* executeSlot: a memory instruction carries the value to store along.
Executed(lane, exm) ==
  LET i   == id_ex.lane[lane]
      op1 == Operand(i.rs1, lane, exm)
      op2 == Operand(i.rs2, lane, exm)
  IN  IF Valid(i)
        THEN Done(i, Result(i, id_ex.pc + lane, op1, op2, csr),
                  IF IsMemory(i) THEN op2 ELSE 0)
        ELSE Empty

Executed0 == Executed(0, ex_mem.lane)
SeenByLane1 == IF Valid(id_ex.lane[0]) THEN [ex_mem.lane EXCEPT ![0] = Executed0]
                                       ELSE ex_mem.lane
Executed1 == Executed(1, SeenByLane1)

NextExMem == [pc |-> id_ex.pc,
              lane |-> [l \in Lanes |-> IF l = 0 THEN Executed0 ELSE Executed1]]

\* The CSR writes of both slots, committed before anything else.
NextCsr ==
  CsrAfter(id_ex.lane[1], Operand(id_ex.lane[1].rs1, 1, SeenByLane1),
           CsrAfter(id_ex.lane[0], Operand(id_ex.lane[0].rs1, 0, ex_mem.lane), csr))

Branch == id_ex.lane[0]
BranchOperand1 == Operand(Branch.rs1, 0, ex_mem.lane)
Taken == BranchTaken(Branch, BranchOperand1, Operand(Branch.rs2, 0, ex_mem.lane))

\* The slot whose trap or return is handled: slot 1 only after a normal slot 0
\* that did not redirect control.
Redirects == Taken \/ PredictedTaken(Branch)
TrapsInLane(l) ==
  IF l = 0 THEN IsTrapping(id_ex.lane[0])
  ELSE /\ Valid(id_ex.lane[0]) /\ ~IsTrapping(id_ex.lane[0]) /\ ~Redirects
       /\ IsTrapping(id_ex.lane[1])

Execute ==
  /\ stage = "EX"
  /\ ~Redirects
  /\ \A l \in Lanes : ~TrapsInLane(l)
  /\ ex_mem' = NextExMem
  /\ csr' = NextCsr
  /\ stage' = "ID"
  /\ UNCHANGED <<code, running, pc, if_id, id_ex, mem_wb, regs, prv, mem>>

\* A branch or jump whose outcome slot 1 must not follow.  When the prediction
\* was right the fetch pc is already on the target.
ExecuteBranch ==
  /\ stage = "EX"
  /\ Redirects
  /\ ex_mem' = [NextExMem EXCEPT !.lane[1] = Empty]
  /\ IF Taken = PredictedTaken(Branch)
       THEN UNCHANGED <<pc, if_id, id_ex>>
       ELSE /\ pc' = IF Taken THEN JumpTarget(Branch, id_ex.pc, BranchOperand1)
                              ELSE id_ex.pc + 1
            /\ Flush
  /\ csr' = NextCsr
  /\ stage' = "ID"
  /\ UNCHANGED <<code, running, mem_wb, regs, prv, mem>>

\* ECALL, illegal instruction, MRET, SRET: both slots of EX/MEM are cleared.
ExecuteTrap(l) ==
  /\ stage = "EX"
  /\ TrapsInLane(l)
  /\ LET i == id_ex.lane[l]
         c == [Context EXCEPT !.csr = NextCsr]
     IN  Enter(CASE i.op = "mret" -> Mret(c)
                 [] i.op = "sret" -> Sret(c)
                 [] i.op \in {"ecall", "illegal"} ->
                      HandleTrap(c, TrapPc(i, id_ex.pc + l),
                                 TrapCause(i, prv), TrapValue(i)))
  /\ Flush
  /\ ex_mem' = NoResults
  /\ stage' = "ID"
  /\ UNCHANGED <<code, running, mem_wb, regs, mem>>

-----------------------------------------------------------------------------
(* decodeAndIssue                                                          *)

\* CPUCore::decodeAndIssue: after the issue unit, a predicted branch in ID/EX
\* redirects the fetch pc.
Predict(latch) ==
  pc' = IF PredictedTaken(latch.lane[0]) THEN latch.pc + latch.lane[0].imm ELSE pc

\* Nothing to decode: ID/EX keeps what it held.
DecodeNothing ==
  /\ stage = "ID"
  /\ ~Valid(if_id.lane[0])
  /\ Predict(id_ex)
  /\ stage' = "IF"
  /\ UNCHANGED <<code, running, latches, regFile, mem>>

\* Defect for the mutant runs: a load is compared with the readers fetched
\* along with it.
LoadUseWithinPair ==
  \E l, k \in Lanes :
    /\ IsLoad(if_id.lane[l]) /\ if_id.lane[l].rd # 0
    /\ Reads(if_id.lane[k], if_id.lane[l].rd)

\* Both slots invalid, the pc kept.
Cleared(latch) == [latch EXCEPT !.lane = [l \in Lanes |-> Bubble]]

\* A load that has just executed is followed by a reader of its register.
LoadUse ==
  \E l, k \in Lanes :
    /\ IsLoad(id_ex.lane[l]) /\ id_ex.lane[l].rd # 0
    /\ Reads(if_id.lane[k], id_ex.lane[l].rd)

DecodeStall ==
  /\ stage = "ID"
  /\ Valid(if_id.lane[0]) /\ LoadUse
  /\ id_ex' = Cleared(id_ex)
  /\ stage' = "IF"
  /\ UNCHANGED <<code, running, pc, if_id, ex_mem, mem_wb, regFile, mem>>

\* Defect for the mutant runs: two memory accesses pair.
PairsMemory(i0, i1) ==
  /\ ~IsBranch(i1)
  /\ ~(IsLoad(i0) /\ i0.rd # 0 /\ Reads(i1, i0.rd))
  /\ ~IsSystem(i0) /\ ~IsSystem(i1)

CanIssueTogether(i0, i1) ==
  /\ ~(IsMemory(i0) /\ IsMemory(i1))
  /\ ~IsBranch(i1)
  /\ ~(IsBranch(i0) /\ PredictedTaken(i0))
  /\ ~(IsLoad(i0) /\ i0.rd # 0 /\ Reads(i1, i0.rd))
  /\ ~IsSystem(i0) /\ ~IsSystem(i1)

DecodeReady == stage = "ID" /\ Valid(if_id.lane[0]) /\ ~LoadUse

\* A branch predicted taken issues alone; both fetched slots are dropped.
IssuePredicted ==
  /\ DecodeReady
  /\ PredictedTaken(if_id.lane[0])
  /\ id_ex' = Fetched(if_id.pc, if_id.lane[0], Bubble)
  /\ if_id' = Cleared(if_id)
  /\ Predict(id_ex')
  /\ stage' = "IF"
  /\ UNCHANGED <<code, running, ex_mem, mem_wb, regFile, mem>>

IssuePair ==
  /\ DecodeReady
  /\ ~PredictedTaken(if_id.lane[0])
  /\ Valid(if_id.lane[1]) /\ CanIssueTogether(if_id.lane[0], if_id.lane[1])
  /\ id_ex' = if_id
  /\ if_id' = Cleared(if_id)
  /\ stage' = "IF"
  /\ UNCHANGED <<code, running, pc, ex_mem, mem_wb, regFile, mem>>

\* Defect for the mutant runs: the second slot stays where it is.
SecondStays == [if_id EXCEPT !.lane[0] = Bubble]

\* The second slot, valid or not, moves up.
SecondMovesUp == Fetched(if_id.pc + 1, if_id.lane[1], Bubble)

IssueSingle ==
  /\ DecodeReady
  /\ ~PredictedTaken(if_id.lane[0])
  /\ ~(Valid(if_id.lane[1]) /\ CanIssueTogether(if_id.lane[0], if_id.lane[1]))
  /\ id_ex' = Fetched(if_id.pc, if_id.lane[0], Bubble)
  /\ if_id' = SecondMovesUp
  /\ stage' = "IF"
  /\ UNCHANGED <<code, running, pc, ex_mem, mem_wb, regFile, mem>>

-----------------------------------------------------------------------------
(* fetch.  The last action of a tick.  (Case B of the code, slot 0 empty   *)
(* and slot 1 not, is not an action: LanesInOrder shows it never applies.) *)

FetchHeld ==
  /\ stage = "IF"
  /\ Valid(if_id.lane[0])
  /\ stage' = "INT"
  /\ UNCHANGED <<code, running, pc, latches, regFile, mem>>

FetchReady == stage = "IF" /\ \A l \in Lanes : ~Valid(if_id.lane[l])

\* (No instance lets the pc become negative; the code would wrap around.)
PairInMemory == pc >= 0 /\ pc + 2 <= CodeSize
LastInMemory == pc >= 0 /\ pc + 1 = CodeSize
Faulting == FetchFaults(pc, csr, prv)

\* Defect for the mutant runs: the page of the word before is compared.
CrossedPage == pc % PageInstrs = 0

CrossesPage == pc % PageInstrs = PageInstrs - 1

FetchPair ==
  /\ FetchReady /\ PairInMemory /\ ~Faulting /\ ~CrossesPage
  /\ if_id' = Fetched(pc, code[pc], code[pc + 1])
  /\ pc' = pc + 2
  /\ stage' = "INT"
  /\ UNCHANGED <<code, running, id_ex, ex_mem, mem_wb, regFile, mem>>

\* The pair would cross a page, or there is only one instruction left.
FetchSingle ==
  /\ FetchReady /\ ~Faulting
  /\ (PairInMemory /\ CrossesPage) \/ LastInMemory
  /\ if_id' = Fetched(pc, code[pc], Bubble)
  /\ pc' = pc + 1
  /\ stage' = "INT"
  /\ UNCHANGED <<code, running, id_ex, ex_mem, mem_wb, regFile, mem>>

\* A fetch page fault traps at once, and clears EX/MEM as every trap does.
FetchTrap ==
  /\ FetchReady /\ PairInMemory /\ Faulting
  /\ Enter(HandleTrap(Context, pc, MCAUSE_INST_PAGE_FAULT, pc))
  /\ Flush
  /\ ex_mem' = NoResults
  /\ stage' = "INT"
  /\ UNCHANGED <<code, running, mem_wb, regs, mem>>

\* On the last word the handler goes on after the trap: the 0 that fetch_instr
\* returned is put in slot 0 as if it were the handler's first instruction.
ZeroWord == [Bubble EXCEPT !.op = "zero"]
FetchTrapLast ==
  /\ FetchReady /\ LastInMemory /\ Faulting
  /\ LET c == HandleTrap(Context, pc, MCAUSE_INST_PAGE_FAULT, pc)
     IN  /\ csr' = c.csr /\ prv' = c.prv /\ pc' = c.pc + 1
         /\ if_id' = Fetched(c.pc, ZeroWord, Bubble)
  /\ id_ex' = NoFetch
  /\ ex_mem' = NoResults
  /\ stage' = "INT"
  /\ UNCHANGED <<code, running, mem_wb, regs, mem>>

FetchNothing ==
  /\ FetchReady /\ ~PairInMemory /\ ~LastInMemory
  /\ stage' = "INT"
  /\ UNCHANGED <<code, running, pc, latches, regFile, mem>>

-----------------------------------------------------------------------------

\* run() returns, or the process has ended.
Terminated == (stage = "INT" /\ ~running) \/ stage = "EXITED"

Halted == Terminated /\ UNCHANGED vars

InterruptCheck == \E level \in TimerLevels : NoInterrupt(level) \/ InterruptEntry(level)
Memory    == MemoryAccess \/ \E l \in Lanes : MemoryTrap(l) \/ MemoryAbort(l)
Execution == Execute \/ ExecuteBranch \/ \E l \in Lanes : ExecuteTrap(l)
Issue     == DecodeNothing \/ DecodeStall \/ IssuePredicted \/ IssuePair \/ IssueSingle
Fetch     == \/ FetchHeld \/ FetchPair \/ FetchSingle
             \/ FetchTrap \/ FetchTrapLast \/ FetchNothing

Next == InterruptCheck \/ WriteBack \/ Memory \/ Execution \/ Issue \/ Fetch \/ Halted

Spec == Init /\ [][Next]_vars

\* The run loop calls the handlers one after the other for ever.
FairSpec == Spec /\ WF_vars(Next)

-----------------------------------------------------------------------------
(* Properties                                                              *)

Slots == [instr : Decoded, result : Word, data : Word]
FetchLatch  == [pc : Int, lane : [Lanes -> Decoded]]
ResultLatch == [pc : Int, lane : [Lanes -> Slots]]

\* Every latch holds decoded instructions and words, and every value computed
\* by the ALU, the forwarding paths or memory is a word of the machine.
TypeOK ==
  /\ code \in [CodeAddrs -> Decoded]
  /\ stage \in Stages
  /\ running \in BOOLEAN
  /\ pc \in Int
  /\ if_id \in FetchLatch /\ id_ex \in FetchLatch
  /\ ex_mem \in ResultLatch /\ mem_wb \in [Lanes -> Slots]
  /\ regs \in [Reg -> Word]
  /\ csr \in CsrFile
  /\ prv \in SUBSET {0, 1}
  /\ mem \in [DataAddrs -> Word]

Instrs(slots) == [l \in Lanes |-> slots[l].instr]

\* The younger slot of a latch is never valid without the older one: neither
\* pairing, stalling, squashing, bubble compression nor a trap in the middle of
\* a pair leaves a hole.  (So case B of fetch, which would fill such a hole,
\* never applies, and a pair is never executed out of order.)
InOrder(lane) == Valid(lane[1]) => Valid(lane[0])
LanesInOrder ==
  /\ InOrder(if_id.lane) /\ InOrder(id_ex.lane)
  /\ InOrder(Instrs(ex_mem.lane)) /\ InOrder(Instrs(mem_wb))

\* What may share an issue slot pair, wherever the pair is: one memory port, a
\* branch only as the older instruction, system instructions alone, and no use
\* of a load's register in its own pair.
MayPair(lane) ==
  Valid(lane[1]) =>
    /\ ~(IsMemory(lane[0]) /\ IsMemory(lane[1]))
    /\ ~IsBranch(lane[1])
    /\ ~IsSystem(lane[0]) /\ ~IsSystem(lane[1])
    /\ ~(IsLoad(lane[0]) /\ lane[0].rd # 0 /\ Reads(lane[1], lane[0].rd))
PairsAllowed ==
  MayPair(id_ex.lane) /\ MayPair(Instrs(ex_mem.lane)) /\ MayPair(Instrs(mem_wb))
=============================================================================
