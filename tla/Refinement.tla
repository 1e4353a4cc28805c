----------------------------- MODULE Refinement -----------------------------
(***************************************************************************)
(* The pipeline implements the sequential machine.                         *)
(*                                                                         *)
(* An instruction counts as executed once the execute stage has handled    *)
(* it.  The architectural state is what is left when the instructions that *)
(* were executed and are still in EX/MEM and MEM/WB drain, and those in    *)
(* IF/ID and ID/EX, with the fetch ahead of them, are forgotten.           *)
(***************************************************************************)
EXTENDS Pipeline

\* EX/MEM still has to go through memoryAccess (between memoryAccess and
\* execute it still holds what has been through).
Draining == IF stage = "EX" THEN NoResults.lane ELSE ex_mem.lane

DrainOutcome(l) == IF IsMemory(Draining[l].instr)
                     THEN Access(Draining[l].result, csr, prv) ELSE "done"

\* A slot that ends the program, and one that will trap in memoryAccess.
Ends(l)   == IsHalting(Draining[l].instr) \/ DrainOutcome(l) = "abort"
Faults(l) == DrainOutcome(l) \in {"misaligned", "page fault"}

\* memoryAccess and writeBack will complete the slots before these.
WrittenBackHalts == running /\ \E l \in Lanes : IsHalting(mem_wb[l].instr)
Completes(l) ==
  /\ running /\ ~WrittenBackHalts
  /\ \A k \in Lanes : k <= l => ~Ends(k) /\ ~Faults(k)

\* A fault or the end of the program is reached by draining lane l.
Drains(l) == running /\ ~WrittenBackHalts /\ \A k \in Lanes : k < l => Completes(k)

ArchStop == \/ ~running
            \/ WrittenBackHalts
            \/ \E l \in Lanes : Drains(l) /\ Ends(l)

\* MEM/WB: the slots before a halting instruction are written back.
DrainedMemWb ==
  IF ~running THEN regs
  ELSE LET r0 == SetReg(regs, mem_wb[0])
       IN  IF IsHalting(mem_wb[0].instr) THEN r0 ELSE SetReg(r0, mem_wb[1])

DrainLane(file, l) ==
  IF Completes(l) THEN SetReg(file, Loaded(mem, Draining[l])) ELSE file

ArchRegs == DrainLane(DrainLane(DrainedMemWb, 0), 1)

StoreLane(m, l) == IF Completes(l) THEN Stored(m, Draining[l]) ELSE m
ArchMem == StoreLane(StoreLane(mem, 0), 1)

\* The oldest instruction that has not been executed.
NextPc ==
  CASE stage # "ID" /\ Valid(id_ex.lane[0]) -> id_ex.pc
    [] ~(stage # "ID" /\ Valid(id_ex.lane[0])) /\ Valid(if_id.lane[0]) -> if_id.pc
    [] OTHER -> pc

\* With a pending fault, the trap is next.
ArchContext ==
  IF \E l \in Lanes : Drains(l) /\ Faults(l)
    THEN LET l == CHOOSE l \in Lanes : Drains(l) /\ Faults(l)
         IN  HandleTrap(Context, ex_mem.pc + l,
                        AccessCause(Draining[l].instr, DrainOutcome(l)),
                        Draining[l].result)
    ELSE [Context EXCEPT !.pc = NextPc]

\* When the program has ended, only registers and memory are left.
Ended == [csr |-> ZeroCsr, prv |-> PRV_M, pc |-> 0]

Arch == LET c == IF ArchStop THEN Ended ELSE ArchContext
        IN  [pc |-> c.pc, csr |-> c.csr, prv |-> c.prv, stop |-> ArchStop,
             regs |-> ArchRegs, mem |-> ArchMem]

Sequential == INSTANCE Isa WITH arch <- Arch

\* Whatever the pairing, stalling, forwarding, prediction and squashing: each
\* step of the pipeline is one instruction of the program, or two, executed in
\* order on the architectural state, or changes nothing a program can see.
ExecutesSequentially == Sequential!Spec

\* What the code does not keep, as conditions under which it makes no
\* difference.  An interrupt saves the fetch pc: the pc of the next instruction
\* is right.  It also changes the privilege of the accesses in EX/MEM.
InterruptIsPrecise ==
  stage = "INT" /\ running =>
    \A level \in TimerLevels :
      LET t == Ticked(level)
          c == TakeInterrupt(t)
      IN  InterruptDue(t) =>
            /\ IF PreciseInterrupts THEN pc = NextPc ELSE pc \in 0 .. CodeSize
            /\ \A l \in Lanes :
                 /\ ~Faults(l)
                 /\ IsMemory(Draining[l].instr) =>
                      Access(Draining[l].result, c.csr, c.prv) = DrainOutcome(l)

\* A load that traps writes its address to its register.
WritesReg(i) == RegWrite(i) /\ i.rd # 0
FaultWritesNothing ==
  stage = "MEM" =>
    \A l \in Lanes : Reached(l) /\ Faults(l) => ~WritesReg(ex_mem.lane[l].instr)

\* A trap of slot 1 discards slot 0.
TrapsAlone == stage = "EX" => ~TrapsInLane(1)

\* A fetch fault discards what is in ID/EX and EX/MEM.
FetchFaultsAlone ==
  FetchReady /\ (PairInMemory \/ LastInMemory) /\ Faulting =>
    /\ ~Valid(id_ex.lane[0])
    /\ \A l \in Lanes : ~Valid(ex_mem.lane[l].instr)

\* With nothing fetched behind it, what is in ID/EX is executed again.  (That is
\* of no consequence once the machine has stopped.)
NothingRunsTwice ==
  stage = "ID" /\ Valid(id_ex.lane[0]) /\ ~ArchStop => Valid(if_id.lane[0])

\* Instructions were fetched with an older satp, or put there by a fault on the
\* last word of memory.
FetchIsCurrent ==
  stage = "EX" =>
    \A l \in Lanes :
      Valid(id_ex.lane[l]) =>
        LET a == id_ex.pc + l
        IN  /\ ~FetchFaults(a, csr, prv)
            /\ id_ex.lane[l] = ZeroWord => a \in CodeAddrs /\ IsHalting(code[a])

\* What follows an EBREAK into the write-back and memory stage takes effect.
NothingBehindHalt ==
  /\ stage = "WB" /\ IsHalting(mem_wb[0].instr) => ~WritesReg(mem_wb[1].instr)
  /\ stage = "MEM" =>
       \A l \in Lanes :
         IsStore(ex_mem.lane[l].instr) =>
           running /\ \A k \in Lanes : k < l => ~IsHalting(ex_mem.lane[k].instr)

Precise == /\ InterruptIsPrecise /\ FaultWritesNothing /\ TrapsAlone /\ FetchFaultsAlone
           /\ NothingRunsTwice /\ FetchIsCurrent /\ NothingBehindHalt

\* These are all: a step from any other state of any program is sequential, also
\* after steps that were not.
SequentialWhenPrecise == [][Precise => Sequential!Next]_<<Arch, code>>

-----------------------------------------------------------------------------
(* Programs for which the refinement needs fewer conditions on the run, or *)
(* none: what the last theorems of RefinementProofs are about.             *)

\* Instructions that change neither registers, CSRs nor memory, and go nowhere
\* but on or to a fixed target.
Passive(i) == /\ ~WritesReg(i) /\ ~IsMemory(i) /\ ~IsTrapping(i)
              /\ i.op \notin {"jalr", "csr"}

\* Where a program is, and what follows its ends: text has whatever is fetched
\* before an EBREAK or all-zero word is executed, dead what is fetched from
\* there on, up to the end of memory or a loop.  An instruction that traps has
\* an issue slot pair for itself.  mip and sip are not written.
LaidOut(p, text, dead) ==
  /\ (text \cup dead) \cap UnmappedCode = {}
  /\ \A a \in text :
       /\ IsHalting(p[a]) => {a, a + 1} \subseteq dead
       /\ p[a].op # "jal" /\ ~IsHalting(p[a]) => a + 1 \in text
       /\ p[a].op \in {"branch", "jal"} => a + p[a].imm \in text
       /\ p[a].op = "csr" => p[a].csr \notin {"mip", "sip"}
       /\ a + 1 \in CodeAddrs /\ IsTrapping(p[a + 1]) =>
            a % PageInstrs = PageInstrs - 1 \/ ~CanIssueTogether(p[a], p[a + 1])
  /\ \A a \in dead :
       /\ Passive(p[a])
       /\ p[a].op # "jal" => a + 1 \in dead \cup {CodeSize}
       /\ p[a].op \in {"branch", "jal"} => a + p[a].imm \in dead

\* No interrupt, and each program has such a layout.
Disciplined(text, dead) ==
  /\ text \in [Programs -> SUBSET CodeAddrs] /\ dead \in [Programs -> SUBSET CodeAddrs]
  /\ TimerLevels = {FALSE}
  /\ \A c \in Contexts : c.csr.mip = {}
  /\ \A p \in Programs : LaidOut(p, text[p], dead[p]) /\ \A c \in Contexts : c.pc \in text[p]

\* The places a jump through a register, a trap or a return may lead to: the
\* text, the outside of memory, or a page that faults at once.
Leads(target, text) == target \in text \/ target \notin CodeAddrs
OnCourse(text) ==
  LET i == code[Arch.pc]
  IN  \/ Arch.stop
      \/ /\ \/ Leads(Arch.pc, text)
            \/ FetchFaults(Arch.pc, Arch.csr, Arch.prv) /\ Arch.pc # CodeSize - 1
         /\ Arch.pc \in CodeAddrs /\ i.op = "jalr" =>
              Leads(JumpTarget(i, Arch.pc, Arch.regs[i.rs1]), text)

\* No timer, no address that faults, and no instruction that traps, returns or
\* writes a CSR.
Untroubled ==
  /\ TimerLevels = {FALSE} /\ Misaligned = {}
  /\ \A c \in Contexts : c.csr.mip = {} /\ c.csr.satp = 0
  /\ \A p \in Programs : \A a \in CodeAddrs : ~IsTrapping(p[a]) /\ p[a].op # "csr"

\* Such as programs with nothing but zeros, or NOPs and a jump to itself, behind
\* every EBREAK.  A jump through a register may lead to any word.
WellBehaved(text, dead) ==
  /\ Untroubled /\ Disciplined(text, dead)
  /\ \A p \in Programs : \A a \in text[p] :
       p[a].op = "jalr" => Word \cap CodeAddrs \subseteq text[p]

-----------------------------------------------------------------------------
(* Liveness, and what the code's documents say of single handlers          *)

\* The core is never wedged: as long as it runs it keeps issuing instructions
\* out of IF/ID.  Stalls, held fetches, flushes and bubbles always give way.
Issues == IssuePredicted \/ IssuePair \/ IssueSingle
KeepsExecuting == (<>Terminated) \/ ([]<><<Issues>>_vars)

\* An EBREAK or all-zero word that was executed does end the run, however the
\* pipeline is stalled or redirected behind it.
StopsEventually == ArchStop ~> Terminated

\* An interrupt saves the address of the interrupted instruction, the oldest
\* one that has not been executed.
SavedPc == IF prv = PRV_M THEN csr.mepc ELSE csr.sepc
InterruptSavesNextPc ==
  [][(\E level \in TimerLevels : InterruptEntry(level)) => SavedPc' = NextPc]_vars

\* A load that traps writes no register: the write-back of the instruction is
\* cancelled together with it.
FaultWritesNoRegister ==
  [][(\E l \in Lanes : MemoryTrap(l)) => ArchRegs' = ArchRegs]_vars

\* A trap raised by slot 1 lets the older instruction in slot 0 complete.
OlderSlotCompletes ==
  [][ExecuteTrap(1) => ArchRegs' = SetReg(ArchRegs, Executed0)]_vars

\* A fetch page fault lets the older instructions in EX/MEM complete.
FetchTrapKeepsOlder ==
  [][FetchTrap => ArchRegs' = ArchRegs /\ ArchMem' = ArchMem]_vars
=============================================================================
