-------------------------------- MODULE Isa --------------------------------
(***************************************************************************)
(* The machine a program sees: it executes one instruction at a time, in   *)
(* program order, each one completely before the next.  This is what the   *)
(* pipeline promises; Pipeline.tla states the promise as a refinement.     *)
(*                                                                         *)
(* It follows the code in what each instruction does (so ECALL saves the   *)
(* address after it) and leaves out everything about when.                 *)
(***************************************************************************)
EXTENDS Rv32

CONSTANTS
  TimerLevels,        \* what the timer comparison may be at an interrupt check
  PreciseInterrupts   \* whether an interrupt saves the pc of the next
                      \* instruction, or may save any pc of the program

VARIABLES
  code,   \* the program
  arch    \* the architectural state

\* stop: EBREAK or an all-zero word was executed, or an access left memory.
ArchState == [pc : Int, regs : [Reg -> Word], mem : [DataAddrs -> Word],
              csr : CsrFile, prv : SUBSET {0, 1}, stop : BOOLEAN]

\* What is left of a stopped machine is its registers and its memory.
Stopped(s) == [s EXCEPT !.stop = TRUE, !.pc = 0, !.csr = ZeroCsr, !.prv = PRV_M]

Trapped(s, epc, cause, tval) ==
  LET c == HandleTrap([csr |-> s.csr, prv |-> s.prv, pc |-> s.pc], epc, cause, tval)
  IN  [s EXCEPT !.csr = c.csr, !.prv = c.prv, !.pc = c.pc]

Returned(s, c) == [s EXCEPT !.csr = c.csr, !.prv = c.prv, !.pc = c.pc]

SetReg(regs, r, value) == IF r = 0 THEN regs ELSE [regs EXCEPT ![r] = value]

\* Nothing is executed past the end of memory or after the machine stopped.
CanExecute(s) == ~s.stop /\ s.pc \in CodeAddrs

MemoryInstr(s, i) ==
  LET addr    == Wrap(s.regs[i.rs1] + i.imm)
      outcome == Access(addr, s.csr, s.prv)
      next    == [s EXCEPT !.pc = @ + 1]
  IN  CASE outcome = "abort" -> Stopped(s)
        [] outcome \in {"misaligned", "page fault"} ->
             Trapped(s, s.pc, AccessCause(i, outcome), addr)
        [] outcome = "done" /\ IsLoad(i) ->
             [next EXCEPT !.regs = SetReg(@, i.rd, s.mem[addr])]
        [] outcome = "done" /\ IsStore(i) ->
             [next EXCEPT !.mem[addr] = s.regs[i.rs2]]

OtherInstr(s, i) ==
  LET op1 == s.regs[i.rs1]
      op2 == s.regs[i.rs2]
      value == Result(i, s.pc, op1, op2, s.csr)
  IN  [s EXCEPT !.pc   = IF BranchTaken(i, op1, op2) THEN JumpTarget(i, s.pc, op1)
                                                    ELSE @ + 1,
                !.regs = IF RegWrite(i) THEN SetReg(@, i.rd, value) ELSE @,
                !.csr  = CsrAfter(i, op1, @)]

\* The state after the instruction at s.pc.
Exec(s) ==
  IF FetchFaults(s.pc, s.csr, s.prv)
    THEN Trapped(s, s.pc, MCAUSE_INST_PAGE_FAULT, s.pc)
    ELSE LET i == code[s.pc]
             c == [csr |-> s.csr, prv |-> s.prv, pc |-> s.pc]
         IN  CASE IsHalting(i)   -> Stopped(s)
               [] IsMemory(i)    -> MemoryInstr(s, i)
               [] i.op = "mret"  -> Returned(s, Mret(c))
               [] i.op = "sret"  -> Returned(s, Sret(c))
               [] i.op \in {"ecall", "illegal"} ->
                    Trapped(s, TrapPc(i, s.pc), TrapCause(i, s.prv), TrapValue(i))
               [] OTHER          -> OtherInstr(s, i)

-----------------------------------------------------------------------------

ExecOne == /\ CanExecute(arch)
           /\ arch' = Exec(arch)

\* Dual issue: two instructions between two observations.
ExecTwo == /\ CanExecute(arch)
           /\ CanExecute(Exec(arch))
           /\ arch' = Exec(Exec(arch))

\* The timer level is sampled and an interrupt that is due is taken.
Interrupted(s, epc) ==
  Returned(s, TakeInterrupt([csr |-> s.csr, prv |-> s.prv, pc |-> epc]))

SampleTimer ==
  \E level \in TimerLevels :
    LET s == [arch EXCEPT !.csr = HwSetMtip(@, level)]
        due == InterruptDue([csr |-> s.csr, prv |-> s.prv, pc |-> s.pc])
    IN  /\ ~arch.stop
        /\ \/ ~due /\ arch' = s
           \/ /\ due
              /\ \E epc \in IF PreciseInterrupts THEN {s.pc} ELSE 0 .. CodeSize :
                   arch' = Interrupted(s, epc)

Next == (ExecOne \/ ExecTwo \/ SampleTimer) /\ UNCHANGED code

Spec == arch \in ArchState /\ [][Next]_<<arch, code>>
=============================================================================
