# Simple-RV: a TLA+ model of a dual-issue RV32I machine

Simple-RV (`src/`) simulates a five-stage, dual-issue, in-order RV32I core with
Zicsr, three privilege levels, trap delegation, a CLINT timer and an Sv32 MMU.
It is a sequential C++ program that plays the part of a concurrent one: a clock
tick calls the stage handlers from the last to the first, and up to eight
instructions are in flight between them. What can go wrong is what goes wrong in
hardware: hazards, squashes, traps in the middle of a pair, interrupts between
any two ticks. Behind the pipeline there is a memory system with a TLB, a timer
and a keyboard, and `src/Resource` has programs that wait for them.

This directory holds the specification modules, the TLC instances that check
them and the theorems proved about them with TLAPS.

## 1. Inventory

| Component (source) | State | Operations | Talks to |
|---|---|---|---|
| Core (`CPUCore.cpp`) | fetch pc, `running`, counters | `init`, `run`, `tick`; one handler per stage; `checkAndHandleInterrupts`, `handleTrap` | everything, by direct calls |
| Issue unit (`IssueUnit.cpp`) | none | `decodeInstruction`, `decodeAndIssue`, `canIssueTogether` | reads and writes IF/ID and ID/EX; compares with the load in ID/EX |
| Execution engine (`ExecutionEngine.cpp`) | none | `execute`, `executeSlot`, `getOperand`, ALU, branches, CSR instructions | reads ID/EX, EX/MEM, MEM/WB and the register file; fills EX/MEM |
| Pipeline registers (`PipelineRegisters.cpp`, `common.h`) | the four latches, two slots each | `flush`, `reset` | shared by all stages |
| Register file (`RegisterFile.cpp/.h`) | x0..x31, CSRs, privilege | `write_rd`, `read_csr`, `write_csr` with its WARL masks, `hw_set_mtip`, `interrupt_delegated`, `exception_delegated` | core, execution engine |
| Trap logic (in `CPUCore.cpp`) | the CSRs of traps, privilege, pc | trap entry in M- and S-mode, interrupt selection, MRET, SRET | register file; flushes the latches |
| Memory system (`MemorySystem.cpp`) | memory, one-character keyboard buffer | `read`, `read_double_instr`, `write`, `load_program` | called by fetch and the memory stage; throws when out of bounds |
| CLINT (in `MemorySystem.cpp`) | `mtime`, `mtimecmp` | increment once a tick, comparison, writes in two halves | sets MTIP once a tick |
| MMU (in `MemorySystem.cpp`) | TLB of 8 entries, replacement index | page walk, lookup, insert, flush | called before fetch, load and store outside M-mode |
| `SystemConfig.h`, `main.cpp` | reset values | command line, exception report | core |
| Snake program (`Resource/CProgram/main.c`) | ring of keys, last key pushed, `timer_ticks`, the game | `push_key`, `pop_key`, `delay`, `timer_isr`, `draw`, `logic` | UART and CLINT through their addresses; interrupted by the timer |

What each of them has to get right, and what makes that hard:

- **Pipeline and execution.** A program must see one instruction after the other
  although two are issued at a time, results are forwarded from three places,
  loads have theirs a stage later, and branches are predicted. Whatever is
  squashed must be exactly what is younger; whatever stalls must go on; a latch
  never has a hole.
- **Traps in the pipeline.** Five handlers can raise a trap, from either slot, in
  the middle of a tick, and all share one `handleTrap` that empties latches. The
  older instructions must complete, the younger must leave no trace, and the
  saved pc must be the right one of two.
- **Interrupts.** They arrive between any two ticks.
- **Trap logic.** Three levels share one mstatus, S-mode sees a window of it.
  Every nesting of entry, return, delegation and software writes has to keep the
  privilege encodable, restore what was saved, and stay inside the window.
- **Liveness.** The core must not stall for ever, and must stop after EBREAK.
- **MMU.** Tables change in memory under a TLB that nobody tells; entries carry
  neither the U bit nor an address space nor the size of the page. A grant must be
  no older than the last fence, a hit the same as a walk, and a page in one entry.
- **CLINT.** A 64-bit register written in halves while the clock runs, 0 as
  never. A pending timer must stay pending.
- **UART.** The host is polled by every read, wherever it goes, and one character
  is held. None may be lost, doubled or overtaken.
- **Snake program.** An interrupt handler shares `timer_ticks` with a loop that
  waits for it, and re-arms a timer in two stores; a ring of keys runs around.
  A delay must end, once, and not early.

`PROJECT.json` lists each hazard at its source line with the properties that
cover it.

## 2. Modules

```
Csr                 CSR file: read_csr, write_csr, masks, MTIP, delegation
 └─ Traps           trap entry, interrupt selection, MRET, SRET as functions on
     │              a context [csr, prv, pc]
     ├─ TrapUnit    the trap logic as a state machine         ── MCTrapUnit
     └─ Rv32        decoded instructions, control signals, ALU, memory answers
         ├─ Isa     the sequential machine: the abstract specification
         └─ Pipeline   the five stages, an action per outcome of a handler
             └─ Refinement   Pipeline implements Isa; liveness  ── MCPipeline

Words               32-bit words as numbers modulo WordSize
 ├─ Devices         CLINT and UART as functions on their registers
 └─ Sv32 (and Csr)  page walk and TLB as functions on memory and entries
     └─ MemorySystem   addresses routed to memory, devices, translation
                       (with Devices)                       ── MCMemorySystem
Snake               main.c on Devices and Traps              ── MCSnake
```

`TrapsProofs`, `TrapUnitProofs`, `PipelineProofs`, `ShapeProofs`,
`RefinementProofs`, `DevicesProofs`, `MemorySystemProofs` and `SnakeProofs` hold
the theorems and their lemmas.

**Csr, Traps.** A flag register (mstatus, mie, mip, medeleg, mideleg) is the set
of the positions of its 1 bits, so a C++ mask expression is a set expression and
every mask of the source is a set of the model. A context is what trap entry and
return read and write; `HandleTrap`, `TakeInterrupt`, `Mret` and `Sret` map a
context to a context, and are used by TrapUnit, Pipeline and Isa alike. Note what
they follow from the code and not from the architecture manual: outside M-mode
the interrupt scan sees the S-mode view of mie and mip only; an interrupt taken
outside M-mode goes to S-mode; a delegated interrupt goes to S-mode even from
M-mode.

**TrapUnit.** The same functions driven by software: any order of timer levels,
exceptions, ECALLs, returns and CSR writes.

**Rv32.** An instruction is a record of what `decodeInstruction` extracts. One
operation stands for each class the control logic tells apart (SUB, ADDI, AUIPC,
LW, SW, BNE, JAL, JALR, CSRRW/S/C, ECALL, EBREAK, MRET, SRET, FENCE, an illegal
word, the all-zero word). `Access` says what the memory stage answers an address:
misaligned, page fault, abort (the exception that ends the process), or done, in
the order of the checks.

**Pipeline.** `stage` says which handler of the tick is next; each handler is a
group of actions, one for each way through it:

| Handler | Actions |
|---|---|
| `checkAndHandleInterrupts`, after `hw_set_mtip` | `NoInterrupt`, `InterruptEntry` |
| `writeBack` | `WriteBack` |
| `memoryAccess` | `MemoryAccess`, `MemoryTrap(lane)`, `MemoryAbort(lane)` |
| `execute` | `Execute`, `ExecuteBranch`, `ExecuteTrap(lane)` |
| `decodeAndIssue` | `DecodeNothing`, `DecodeStall`, `IssuePredicted`, `IssuePair`, `IssueSingle` |
| `fetch` | `FetchHeld`, `FetchPair`, `FetchSingle`, `FetchTrap`, `FetchTrapLast`, `FetchNothing` |

`Halted` is the state in which `run` has returned or the process has ended.
`if_id`, `id_ex`, `ex_mem`, `mem_wb` are the latches, a lane per slot. An invalid
slot is the `Bubble`; the code reads nothing of an invalid slot. Signals that the
latches carry and that follow from the instruction are recomputed from it.

**Isa, Refinement.** `Isa` executes one instruction at a time, or two between two
observations, and samples the timer. `Refinement` maps a pipeline state to the
state of Isa: an instruction counts as executed once the execute stage has
handled it. The mapping completes what is in EX/MEM and MEM/WB (`DrainedMemWb`,
`DrainLane`, `StoreLane`; a fault that the memory stage will find is taken at
once) and forgets what is in IF/ID and ID/EX, so the pc is that of the oldest
instruction not yet executed (`NextPc`). `ExecutesSequentially` is then
`Isa!Spec` under that mapping. The code does not keep it in every state:
`Precise` names, part by part, where it does not, and `SequentialWhenPrecise` says
that a step from any other state is a step of `Isa`, also in a run that deviated
before. The parts of `Precise`:

| Part | What it excludes | In the code |
|---|---|---|
| `InterruptIsPrecise` | an interrupt that saves another pc than that of the next instruction (if `PreciseInterrupts`), or changes what an access in EX/MEM answers | `CPUCore.cpp:509`, `511` |
| `FaultWritesNothing` | a load that faults and names a register | `CPUCore.cpp:104` |
| `TrapsAlone` | a trap or return in slot 1 | `CPUCore.cpp:557` |
| `FetchFaultsAlone` | a fetch fault with instructions in ID/EX or EX/MEM | `CPUCore.cpp:392` |
| `NothingRunsTwice` | instructions left in ID/EX when nothing was fetched behind them, unless the program has ended | `IssueUnit.cpp:47` |
| `FetchIsCurrent` | instructions fetched under a translation that would fault now, or put in front of a handler by a fetch fault on the last word | `CPUCore.cpp:186`, `421` |
| `NothingBehindHalt` | a register write in the slot behind an EBREAK, a store right behind its pair | `CPUCore.cpp:70` |


**Devices.** The CLINT registers are pairs of words: `Incremented` is
`increment_timer`, `TimerPending` the comparison, `WithLow` and `WithHigh` the two
writes to mtimecmp. The UART is the character held (`full`, `held`) and what the
host has not handed over yet; `Polled` is `check_host_keyboard`, `DataTaken` a
read of the data register.

**Sv32.** `Leaf` is what the two-level walk finds for a page, `Permits` its
permission checks in all three places they are written in the code, `TlbInsert`,
`TlbHit` and `TlbFlush` the TLB. `Translate` puts them in the order of
`translate`: M-mode and bare addressing first, then the TLB, then the walk, which
also follows an entry that denied the access. It returns the verdict, the
address and the TLB after it.

**MemorySystem.** A state machine that makes the requests the core makes, in any
order: `Tick` (`increment_timer`), `Load`, `Store`, `FetchPair`, `FetchSingle`,
`FetchBeyond` (a frame beyond memory), `Fence` (SFENCE.VMA), `WriteSatp`,
`SwitchPrivilege` (traps and returns), and `Type` (the host). Which addresses,
values and roots they use is the repertoire chosen in Init. `since` is a history
variable: everything the tables have said since the last fence.

**Snake.** A step is one access of the program to a device, or to what the
handler shares, with the computation around it. Ticks fall between steps, and an
interrupt with a tick, through the very `TakeInterrupt` and `Mret` of Traps.

### Abstractions

- pcs count instructions (`pc + 4` is `pc + 1`) and do not wrap around; no
  instance reaches a negative pc. JALR's `& ~1` is left out: a target is always a
  whole instruction. Instructions and data are in separate memories,
  so programs do not modify themselves, and an address is a word address except
  those a constant declares misaligned.
- In Pipeline, outside M-mode and with satp not 0, every page that is not
  declared unmapped is mapped to itself: what translation does is the subject of
  MemorySystem, not of the pipeline.
- A CSR instruction on a flag register has an immediate operand and rd = x0: flag
  sets and words are different sorts. The instances boot with contexts that boot
  code could have set up, so no program needs to build a flag word.
- What the programs put behind an EBREAK has no effect (NOPs and a jump to
  itself): the code lets the other slot of its pair, and a store in EX/MEM, still
  take effect, and no document says whether it should. Once the machine has
  stopped, registers and memory are compared, the CSRs are not.
- ECALL saves the address after it, in Isa too: that is the code's convention.
- Case B of `fetch` (slot 0 empty, slot 1 not) is not an action. `AlwaysInOrder`
  proves that it never applies.
- Cycle and instruction counters, statistics, console output and WFI (a NOP) are
  left out; SFENCE.VMA is an action of MemorySystem only.
- In MemorySystem and Snake a word is one cell: 4 and 8 bytes become 1 and 2, and
  bytes, halfwords and alignment are left out. The bit fields of a page table
  entry are the constant `PteOf`; an entry with any word in it may be written.
  `MapAssumption` keeps the UART registers apart from the CLINT window;
  `TablesAssumption` keeps tables off the last page of the address space, where
  the bounds test of the walk would wrap around.
- An access outside memory that the bounds check lets through, because the sum
  wraps, is undefined in C++: the process ends or goes on, with a value nobody
  looks at.
- Each access of MemorySystem reads satp and the privilege at once with the
  tables, as the calls in the code do. A faulting access changes nothing there;
  the trap that follows is `SwitchPrivilege`.
- In Snake an interrupt returns to the step it preceded (what pc the core saves is
  the subject of `interrupt_precision`), a step takes between 0 and `StepTicks`
  ticks, and the keyboard is polled at the reads the source makes; instruction
  fetches that poll too would only poll more often. Output, the geometry of the
  game and the random numbers are left out: the game may be over after any move.

## 3. Runs

`tlc -config X.cfg M` for each line; `PROJECT.json` names the properties.

| Run (module, config) | Question | Instance |
|---|---|---|
| `trap_unit` (MCTrapUnit, TrapUnit) | do privilege, enables and windows survive every nesting of traps, returns and writes? | two boots in M-mode, one that delegates nothing and one that delegates three interrupts, ECALL from U and load page faults (13), the one fault raised; three pcs; writes of mstatus, sstatus, sie, mip and sip. 566,000 states |
| `hazards` (MCPipeline, PipelineHazards) | does the pipeline implement the sequential machine under every hazard, keep its latches in shape, keep executing and stop? | all programs of three or four instructions out of ten, then EBREAK (in either slot of its pair); 3 registers, words of 8 values; fairness. 550,000 states |
| `traps` (PipelineTraps) | still so with exceptions in both slots and from all stages, ECALL, returns, CSR instructions, aborts, fetch faults in the middle and on the last word of memory? Do programs that avoid the findings stay clear of every deviation? | all programs of three instructions out of fourteen, then fence and an illegal one, with handlers in M and S; five boots (M without, S and U with delegation, and two in front of unmapped code). 980,000 states |
| `deviations` (PipelineDeviations) | apart from the pc it saves, does an interrupt fall between two instructions; where the code leaves the sequential machine, is it only in the ways that `Precise` names, and does it find back? | all programs of two instructions out of eight in front of handlers, and all of two out of twenty-one, chosen to break each part of `Precise`, then stores and ALU instructions and the end of memory; eight boots in three levels, with and without delegation; timer level free at every tick; pages of two instructions, three of them unmapped. 870,000 states |
| `memory_system` (MCMemorySystem, MemorySystem) | are grants no older than the last fence, is no page in the TLB twice, is no key lost, does the timer stay pending, whatever is accessed in whatever order? | sixteen addresses in four pages, tables of two entries, a TLB of two; five repertoires: tables rewritten through themselves, two address spaces, typing, the timer in halves, every address at the bounds. 54,000 states |
| `snake` (MCSnake, Snake) | does every delay end once, in time and not early; is the ring a queue and the filter right? | words of 12 values, a ring of 3, two keys typed up to 4 times, delays of 4 ticks, up to one tick a step, until mtime is past its low word. 1,150,000 states |
| `interrupt_precision`, `load_fault`, `illegal_pair`, `fetch_fault`, `trap_unit_delegation`, `tlb_hit` | six claims of the documents and comments that the code does not keep | as above; each ends in a counterexample |

The properties:

- `ExecutesSequentially` (hazards, traps): each step of the pipeline
  is one instruction of the program, or two, in order, on the architectural
  state, a sampling of the timer, or nothing. It fails when forwarding takes the
  wrong one of two values, a stall loses an instruction or issues one twice, a
  squash takes too much or too little, a fault saves the pc of the wrong slot.
- `SequentialWhenPrecise` (deviations): the same of each step from a state in which
  `Precise` holds, whatever the run has met before. It fails if the mapping, or
  any handler, is wrong after a deviation. Leave out one of the seven parts of
  `Precise` and TLC finds a violation on this instance: all of them are needed.
- `Precise` (traps): programs that avoid the findings never come near a deviation.
  It fails if pairs are fetched or issued otherwise, so that a trap shares one.
- `LanesInOrder`, `PairsAllowed`: no latch has a hole; no latch holds two
  instructions that may not be issued together.
- `KeepsExecuting`, `StopsEventually`: no wedge; EBREAK ends the run.
- `ReturnPrivilegeLegal`, `OnlyImplementedPending`, `TrapReturnRestores`,
  `ExceptionsNeverLowerPrivilege`, `EntryMasksInterrupts`, `SupervisorConfined`:
  the trap logic.
- `GrantedSinceFence`, `OneEntryPerPage`: what the TLB may hold. The first fails
  if a flush left an entry behind, or an entry came from anywhere but a walk. The
  second fails if the search missed an entry or a permission test looked at the
  wrong flag: bugs that may slow a program down and change no answer. (That a fault is never stale needs no property: `translate`
  faults nowhere but in the walk, on what the tables say then.)
- `NoKeyLost`: what was typed is what the program has read, then the character
  held, then what the host still has.
- `TimerStays`: a pending timer vanishes only by a write to mtimecmp or when 64
  bits have run out.
- `RingIsFifo`, `RepeatsFiltered`: the ring of keys against the sequence of the
  keys accepted and not yet used.
- `OneWakeUpPerDelay`, `NoEarlyReturn`, `ReturnsInTime`, `InterruptsOnlyTheWait`:
  the handler, the timer and the loop of `delay` together. They fail if the handler returned with the
  interrupt still pending, if MRET did not re-enable interrupts, if the
  comparison looked at one word only, or if a wake-up fell between the arming of
  the timer and the sampling of `timer_ticks`.
- `TypeOK` in each state machine.

**Bounds.** A dependence in this pipeline spans at most four instructions (a pair
in EX and the pair before it in MEM), so programs of four free instructions meet
every combination of producers and consumers; three registers (x0, and two that
can be written) suffice to tell the newest of several values from the others.
Words of 7 to 22 values are enough for every address of the instance to be a
word; a jump through a register (JALR) can land anywhere in code. Traps need a
position in the pair, an older and a younger neighbour: three free instructions
in front of a tail that traps again. Timer levels are free at every tick, so
bounds on mtime are not needed.

Two entries in the TLB suffice for a stale entry in front of a fresh one and for
replacement to run around; two indices a table for a table, a page, a megapage
and a missing entry; the window inside memory and the UART beyond it are laid out
as in the code. The word of six values encodes each kind of entry. `keys` bounds
the characters typed (one more than fit the register, the UART and a repeat).
In Snake the word is small so that mtime passes the end of its low word within
the run (`Horizon`, in ticks), `MaxKeys` is one more than fill the ring of three,
and `Cycles` exceeds what the four accesses of arming take, as 500,000 does in the
code. Past the end of the low word (`Fits`) the timer properties are no longer
claimed, but for the return of the handler to the program: `now + cycles` wraps
and the deadline is in the past.

**Conditions of the runs.** `ExecutesSequentially` is a claim about programs that
avoid the four findings below, each of which breaks it: the `traps` programs trap
on loads without a destination, put illegal instructions behind an instruction
they cannot pair with, and let fetch faults follow a return only. The findings
have runs of their own, without these conditions, and so has
`SequentialWhenPrecise`; there Isa may save any pc at an interrupt
(`PreciseInterrupts = FALSE`), so that the other effects of an interrupt are
compared also when the pc is the wrong one.

**Deadlock** is checked in every run: a core that has stopped stutters in
`Halted` (`Ended`, `Stopped` in the other modules), so a state without a successor
would be a handler without a way out.

**Fairness.** `FairSpec` adds WF_vars(Next): `run` calls `tick` for as long as
`running` is set, and `tick` calls the handlers one after the other; none of them
waits for anything. The choice of the timer level is not fair.

### Findings

- `interrupt_precision`: an interrupt saves the fetch pc and flushes IF/ID and
  ID/EX; up to four instructions are skipped for good (`CPUCore.cpp:497, 509`).
- `load_fault`: a load that traps writes its address to its destination register
  (`CPUCore.cpp:104`).
- `illegal_pair`: a trap in slot 1 discards the older instruction in slot 0
  (`CPUCore.cpp:557`).
- `fetch_fault`: an instruction page fault discards the older instructions in
  EX/MEM (`CPUCore.cpp:392`).
- `trap_unit_delegation`: a delegated interrupt that arrives in M-mode is handled
  in S-mode, and M-mode is not returned to (`CPUCore.cpp:488`).
- `tlb_hit`: a TLB hit composes the address from the page number in place of the
  offset, so the second access to a page goes to another cell than the first
  (`MemorySystem.cpp:227`); the entry also forgets the U bit.

Seen and without a run: `delay` sets the high word of mtimecmp to 0, so once
mtime nears 2^32 the deadline is in the past as soon as it is written, the
interrupt may come before `timer_ticks` is sampled, and the program then waits for
ever (`main.c:170`). When nothing is fetched, because the pc is past the end of
memory, what is in ID/EX is executed again every tick (`IssueUnit.cpp:47`). A
write to satp leaves the instructions behind it, fetched under the old
translation, to be executed (`CPUCore.cpp:186`). A fetch fault on the last word
puts the zero word, a halt, in front of its handler (`CPUCore.cpp:421`). The slot
behind an EBREAK is written back, and a store behind it performed
(`CPUCore.cpp:70`). No document says anything against these; they are parts of
`Precise`.

## 4. Theorems

For all values of the constants, under the named assumptions of the modules
(`SizesAssumption`, `ProgramsAssumption`, `ContextsAssumption`,
`InitDataAssumption`, `TimerAssumption` in Rv32 and Pipeline; `BootsAssumption`,
`FaultsAssumption`, `WritesAssumption`, `PcsAssumption` in TrapUnit;
`WordSizeAssumption` in Words, `SizesAssumption`, `PteAssumption`,
`WorkloadsAssumption` in Sv32 and MemorySystem, `SnakeAssumption` in Snake):

| Theorem | States |
|---|---|
| `TrapUnitProofs!TypeCorrect` | `[]TypeOK` |
| `TrapUnitProofs!ReturnPrivilegeIsLegal` | `[]ReturnPrivilegeLegal` |
| `TrapUnitProofs!PendingIsImplemented` | `[]OnlyImplementedPending` |
| `TrapUnitProofs!TrapReturn` | `[]TrapReturnRestores` |
| `TrapUnitProofs!ExceptionPrivilege` | `ExceptionsNeverLowerPrivilege` |
| `TrapUnitProofs!EntryMasksAll` | `EntryMasksInterrupts` |
| `TrapUnitProofs!Confinement` | `SupervisorConfined` |
| `PipelineProofs!PipelineTypeCorrect` | `[]TypeOK` |
| `ShapeProofs!AlwaysInOrder` | `[]LanesInOrder` |
| `ShapeProofs!AlwaysPairable` | `[]PairsAllowed` |
| `MemorySystemProofs!TypeCorrect` | `[]TypeOK` |
| `MemorySystemProofs!EveryKeyDelivered` | `[]NoKeyLost` |
| `MemorySystemProofs!NoDoubleEntries` | `[]OneEntryPerPage` |
| `MemorySystemProofs!GrantsSinceFence` | `[]GrantedSinceFence` |
| `MemorySystemProofs!TimerLevel` | `TimerStays` |
| `RefinementProofs!OrderInvariant` | `[](Shape /\ Order)` |
| `RefinementProofs!DeviatesNowhereElse` | `SequentialWhenPrecise` |
| `RefinementProofs!Implements` | `[]Precise` implies `ExecutesSequentially` |
| `RefinementProofs!ImplementsUntroubled` | without timer, traps, faulting addresses and CSR instructions, `[](NothingRunsTwice /\ NothingBehindHalt)` implies `ExecutesSequentially` |
| `RefinementProofs!AlwaysPrecise` | `WellBehaved` programs: `[]Precise`, unconditionally |
| `RefinementProofs!ImplementsWellBehaved` | `WellBehaved` programs: `ExecutesSequentially`, unconditionally |
| `RefinementProofs!DisciplinedIsPrecise` | `Disciplined` programs, with traps and CSR instructions: `[](OnCourse(text[code]) /\ FaultWritesNothing)` implies `[]Precise` |
| `RefinementProofs!ImplementsDisciplined` | the same implies `ExecutesSequentially` |
| `SnakeProofs!TypeCorrect` | `[]TypeOK` |
| `SnakeProofs!WakesOnce` | `[]OneWakeUpPerDelay` |
| `SnakeProofs!OnlyTheWait` | `[]InterruptsOnlyTheWait` |
| `SnakeProofs!InTime` | `[]ReturnsInTime` |
| `SnakeProofs!NeverEarly` | `NoEarlyReturn` |
| `SnakeProofs!RingCorrect` | `[]RingIsFifo` |
| `SnakeProofs!FilterCorrect` | `[]RepeatsFiltered` |

*Trap logic.* The inductive invariant is `IInv`, that is `Legal(Context)`: types,
MPP one of three levels, pending bits among the implemented ones, delegation
within its masks. `TypeOK` alone is not inductive: the privilege after MRET is
the old MPP, so it is legal only if MPP was, and MPP stays legal only because
every level entered from is. There is one lemma for each function of Csr and
Traps (it leads from legal contexts to legal contexts), so that the step is a
case split. The action properties follow from `IInv` and a lemma on the entry.
`TrapReturnRestores` rests on two lemmas that follow the bits of mstatus through
an entry and the matching return. Software is assumed to write mstatus with a
level that exists (`LegalWrite`): the code stores what it is given.

*Pipeline.* `TypeOK` is inductive by itself, given that instruction memory never
changes; it has a lemma per handler, resting on the same context lemmas
(`TrapsProofs`) and on lemmas for operands, results and memory accesses. The
point that is not bookkeeping is the memory stage: an address indexes memory only
after `Access` has answered done. `LanesInOrder` and `PairsAllowed` are proved
together as `Shape`, which adds the types and that instruction memory holds one
of the programs: a fetched pair has no hole because no instruction of a program
is a bubble, ID/EX holds what `CanIssueTogether` let through, and execute, memory
stage and traps move pairs on or empty their younger slot.

*Memory system.* `GrantedSinceFence` speaks of answers, which is not inductive:
`IInv` adds that every valid entry of the TLB is backed by something the tables
have said of its page since the last fence (`Backed`), that what they say now is
among it, and the types. A granted access keeps it because an insertion takes
the leaf that the walk has just found; a store because it adds what the tables
say afterwards; a fence because nothing is left to back. That the search through
the TLB has a first match is a minimum of a set of numbers, taken from the
well-foundedness of finite subsets. `OneEntryPerPage` is kept because a walk
that inserts a page has found rights that the entry in front of it lacks
(`MissMeansChange`); both were said since the fence, as the invariant says.
`NoKeyLost` is inductive with the types: a
poll and a read of the data register move a character from one end of the
concatenation to the other. `TimerStays` rests on one lemma, that a counter that
moves on stays at least what it was at least, or starts again.

*Snake.* `RingIsFifo` and `RepeatsFiltered` are proved together with the types of
the ring: every step leaves the ring alone, pushes or pops. The next slot of the
tail is the head only when `RingSize - 1` keys wait, so `Len(accepted)` decides
full and empty; `SlotAt` never meets the tail, so a push overwrites no key that
waits.

The machine underneath is proved in two steps. `CoreInv` says what the core can
be doing: the only interrupt enabled is the timer's, it is taken only at steps of
the main program and with MIE set, the handler runs in M-mode with MIE clear,
mepc and MPP hold what MRET needs, so the handler never nests and returns to the
step it preceded. `TimerInv` adds `Phase`, which says for each program point what
is in mtimecmp, MTIP, mtime, `timer_ticks` and `delays`: before arming, the timer
is masked or was never set; between the two stores its low word is the deadline
and its high word 0 or still all ones, and the clock has not got there; in the wait, it is armed ahead, or pending with the handler on its way, or counted.
Each step of the program leads from its phase to the next and each tick stays in
one, because a step takes at most `StepTicks` and a delay is longer than the
steps of arming (`SnakeAssumption`). The timer properties are read off the
phase. `Horizon` is assumed to lie before the very last value of the 64-bit
clock: that value reaches even the masked timer, whose interrupt would fall
anywhere.

*Refinement.* `Order` is the invariant the properties do not state. It relates the
latches to the program: IF/ID and ID/EX hold what instruction memory has at their
pc, each goes on where the older one ends in the predicted direction, and the
fetch pc after both; and to each other: MEM/WB has been written back when
the memory stage runs, and what EX/MEM holds besides accesses is in MEM/WB
when the execute stage does, which is why forwarding may look at either. It holds
unconditionally, after deviations too (only the zero word that a fetch fault leaves
is let in), and this is what makes `DeviatesNowhereElse` a theorem about every
reachable state. The proof of the steps:

1. `Same...`: Isa is an instance of its own modules; its copies of the operators
   agree with those the pipeline uses.
2. `ArchIsMachine` rewrites the mapping, which is written with quantifiers over
   lanes and a CHOOSE, as a function (`Machine`) that writes MEM/WB back and takes
   the two slots that drain in turn.
3. `WriteBackKeeps`, `MemoryAccessKeeps`, `MemoryTrapKeeps`, `MemoryAbortKeeps`,
   `IssueKeeps`, `FetchKeeps`: these handlers leave that function unchanged.
4. `Slot0IsComputed`, `Slot1IsComputed`: forwarding and the file with MEM/WB
   written back give each slot the operands of a sequential machine;
   `ExecIsOne`, `ExecEnters`, `ExecFetchFault`: an instruction of Isa is one slot
   drained; together `ExecuteSteps`, `BranchSteps`, `TrapSteps` and
   `FetchTrapSteps` show one or two instructions.
5. `TickedSlot`, `NoInterruptSamples`, `InterruptIsTaken`: sampling the timer
   commutes with what drains, or what drains traps and masks the interrupt.

*Precision.* That leaves the question which programs meet no deviation. The answer
is in three steps, each with weaker hypotheses on the run.

`ImplementsUntroubled` discharges five of the seven parts of `Precise` where
nothing traps: from `Untroubled` follows the invariant `Calm` (nothing pending, no
translation, only program instructions in the latches). The two parts left are
about what follows the ends of a program.

They, and all parts but one with traps, follow from how the program is laid out.
`LaidOut(p, text, dead)` names two sets of addresses, all mapped: `text`, what is
fetched before the program ends, is closed under the successors of its
instructions; `dead`, what is fetched behind an EBREAK or an all-zero word, has
`Passive` instructions only (no effect and no trap) and goes on until it loops or
reaches the end of memory. An instruction that traps must not be the second of a
pair that the issue unit lets through: it stands at the start of a page, or behind
one it does not pair with. `Disciplined` asks this of every program and excludes
interrupts; `OnCourse(text)` asks of the run of the *sequential machine* that what
no layout can show is so: jumps through registers, traps and returns lead to the
text, out of memory, or to a page that faults at once, and not to the last word of
memory if that is unmapped.

The inductive invariant is `Drilled`. `Placed` says where each latch and the fetch
pc are: in `text`, or, once an instruction that ends the program is in flight
ahead of them, in `dead` or at the end of memory. How far that instruction has got
depends on the point of the tick: `Ending`, `Past`, `BeforeIssued`,
`BeforeFetched` and `BeforePc` say what is ahead of MEM/WB, EX/MEM, ID/EX, IF/ID
and fetch. The fetch pc may also be ahead of a JAL that is still to be issued, or
`Astray`: sent out of the text with nothing in flight that its fetch fault would
discard. `TrapsFirst` says that what traps is in slot 0, `PassiveBehind` that only
passive instructions follow an end through EX/MEM and MEM/WB, stage by stage.
There is one lemma for each handler (`...Drilled`; `...Vacates` for those that
trap); two are worth reading. `RunsOut`: ID/EX with nothing behind it is at the
end of memory, so the program has ended, in its slot 0 or before it, and what is
executed again has no effect. `CourseLeads`: the operand of a JALR in the pipeline
is the register of the sequential machine, by the forwarding lemmas, so a
condition on the latter bounds the former.

`Drilled` gives six parts of `Precise`. The seventh, `FaultWritesNothing`, is
about the register a faulting load names at that moment and stays a hypothesis.
`AlwaysPrecise` and `ImplementsWellBehaved` have no hypothesis on the run: where
nothing traps, the only way off course is a JALR, which leads to some word, so
`WellBehaved` asks that every word that is an address is in the text of a program
with one. These are theorems about the text of programs: their data, their
branches and their length do not matter, and programs that end in zeros to the end
of memory are among them. The `hazards` run is an instance of `WellBehaved`, and
the `traps` run of `Disciplined` (the assumptions `HazardsWellBehaved` and
`TrapsDisciplined` of MCPipeline, which TLC evaluates). One of its boots is not on
course: the one with mepc on the unmapped last word of memory, where the code puts
a zero word in front of the handler. There `Precise` holds because that handler
begins with an EBREAK.

*Model-checked only.* The liveness properties `KeepsExecuting` and
`StopsEventually`, which are beyond the prover; and what the theorems have as
hypotheses on a run: that the programs of `traps` write no register from a load
that faults, and, with that last boot, that they stay on course where it matters.
With `PreciseInterrupts = FALSE` the theorems allow any pc to be saved, as the
`deviations` run does. No theorem depends on what the model checker found.

## 5. Plan

Built: the trap logic, the pipeline, the sequential machine, the memory system
with its devices and its translation, the snake program on them, their runs and
the theorems above. Next, in this order:

1. **Theorems**: that interrupts are precise for disciplined programs, apart from the pc
   they save; conditions on a program from which `OnCourse` and `FaultWritesNothing`
   follow. All safety properties of the runs have theorems.
2. **Pipeline, extended**: instructions and data in one memory (FENCE.I as a NOP
   against up to four fetched instructions).

Not modelled and not planned: `main.cpp`, the dump and statistics functions,
`load_program`'s file handling (pure input and output); the individual ALU
operations and bit fields of the decoder (checked best by the assembly tests in
`src/Resource`); bytes, halfwords and their sign extension; the geometry, random
numbers and software arithmetic of the snake game, and the other C and assembly
programs (sequential code without waiting); the build files.
