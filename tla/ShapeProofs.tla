----------------------------- MODULE ShapeProofs -----------------------------
(***************************************************************************)
(* The shape of the latches: an older instruction is never missing from a  *)
(* pair, and a pair is one that may be issued together.  Both hold of      *)
(* every latch, at every point of a tick, for every size of the machine,   *)
(* every program, every boot context and every timer.                      *)
(*                                                                         *)
(* The inductive invariant is Shape: the two properties, the types, and    *)
(* that instruction memory holds a program (so that no fetched instruction *)
(* is a bubble).                                                           *)
(***************************************************************************)
EXTENDS PipelineProofs

Shape == TypeOK /\ code \in Programs /\ LanesInOrder /\ PairsAllowed

\* A pair of slots that is in order and may share a tick.
WellPaired(lane) == InOrder(lane) /\ MayPair(lane)

-----------------------------------------------------------------------------
(* Pairs of slots                                                          *)

\* Bubbles are not valid, and a slot that is not valid is of no kind.
LEMMA BubbleInvalid == ~Valid(Bubble) /\ Empty.instr = Bubble
  BY DEF Valid, Bubble, Empty, Done

\* An instruction alone.
LEMMA Alone ==
  ASSUME NEW lane, ~Valid(lane[1])
  PROVE  WellPaired(lane)
  BY DEF WellPaired, InOrder, MayPair

\* The same pair in another latch.
LEMMA SamePair ==
  ASSUME NEW a, NEW b, a[0] = b[0], a[1] = b[1], WellPaired(a)
  PROVE  WellPaired(b)
  BY DEF WellPaired, InOrder, MayPair

\* A pair the issue unit lets through.
LEMMA IssuedPair ==
  ASSUME NEW lane, Valid(lane[0]), CanIssueTogether(lane[0], lane[1])
  PROVE  WellPaired(lane)
  BY DEF WellPaired, InOrder, MayPair, CanIssueTogether

\* What Shape says of each latch.
LEMMA ShapeLatches ==
  ASSUME TypeOK, code \in Programs
  PROVE  Shape <=> /\ InOrder(if_id.lane) /\ WellPaired(id_ex.lane)
                   /\ WellPaired(Instrs(ex_mem.lane)) /\ WellPaired(Instrs(mem_wb))
  BY DEF Shape, LanesInOrder, PairsAllowed, WellPaired

\* Empty latches.
LEMMA EmptyShape ==
  /\ InOrder(NoFetch.lane) /\ WellPaired(NoFetch.lane)
  /\ WellPaired(Instrs(NoResults.lane))
<1>1. NoFetch.lane[1] = Bubble /\ Instrs(NoResults.lane)[1] = Bubble
  BY BubbleInvalid DEF NoFetch, Fetched, NoResults, Instrs, Lanes
<1> QED BY <1>1, BubbleInvalid, Alone DEF WellPaired

\* Invalidated and refilled latches.
LEMMA FetchedShape ==
  /\ \A a, i : WellPaired(Fetched(a, i, Bubble).lane)
  /\ \A a, i, j : Valid(i) => InOrder(Fetched(a, i, j).lane)
  /\ \A latch \in FetchLatch : WellPaired(Cleared(latch).lane)
<1>1. ASSUME NEW a, NEW i
      PROVE  WellPaired(Fetched(a, i, Bubble).lane)
  <2>1. Fetched(a, i, Bubble).lane[1] = Bubble
    BY DEF Fetched, Lanes
  <2> QED BY <2>1, BubbleInvalid, Alone
<1>2. ASSUME NEW a, NEW i, NEW j, Valid(i)
      PROVE  InOrder(Fetched(a, i, j).lane)
  BY <1>2 DEF InOrder, Fetched, Lanes
<1>3. ASSUME NEW latch \in FetchLatch
      PROVE  WellPaired(Cleared(latch).lane)
  <2>1. Cleared(latch).lane[1] = Bubble
    BY DEF Cleared, FetchLatch, Lanes
  <2> QED BY <2>1, BubbleInvalid, Alone
<1> QED BY <1>1, <1>2, <1>3

\* The execute stage moves the instructions of ID/EX to EX/MEM.
LEMMA ExecutedInstr ==
  /\ WellPaired(id_ex.lane) => WellPaired(Instrs(NextExMem.lane))
  /\ TypeOK => WellPaired(Instrs([NextExMem EXCEPT !.lane[1] = Empty].lane))
<1> DEFINE Moved(i) == IF Valid(i) THEN i ELSE Bubble
<1>1. ASSUME NEW lane \in Lanes, NEW exm
      PROVE  Executed(lane, exm).instr = Moved(id_ex.lane[lane])
  BY BubbleInvalid DEF Executed, Done
<1>2. \A l \in Lanes : Instrs(NextExMem.lane)[l] = Moved(id_ex.lane[l])
  BY <1>1 DEF Instrs, NextExMem, Executed0, Executed1, Lanes
<1>3. WellPaired(id_ex.lane) => WellPaired(Instrs(NextExMem.lane))
  <2> SUFFICES ASSUME WellPaired(id_ex.lane) PROVE WellPaired(Instrs(NextExMem.lane))
    OBVIOUS
  <2>1. CASE ~Valid(id_ex.lane[1])
    <3>1. ~Valid(Instrs(NextExMem.lane)[1])
      BY <1>2, <2>1, BubbleInvalid DEF Lanes
    <3> QED BY <3>1, Alone
  <2>2. CASE Valid(id_ex.lane[1])
    <3>1. Valid(id_ex.lane[0])
      BY <2>2 DEF WellPaired, InOrder
    <3>2. /\ Instrs(NextExMem.lane)[0] = id_ex.lane[0]
          /\ Instrs(NextExMem.lane)[1] = id_ex.lane[1]
      BY <1>2, <2>2, <3>1 DEF Lanes
    <3> QED BY <3>2, SamePair
  <2> QED BY <2>1, <2>2
<1>4. TypeOK => WellPaired(Instrs([NextExMem EXCEPT !.lane[1] = Empty].lane))
  <2> SUFFICES ASSUME TypeOK PROVE WellPaired(Instrs([NextExMem EXCEPT !.lane[1] = Empty].lane))
    OBVIOUS
  <2>1. NextExMem \in ResultLatch
    BY NextExMemType
  <2>2. Instrs([NextExMem EXCEPT !.lane[1] = Empty].lane)[1] = Bubble
    BY <2>1, BubbleInvalid DEF ResultLatch, Instrs, Lanes
  <2> QED BY <2>2, BubbleInvalid, Alone
<1> QED BY <1>3, <1>4

\* memoryAccess does not change what instruction a slot holds.
LEMMA LoadedInstr ==
  ASSUME NEW m, NEW s \in Slots
  PROVE  Loaded(m, s).instr = s.instr
  BY DEF Loaded, Slots

-----------------------------------------------------------------------------
(* Each handler keeps the shape.  ShapeLatches' is what is left to show.   *)

\* The latches and instruction memory after a step.
Kept == /\ InOrder(if_id.lane)' /\ WellPaired(id_ex.lane)'
        /\ WellPaired(Instrs(ex_mem.lane))' /\ WellPaired(Instrs(mem_wb))'

\* The state after reset.
LEMMA InitShape ==
  ASSUME Init
  PROVE  Shape
<1>1. TypeOK /\ code \in Programs
  BY InitType DEF Init
<1>2. /\ if_id = NoFetch /\ id_ex = NoFetch /\ ex_mem = NoResults
      /\ mem_wb = NoResults.lane
  BY DEF Init
<1> QED BY <1>1, <1>2, EmptyShape, ShapeLatches

\* A trap, an interrupt or a redirection empties the younger latches.
LEMMA FlushShape ==
  ASSUME Flush
  PROVE  InOrder(if_id.lane)' /\ WellPaired(id_ex.lane)'
  BY EmptyShape DEF Flush

\* The interrupt check and write-back.
LEMMA CheckShape ==
  ASSUME Shape, InterruptCheck \/ WriteBack
  PROVE  Kept
<1>1. /\ InOrder(if_id.lane) /\ WellPaired(id_ex.lane)
      /\ WellPaired(Instrs(ex_mem.lane)) /\ WellPaired(Instrs(mem_wb))
  BY ShapeLatches DEF Shape
<1>2. CASE WriteBack
  BY <1>1, <1>2 DEF WriteBack, Kept, latches
<1>3. CASE InterruptCheck
  <2>1. PICK level \in TimerLevels : NoInterrupt(level) \/ InterruptEntry(level)
    BY <1>3 DEF InterruptCheck
  <2>2. CASE NoInterrupt(level)
    BY <1>1, <2>2 DEF NoInterrupt, Kept, latches
  <2>3. CASE InterruptEntry(level)
    BY <1>1, <2>3, FlushShape DEF InterruptEntry, Kept
  <2> QED BY <2>1, <2>2, <2>3
<1> QED BY <1>2, <1>3

\* The memory stage: a trap keeps the slots up to the one at fault.
LEMMA MemoryShape ==
  ASSUME Shape, Memory
  PROVE  Kept
<1>1. /\ TypeOK /\ InOrder(if_id.lane) /\ WellPaired(id_ex.lane)
      /\ WellPaired(Instrs(ex_mem.lane)) /\ WellPaired(Instrs(mem_wb))
  BY ShapeLatches DEF Shape
<1>2. /\ Instrs(ex_mem.lane)[0] = ex_mem.lane[0].instr
      /\ Instrs(ex_mem.lane)[1] = ex_mem.lane[1].instr
      /\ ex_mem.lane[0] \in Slots /\ ex_mem.lane[1] \in Slots
  BY <1>1 DEF Instrs, Lanes, TypeOK, ResultLatch
<1>3. CASE MemoryAccess
  <2>1. /\ Instrs(mem_wb')[0] = ex_mem.lane[0].instr
        /\ Instrs(mem_wb')[1] = ex_mem.lane[1].instr
    BY <1>2, <1>3, LoadedInstr DEF MemoryAccess, Instrs, Lanes
  <2>2. WellPaired(Instrs(mem_wb'))
    BY <1>1, <1>2, <2>1, SamePair
  <2> QED BY <1>1, <1>3, <2>2 DEF MemoryAccess, Kept
<1>4. ASSUME NEW l \in Lanes, MemoryTrap(l)
      PROVE  Kept
  <2>1. InOrder(if_id.lane)' /\ WellPaired(id_ex.lane)' /\ WellPaired(Instrs(ex_mem.lane))'
    BY <1>4, FlushShape, EmptyShape DEF MemoryTrap
  <2> DEFINE Left(k) == CASE k < l -> Loaded(mem, ex_mem.lane[k])
                          [] k = l -> ex_mem.lane[k]
                          [] OTHER -> Empty
  <2>2. mem_wb' = [k \in Lanes |-> Left(k)]
    BY <1>4 DEF MemoryTrap
  <2> HIDE DEF Left
  <2>3. mem_wb'[0] = Left(0) /\ mem_wb'[1] = Left(1)
    BY <2>2 DEF Lanes
  <2>4. CASE l = 0
    <3>1. mem_wb'[1] = Empty
      BY <2>3, <2>4 DEF Left
    <3>2. Instrs(mem_wb')[1] = Bubble
      BY <3>1, BubbleInvalid DEF Instrs, Lanes
    <3>3. WellPaired(Instrs(mem_wb'))
      BY <3>2, BubbleInvalid, Alone
    <3> QED BY <2>1, <3>3 DEF Kept
  <2>5. CASE l = 1
    <3>1. mem_wb'[0] = Loaded(mem, ex_mem.lane[0]) /\ mem_wb'[1] = ex_mem.lane[1]
      BY <2>3, <2>5 DEF Left
    <3>2. /\ Instrs(mem_wb')[0] = ex_mem.lane[0].instr
          /\ Instrs(mem_wb')[1] = ex_mem.lane[1].instr
      BY <1>2, <3>1, LoadedInstr DEF Instrs, Lanes
    <3>3. WellPaired(Instrs(mem_wb'))
      BY <1>1, <1>2, <3>2, SamePair
    <3> QED BY <2>1, <3>3 DEF Kept
  <2> QED BY <2>4, <2>5 DEF Lanes
<1>5. ASSUME NEW l \in Lanes, MemoryAbort(l)
      PROVE  Kept
  BY <1>1, <1>5 DEF MemoryAbort, Kept, latches
<1> QED BY <1>3, <1>4, <1>5 DEF Memory

\* The execute stage.
LEMMA ExecutionShape ==
  ASSUME Shape, Execution
  PROVE  Kept
<1>1. /\ TypeOK /\ InOrder(if_id.lane) /\ WellPaired(id_ex.lane)
      /\ WellPaired(Instrs(ex_mem.lane)) /\ WellPaired(Instrs(mem_wb))
  BY ShapeLatches DEF Shape
<1>2. /\ WellPaired(Instrs(NextExMem.lane))
      /\ WellPaired(Instrs([NextExMem EXCEPT !.lane[1] = Empty].lane))
  BY <1>1, ExecutedInstr
<1>3. CASE Execute
  BY <1>1, <1>2, <1>3 DEF Execute, Kept
<1>4. CASE ExecuteBranch
  <2>1. InOrder(if_id.lane)' /\ WellPaired(id_ex.lane)'
    BY <1>1, <1>4, FlushShape DEF ExecuteBranch
  <2> QED BY <1>1, <1>2, <1>4, <2>1 DEF ExecuteBranch, Kept
<1>5. ASSUME NEW l \in Lanes, ExecuteTrap(l)
      PROVE  Kept
  BY <1>1, <1>5, FlushShape, EmptyShape DEF ExecuteTrap, Kept
<1> QED BY <1>3, <1>4, <1>5 DEF Execution

\* The issue unit: only IssuePair issues two instructions.
LEMMA IssueShape ==
  ASSUME Shape, Issue
  PROVE  Kept
<1>1. /\ TypeOK /\ InOrder(if_id.lane) /\ WellPaired(id_ex.lane)
      /\ WellPaired(Instrs(ex_mem.lane)) /\ WellPaired(Instrs(mem_wb))
  BY ShapeLatches DEF Shape
<1>2. /\ WellPaired(Cleared(if_id).lane) /\ WellPaired(Cleared(id_ex).lane)
      /\ WellPaired(SecondMovesUp.lane)
      /\ WellPaired(Fetched(if_id.pc, if_id.lane[0], Bubble).lane)
  BY <1>1, FetchedShape DEF TypeOK, SecondMovesUp
<1>3. CASE DecodeNothing
  BY <1>1, <1>3 DEF DecodeNothing, Kept, latches
<1>4. CASE DecodeStall
  BY <1>1, <1>2, <1>4 DEF DecodeStall, Kept
<1>5. CASE IssuePredicted
  BY <1>1, <1>2, <1>5 DEF IssuePredicted, Kept, WellPaired
<1>6. CASE IssuePair
  <2>1. WellPaired(if_id.lane)
    BY <1>6, IssuedPair DEF IssuePair, DecodeReady
  <2> QED BY <1>1, <1>2, <1>6, <2>1 DEF IssuePair, Kept, WellPaired
<1>7. CASE IssueSingle
  BY <1>1, <1>2, <1>7 DEF IssueSingle, Kept, WellPaired
<1> QED BY <1>3, <1>4, <1>5, <1>6, <1>7 DEF Issue

\* Fetch: an instruction of the program is never a bubble.
LEMMA FetchShape ==
  ASSUME Shape, Fetch
  PROVE  Kept
<1>1. /\ TypeOK /\ InOrder(if_id.lane) /\ WellPaired(id_ex.lane)
      /\ WellPaired(Instrs(ex_mem.lane)) /\ WellPaired(Instrs(mem_wb))
  BY ShapeLatches DEF Shape
<1>2. \A a \in CodeAddrs : Valid(code[a])
  BY ProgramType DEF Shape
<1>3. CASE FetchHeld
  BY <1>1, <1>3 DEF FetchHeld, Kept, latches
<1>4. CASE FetchPair
  <2>1. InOrder(if_id.lane)'
    BY <1>1, <1>2, <1>4, CodeType, FetchedShape DEF FetchPair
  <2> QED BY <1>1, <1>4, <2>1 DEF FetchPair, Kept
<1>5. CASE FetchSingle
  <2>1. InOrder(if_id.lane)'
    BY <1>5, FetchedShape DEF FetchSingle, WellPaired
  <2> QED BY <1>1, <1>5, <2>1 DEF FetchSingle, Kept
<1>6. CASE FetchTrap
  BY <1>1, <1>6, FlushShape, EmptyShape DEF FetchTrap, Kept
<1>7. CASE FetchTrapLast
  <2>1. InOrder(if_id.lane)'
    BY <1>7, FetchedShape DEF FetchTrapLast, WellPaired
  <2> QED BY <1>1, <1>7, <2>1, EmptyShape DEF FetchTrapLast, Kept
<1>8. CASE FetchNothing
  BY <1>1, <1>8 DEF FetchNothing, Kept, latches
<1> QED BY <1>3, <1>4, <1>5, <1>6, <1>7, <1>8 DEF Fetch

-----------------------------------------------------------------------------
(* The theorems                                                            *)

\* No handler ever overwrites instruction memory.
LEMMA CodeKept == [Next]_vars => UNCHANGED code
  BY DEF Next, vars, Halted, InterruptCheck, NoInterrupt, InterruptEntry, WriteBack,
         Memory, MemoryAccess, MemoryTrap, MemoryAbort,
         Execution, Execute, ExecuteBranch, ExecuteTrap,
         Issue, DecodeNothing, DecodeStall, IssuePredicted, IssuePair, IssueSingle,
         Fetch, FetchHeld, FetchPair, FetchSingle, FetchTrap, FetchTrapLast, FetchNothing

\* The shape is an invariant.
THEOREM ShapeInvariant == Spec => []Shape
<1>1. Init => Shape
  BY InitShape
<1>2. Shape /\ TypeOK' /\ [Next]_vars => Shape'
  <2> SUFFICES ASSUME Shape, TypeOK', [Next]_vars PROVE Shape'
    OBVIOUS
  <2>1. (code \in Programs)'
    BY CodeKept DEF Shape
  <2>2. Kept
    <3>1. CASE UNCHANGED vars
      BY <3>1, ShapeLatches DEF Kept, Shape, vars, latches
    <3> QED BY <3>1, CheckShape, MemoryShape, ExecutionShape, IssueShape, FetchShape
            DEF Next, Halted
  <2> QED BY <2>1, <2>2 DEF Shape, Kept, LanesInOrder, PairsAllowed, WellPaired
<1> QED BY <1>1, <1>2, PipelineTypeCorrect, PTL DEF Spec

\* In every latch the younger slot is valid only if the older one is: neither
\* stalls, squashes, bubble compression nor traps in the middle of a pair leave
\* a hole, so the case of fetch that would fill one is dead code.
THEOREM AlwaysInOrder == Spec => []LanesInOrder
<1>1. Shape => LanesInOrder
  BY DEF Shape
<1> QED BY <1>1, ShapeInvariant, PTL

\* No two instructions that may not share a tick are ever in one latch
\* together, whichever handler put them there.
THEOREM AlwaysPairable == Spec => []PairsAllowed
<1>1. Shape => PairsAllowed
  BY DEF Shape
<1> QED BY <1>1, ShapeInvariant, PTL
=============================================================================
