---------------------------- MODULE SnakeProofs ----------------------------
(***************************************************************************)
(* Theorems about the snake program, for every size of the ring, set of    *)
(* keys, word size and delay.                                              *)
(*                                                                         *)
(* The queue: every step leaves it alone or is push_key or pop_key, so     *)
(* QueueInv needs nothing of the machine underneath.                       *)
(*                                                                         *)
(* The timer: CoreInv says what the core may be doing at each step of the  *)
(* program, so that only the timer interrupts it, only where MIE is set,   *)
(* and MRET goes back to the step that was interrupted.  Phase then says,  *)
(* for each step, what mtimecmp, timer_ticks and mtime are; OneWakeUp-     *)
(* PerDelay, ReturnsInTime and NoEarlyReturn are read off it.              *)
(***************************************************************************)
EXTENDS Snake, DevicesProofs, TrapsProofs, SequenceTheorems

\* What the queue relies on; NoKey is allowed in it, which pc excludes.
Chars == Key \cup {NoKey}
RingTypes ==
  /\ uart \in Uarts(Key)
  /\ key_queue \in [Slots -> Chars]
  /\ q_head \in Slots /\ q_tail \in Slots
  /\ last_pushed_key \in Chars /\ k \in Chars
  /\ accepted \in Seq(Chars)

QueueInv == RingTypes /\ RingIsFifo /\ RepeatsFiltered

LEMMA PolledType ==
  ASSUME uart \in Uarts(Key)
  PROVE  /\ Polled(uart) \in Uarts(Key)
         /\ DataTaken(Polled(uart)) \in Uarts(Key)
         /\ ReadData(Polled(uart)) \in Chars
<1>1. Polled(uart) \in Uarts(Key)
  BY PolledUart
<1>2. DataTaken(Polled(uart)) \in Uarts(Key)
  BY <1>1, TakenUart
<1>3. Polled(uart).full => Polled(uart).held \in Key
  BY <1>1 DEF Uarts
<1> QED BY <1>1, <1>2, <1>3 DEF ReadData, Chars

LEMMA NextSlotType ==
  ASSUME NEW i \in Slots
  PROVE  NextSlot(i) \in Slots
BY SnakeAssumption DEF Slots, NextSlot

\* The ring starts empty.
LEMMA InitQueueInv ==
  Init => QueueInv
<1> SUFFICES ASSUME Init PROVE QueueInv
  OBVIOUS
<1>1. 0 \in Slots /\ RingSize \in Nat \ {0, 1}
  BY SnakeAssumption DEF Slots
<1>2. NoInput \in Uarts(Key)
  BY DEF NoInput, Uarts
<1>3. RingTypes
  BY <1>1, <1>2 DEF Init, RingTypes, Chars
<1>4. accepted = <<>> /\ Len(accepted) = 0
  BY DEF Init
<1>5. RingIsFifo
  BY <1>1, <1>4 DEF Init, RingIsFifo, SlotAt
<1>6. RepeatsFiltered
  BY <1>4 DEF Init, RepeatsFiltered
<1> QED BY <1>3, <1>5, <1>6 DEF QueueInv

\* A step that does not touch the queue.
LEMMA QueueKept ==
  ASSUME QueueInv, UNCHANGED ring, uart' \in Uarts(Key), k' \in Chars
  PROVE  QueueInv'
<1>1. UNCHANGED <<key_queue, q_head, q_tail, last_pushed_key, accepted>>
  BY DEF ring
<1>2. RingTypes'
  BY <1>1 DEF QueueInv, RingTypes
<1>3. RingIsFifo'
  BY <1>1 DEF QueueInv, RingIsFifo, SlotAt
<1>4. RepeatsFiltered'
  BY <1>1 DEF QueueInv, RepeatsFiltered
<1> QED BY <1>2, <1>3, <1>4 DEF QueueInv

\* push_key accepts k.
LEMMA Pushed ==
  ASSUME QueueInv, uart' \in Uarts(Key), k' = k,
         k # last_pushed_key, ~RingFull(q_tail, q_head),
         key_queue' = [key_queue EXCEPT ![q_tail] = k],
         q_tail' = NextSlot(q_tail), q_head' = q_head,
         last_pushed_key' = k, accepted' = Append(accepted, k)
  PROVE  QueueInv'
<1> DEFINE n == Len(accepted)
<1>1. /\ key_queue \in [Slots -> Chars] /\ q_head \in Slots /\ q_tail \in Slots
      /\ k \in Chars /\ accepted \in Seq(Chars)
      /\ n \in Nat /\ n < RingSize /\ q_tail = SlotAt(n)
      /\ \A i \in 1 .. n : key_queue[SlotAt(i - 1)] = accepted[i]
  BY DEF QueueInv, RingTypes, RingIsFifo
<1>2. /\ accepted' \in Seq(Chars) /\ Len(accepted') = n + 1
      /\ accepted'[n + 1] = k
      /\ \A i \in 1 .. n : accepted'[i] = accepted[i]
  BY <1>1
<1>3. RingTypes'
  BY <1>1, <1>2, NextSlotType DEF QueueInv, RingTypes
<1> HIDE DEF n
<1>4. RingSize \in Nat \ {0, 1} /\ q_head \in 0 .. RingSize - 1
  BY <1>1, SnakeAssumption DEF Slots
<1>5. n + 1 < RingSize /\ q_tail' = SlotAt(n + 1)
  BY <1>1, <1>4 DEF SlotAt, RingFull, NextSlot
<1>6. \A i \in 0 .. n : SlotAt(i) \in Slots /\ (i < n => SlotAt(i) # q_tail)
  BY <1>1, <1>4 DEF SlotAt, Slots
<1>7. \A i \in 1 .. n + 1 : key_queue'[SlotAt(i - 1)] = accepted'[i]
  <2> SUFFICES ASSUME NEW i \in 1 .. n + 1
               PROVE  key_queue'[SlotAt(i - 1)] = accepted'[i]
    OBVIOUS
  <2>1. CASE i = n + 1
    <3>1. SlotAt(i - 1) = q_tail
      BY <1>1, <2>1
    <3> QED BY <1>1, <1>2, <2>1, <3>1
  <2>2. CASE i # n + 1
    <3>1. i \in 1 .. n /\ i - 1 \in 0 .. n /\ i - 1 < n
      BY <1>1, <2>2
    <3>2. SlotAt(i - 1) \in Slots /\ SlotAt(i - 1) # q_tail
      BY <1>6, <3>1
    <3>3. key_queue'[SlotAt(i - 1)] = key_queue[SlotAt(i - 1)]
      BY <1>1, <3>2
    <3> QED BY <1>1, <1>2, <3>1, <3>3
  <2> QED BY <2>1, <2>2
<1>8. RingIsFifo'
  BY <1>1, <1>2, <1>5, <1>7 DEF RingIsFifo, SlotAt
<1>9. RepeatsFiltered'
  <2>1. /\ last_pushed_key = IF accepted = <<>> THEN NoKey ELSE accepted[n]
        /\ \A i \in 1 .. n - 1 : accepted[i] # accepted[i + 1]
    BY DEF QueueInv, RepeatsFiltered, n
  <2>2. accepted' # <<>> /\ last_pushed_key' = accepted'[Len(accepted')]
    BY <1>1, <1>2
  <2>3. ASSUME NEW i \in 1 .. n PROVE accepted'[i] # accepted'[i + 1]
    <3>1. CASE i = n
      <4>1. accepted # <<>>
        BY <1>1, <3>1 DEF n
      <4> QED BY <1>1, <1>2, <2>1, <3>1, <4>1
    <3>2. CASE i # n
      <4>1. i \in 1 .. n - 1 /\ i + 1 \in 1 .. n
        BY <1>1, <3>2
      <4> QED BY <1>2, <2>1, <4>1
    <3> QED BY <3>1, <3>2
  <2> QED BY <1>1, <1>2, <2>2, <2>3 DEF RepeatsFiltered
<1> QED BY <1>3, <1>8, <1>9 DEF QueueInv

\* pop_key takes the oldest.
LEMMA Popped ==
  ASSUME QueueInv, uart' \in Uarts(Key), k' = k, q_head # q_tail,
         q_head' = NextSlot(q_head), q_tail' = q_tail, key_queue' = key_queue,
         last_pushed_key' = LastAfterPop(q_head', q_tail, last_pushed_key),
         accepted' = Tail(accepted)
  PROVE  QueueInv'
<1>0. PICK n \in Nat : n = Len(accepted)
  BY DEF QueueInv, RingTypes
<1>1. /\ key_queue \in [Slots -> Chars] /\ q_head \in Slots /\ q_tail \in Slots
      /\ last_pushed_key \in Chars /\ accepted \in Seq(Chars)
      /\ n = Len(accepted) /\ n < RingSize /\ q_tail = SlotAt(n)
      /\ \A i \in 1 .. n : key_queue[SlotAt(i - 1)] = accepted[i]
  BY <1>0 DEF QueueInv, RingTypes, RingIsFifo
<1>2. RingSize \in Nat \ {0, 1} /\ q_head \in 0 .. RingSize - 1
  BY <1>1, SnakeAssumption DEF Slots
<1>3. n > 0
  BY <1>1, <1>2 DEF SlotAt
<1>4. /\ accepted' \in Seq(Chars) /\ Len(accepted') = n - 1
      /\ \A i \in 1 .. n - 1 : accepted'[i] = accepted[i + 1]
  BY <1>1, <1>3
<1>5. RingTypes'
  BY <1>1, <1>4, NextSlotType DEF QueueInv, RingTypes, LastAfterPop, Chars
<1>6. \A i \in 0 .. n - 1 : SlotAt(i)' = SlotAt(i + 1)
  BY <1>1, <1>2 DEF SlotAt, NextSlot
<1>7. RingIsFifo'
  <2>1. Len(accepted') < RingSize /\ q_tail' = SlotAt(n - 1)'
    <3>1. q_tail' = SlotAt(n - 1)'
      BY <1>1, <1>2, <1>3 DEF SlotAt, NextSlot
    <3> QED BY <1>1, <1>2, <1>4, <3>1
  <2>2. ASSUME NEW i \in 1 .. n - 1
        PROVE  key_queue'[SlotAt(i - 1)'] = accepted'[i]
    <3>1. SlotAt(i - 1)' = SlotAt(i) /\ i + 1 \in 1 .. n
      BY <1>1, <1>6
    <3>2. key_queue[SlotAt(i)] = accepted[i + 1]
      <4>1. key_queue[SlotAt((i + 1) - 1)] = accepted[i + 1]
        BY <1>1, <3>1
      <4> QED BY <4>1
    <3> QED BY <1>4, <3>1, <3>2
  <2> QED BY <1>4, <2>1, <2>2 DEF RingIsFifo
<1>8. RepeatsFiltered'
  <2>1. /\ last_pushed_key = IF accepted = <<>> THEN NoKey ELSE accepted[n]
        /\ \A i \in 1 .. n - 1 : accepted[i] # accepted[i + 1]
    BY <1>1 DEF QueueInv, RepeatsFiltered
  <2>2. q_head' = q_tail <=> n = 1
    BY <1>1, <1>2, <1>3 DEF SlotAt, NextSlot
  <2>3. accepted' = <<>> <=> n = 1
    <3>1. accepted' = <<>> <=> Len(accepted') = 0
      BY <1>4, EmptySeq
    <3> QED BY <1>1, <1>4, <3>1
  <2>4. last_pushed_key' = IF accepted' = <<>> THEN NoKey ELSE accepted'[Len(accepted')]
    <3>1. CASE n = 1
      BY <2>2, <2>3, <3>1 DEF LastAfterPop
    <3>2. CASE n # 1
      <4>1. last_pushed_key' = accepted[n]
        BY <1>1, <1>3, <2>1, <2>2, <3>2 DEF LastAfterPop
      <4>2. accepted'[n - 1] = accepted[n]
        BY <1>1, <1>3, <1>4, <3>2
      <4> QED BY <1>4, <2>3, <3>2, <4>1, <4>2
    <3> QED BY <3>1, <3>2
  <2>5. ASSUME NEW i \in 1 .. n - 2 PROVE accepted'[i] # accepted'[i + 1]
    <3>1. i \in 1 .. n - 1 /\ i + 1 \in 1 .. n - 1
      BY <1>1
    <3> QED BY <1>4, <2>1, <3>1
  <2> QED BY <1>1, <1>4, <2>4, <2>5 DEF RepeatsFiltered
<1> QED BY <1>5, <1>7, <1>8 DEF QueueInv

LEMMA StepQueueInv ==
  QueueInv /\ [Next]_vars => QueueInv'
<1> SUFFICES ASSUME QueueInv, [Next]_vars PROVE QueueInv'
  OBVIOUS
<1>1. uart \in Uarts(Key) /\ k \in Chars
  BY DEF QueueInv, RingTypes
<1>2. ASSUME NEW key \in Key, Type(key) PROVE QueueInv'
  BY <1>1, <1>2, TypedUart, QueueKept DEF Type
<1>3. CASE PushKeyStep
  <2>1. uart' \in Uarts(Key) /\ k' = k
    BY <1>1, <1>3, PolledType DEF PushKeyStep, Polls
  <2>2. CASE k = last_pushed_key \/ RingFull(q_tail, q_head)
    BY <1>1, <1>3, <2>1, <2>2, QueueKept DEF PushKeyStep
  <2>3. CASE ~(k = last_pushed_key \/ RingFull(q_tail, q_head))
    BY <1>3, <2>1, <2>3, Pushed DEF PushKeyStep
  <2> QED BY <2>2, <2>3
<1>4. CASE LogicStep
  <2>1. uart' \in Uarts(Key) /\ k' = k
    BY <1>1, <1>4, PolledType DEF LogicStep, Polls
  <2>2. CASE q_head = q_tail
    BY <1>1, <1>4, <2>1, <2>2, QueueKept DEF LogicStep, PopKey
  <2>3. CASE q_head # q_tail
    BY <1>4, <2>1, <2>3, Popped DEF LogicStep, PopKey
  <2> QED BY <2>2, <2>3
<1>5. CASE GetCharStep
  BY <1>1, <1>5, PolledType, QueueKept DEF GetCharStep
<1>6. CASE DrawStep \/ KbHitStep \/ ReadTimeStep \/ SampleTicksStep \/ SpinStep
             \/ DelayReturns \/ GameOverStep \/ IsrCounts
  <2>1. UNCHANGED ring /\ k' = k /\ uart' = Polled(uart)
    BY <1>6 DEF DrawStep, KbHitStep, ReadTimeStep, SampleTicksStep, SpinStep,
                DelayReturns, GameOverStep, IsrCounts, Polls
  <2> QED BY <1>1, <2>1, PolledType, QueueKept
<1>7. CASE BootStep \/ ArmLowStep \/ ArmHighStep \/ IsrMasksLow \/ IsrMasksHigh
             \/ IsrReturns \/ TickQuiet \/ TickInterrupt \/ UNCHANGED vars
  <2>1. UNCHANGED ring /\ k' = k /\ uart' = uart
    BY <1>7 DEF BootStep, ArmLowStep, ArmHighStep, IsrMasksLow, IsrMasksHigh,
                IsrReturns, TickQuiet, TickInterrupt, Tick, vars, devices
  <2> QED BY <1>1, <2>1, QueueKept
<1> QED BY <1>2, <1>3, <1>4, <1>5, <1>6, <1>7 DEF Next, Program, Stopped

-----------------------------------------------------------------------------
(* The counters as numbers                                                 *)

\* What the handler leaves in mtimecmp: no time before the last.
Masked == [lo |-> Ones, hi |-> Ones]

LEMMA ValueType ==
  ASSUME NEW c \in Counter
  PROVE  /\ Value(c) \in Nat
         /\ c.lo \in 0 .. WordSize - 1 /\ c.hi \in 0 .. WordSize - 1
         /\ WordSize \in Nat \ {0, 1}
<1>1. c.lo \in 0 .. WordSize - 1 /\ c.hi \in 0 .. WordSize - 1 /\ WordSize \in Nat \ {0, 1}
  BY WordSizeAssumption DEF Counter, Word
<1>2. c.hi * WordSize \in Nat
  BY <1>1
<1> QED BY <1>1, <1>2 DEF Value

\* The clock counts, until its last value.
LEMMA ValueIncremented ==
  ASSUME NEW c \in Counter, c # Masked
  PROVE  Value(Incremented(c)) = Value(c) + 1
<1>1. /\ c.lo \in Word /\ c.hi \in Word /\ c.lo \in Int /\ c.hi \in Int
      /\ WordSize \in Int /\ c = [lo |-> c.lo, hi |-> c.hi]
  BY WordSizeAssumption DEF Counter, Word
<1>2. CASE c.lo # Ones
  <2>1. Incremented(c).lo = c.lo + 1 /\ Incremented(c).hi = c.hi
    BY <1>1, <1>2, NextWord DEF Incremented
  <2> QED BY <1>1, <2>1 DEF Value
<1>3. CASE c.lo = Ones
  <2>1. c.hi # Ones
    BY <1>1, <1>3 DEF Masked
  <2>2. Incremented(c).lo = 0 /\ Incremented(c).hi = c.hi + 1
    BY <1>1, <1>3, <2>1, NextWord DEF Incremented
  <2>3. (c.hi + 1) * WordSize = c.hi * WordSize + WordSize
    BY <1>1
  <2> QED BY <1>1, <1>3, <2>2, <2>3 DEF Value, Ones
<1> QED BY <1>2, <1>3

\* Within the first round of the low word the high word is zero.
LEMMA LowValue ==
  ASSUME NEW c \in Counter, Value(c) < WordSize
  PROVE  c.hi = 0 /\ c.lo = Value(c)
<1>1. c.lo \in Nat /\ c.hi \in Nat /\ WordSize \in Nat \ {0, 1}
  BY ValueType
<1>2. c.hi = 0
  <2> SUFFICES ASSUME c.hi >= 1 PROVE FALSE
    BY <1>1
  <2>1. PICK n \in Nat : c.hi = n + 1
    BY <1>1
  <2>2. c.hi * WordSize = n * WordSize + WordSize /\ n * WordSize \in Nat
    BY <1>1, <2>1
  <2> QED BY <1>1, <2>2 DEF Value
<1> QED BY <1>1, <1>2 DEF Value

\* A deadline in the low word is compared as a number.
LEMMA PendingLow ==
  ASSUME NEW c \in Counter, NEW d \in Word, d > 0
  PROVE  TimerPending(c, [lo |-> d, hi |-> 0]) <=> Value(c) >= d
<1>1. c.lo \in Nat /\ c.hi \in Nat /\ d \in Nat /\ d < WordSize /\ WordSize \in Nat
  BY ValueType DEF Word
<1>2. TimerPending(c, [lo |-> d, hi |-> 0]) <=> c.hi > 0 \/ c.lo >= d
  BY <1>1 DEF TimerPending, AtLeast, Zero
<1>3. CASE c.hi = 0
  BY <1>1, <1>2, <1>3 DEF Value
<1>4. CASE c.hi > 0
  <2>1. Value(c) \in Nat /\ ~(Value(c) < WordSize)
    BY <1>4, LowValue, ValueType
  <2> QED BY <1>1, <1>2, <1>4, <2>1
<1> QED BY <1>1, <1>3, <1>4

\* While the deadline is written, over a masked comparison or none, nothing
\* is pending.
LEMMA PendingHalfWritten ==
  ASSUME NEW c \in Counter, NEW d \in Word, NEW h \in {0, Ones}, Value(c) < d
  PROVE  ~TimerPending(c, [lo |-> d, hi |-> h])
<1>1. d \in Nat /\ d < WordSize /\ WordSize \in Nat \ {0, 1}
  BY ValueType DEF Word
<1>2. Value(c) \in Nat /\ c.hi = 0 /\ c.lo = Value(c)
  BY <1>1, LowValue, ValueType
<1> QED BY <1>1, <1>2 DEF TimerPending, AtLeast, Ones

\* Nothing is pending on a comparison with nothing or with the last value.
LEMMA PendingIdle ==
  ASSUME NEW c \in Counter, c # Masked, NEW m \in {Zero, Masked}
  PROVE  ~TimerPending(c, m)
<1>1. /\ c.lo \in 0 .. WordSize - 1 /\ c.hi \in 0 .. WordSize - 1
      /\ WordSize \in Nat \ {0, 1} /\ c = [lo |-> c.lo, hi |-> c.hi]
  BY ValueType DEF Counter
<1>2. c.lo # Ones \/ c.hi # Ones
  BY <1>1 DEF Masked
<1> QED BY <1>1, <1>2 DEF TimerPending, AtLeast, Masked, Ones

\* The run ends before the last value of the clock.
LEMMA BelowHorizon ==
  ASSUME NEW c \in Counter, ~AtLeast(c, Horizon), c # Masked
  PROVE  Incremented(c) # Masked
<1>1. /\ c.lo \in Word /\ c.hi \in Word /\ c.lo \in 0 .. Ones /\ c.hi \in 0 .. Ones
      /\ Horizon.lo \in 0 .. Ones /\ Horizon.hi \in 0 .. Ones /\ Ones \in Nat \ {0}
      /\ Horizon = [lo |-> Horizon.lo, hi |-> Horizon.hi]
      /\ ~(Horizon.lo = Ones /\ Horizon.hi = Ones)
  BY WordSizeAssumption, SnakeAssumption DEF Counter, Word, Ones
<1> SUFFICES ASSUME Incremented(c) = Masked PROVE FALSE
  OBVIOUS
<1>2. Incremented(c).lo = Ones /\ Incremented(c).hi = Ones
  BY DEF Masked
<1>3. CASE c.lo = Ones
  BY <1>1, <1>2, <1>3, NextWord DEF Incremented
<1>4. CASE c.lo # Ones
  <2>1. c.lo + 1 = Ones /\ c.hi = Ones
    BY <1>1, <1>2, <1>4, NextWord DEF Incremented
  <2> QED BY <1>1, <2>1 DEF AtLeast
<1> QED BY <1>3, <1>4

-----------------------------------------------------------------------------
(* The core under the program                                              *)

\* The points at which interrupts are enabled.
Enabled == Draw .. GameOver

\* The program runs in M-mode and delegates nothing.  Interrupts are enabled
\* outside the handler, whose return address is a point of the program.
CoreInv ==
  /\ csr \in CsrFile /\ prv = PRV_M /\ pc \in Main \cup IsrPcs
  /\ csr.mideleg = {}
  /\ pc # Boot => csr.mtvec = Isr
  /\ csr.mie = IF pc <= 1 THEN {} ELSE MIP_MTIP
  /\ pc \in Main => (3 \in csr.mstatus <=> pc \in Enabled)
  /\ pc \in IsrPcs => /\ csr.mepc \in Enabled
                      /\ 3 \notin csr.mstatus
                      /\ {7, 11, 12} \subseteq csr.mstatus

LEMMA Points ==
  /\ Main = 0 .. 13 /\ IsrPcs = 20 .. 23 /\ Enabled = 3 .. 13
  /\ Boot = 0 /\ Draw = 3 /\ KbHit = 4 /\ GetChar = 5 /\ PushKey = 6 /\ Logic = 7
  /\ ReadTime = 8 /\ ArmLow = 9 /\ ArmHigh = 10 /\ SampleTicks = 11 /\ Spin = 12
  /\ GameOver = 13 /\ Isr = 20
BY DEF Main, IsrPcs, Enabled, Boot, Draw, KbHit, GetChar, PushKey, Logic, ReadTime,
       ArmLow, ArmHigh, SampleTicks, Spin, GameOver, Isr

\* The register file with the pending bit of the timer.
LEMMA TimerBit ==
  ASSUME NEW f \in CsrFile, NEW level \in BOOLEAN
  PROVE  LET g == HwSetMtip(f, level)
         IN  /\ g \in CsrFile
             /\ 7 \in g.mip <=> level
             /\ g.mstatus = f.mstatus /\ g.mie = f.mie /\ g.mideleg = f.mideleg
             /\ g.mtvec = f.mtvec /\ g.mepc = f.mepc
<1> DEFINE bits == IF level THEN f.mip \cup MIP_MTIP ELSE f.mip \ MIP_MTIP
<1>1. bits \in Bits /\ (7 \in bits <=> level)
  BY DEF CsrFile, Bits, MIP_MTIP
<1>2. HwSetMtip(f, level) = [f EXCEPT !.mip = bits]
  BY DEF HwSetMtip, CsrFile
<1> HIDE DEF bits
<1> QED BY <1>1, <1>2 DEF CsrFile

\* Only the timer can interrupt, where interrupts are enabled.
LEMMA TimerOnly ==
  ASSUME CoreInv, NEW level \in BOOLEAN,
         NEW c, c = [csr |-> HwSetMtip(csr, level), prv |-> prv, pc |-> pc]
  PROVE  /\ InterruptDue(c) <=> level /\ pc \in Enabled
         /\ InterruptDue(c) => TakeInterrupt(c) = EnterMachine(c, pc, SelectedInterrupt(c))
<1>1. /\ c.csr \in CsrFile /\ c.prv = PRV_M /\ c.pc = pc
      /\ c.csr.mie = csr.mie /\ c.csr.mstatus = csr.mstatus /\ c.csr.mideleg = {}
      /\ 7 \in c.csr.mip <=> level
  BY TimerBit DEF CoreInv
<1>2. 7 \in DOMAIN Priority
  BY DEF Priority
<1>3. PendingInterrupts(c) = c.csr.mie \cap c.csr.mip \cap DOMAIN Priority
  BY <1>1 DEF PendingInterrupts
<1>4. GlobalInterruptEnable(c) <=> 3 \in csr.mstatus
  BY <1>1 DEF GlobalInterruptEnable, MSTATUS_MIE
<1>5. 3 \in csr.mstatus <=> pc \in Enabled
  BY Points DEF CoreInv
<1>6. pc \in Enabled => (PendingInterrupts(c) # {} <=> level)
  <2> SUFFICES ASSUME pc \in Enabled PROVE PendingInterrupts(c) # {} <=> level
    OBVIOUS
  <2>1. csr.mie = {7}
    BY Points DEF CoreInv, MIP_MTIP
  <2> QED BY <1>1, <1>2, <1>3, <2>1
<1>7. InterruptDue(c) <=> level /\ pc \in Enabled
  BY <1>4, <1>5, <1>6 DEF InterruptDue
<1>8. ~InterruptDelegated(c.csr, SelectedInterrupt(c))
  BY <1>1 DEF InterruptDelegated
<1>9. TakeInterrupt(c) = EnterMachine(c, pc, SelectedInterrupt(c))
  BY <1>1, <1>8 DEF TakeInterrupt
<1> QED BY <1>7, <1>9

\* What an interrupt leaves.
LEMMA Entered ==
  ASSUME CoreInv, NEW level \in BOOLEAN,
         NEW c, c = [csr |-> HwSetMtip(csr, level), prv |-> prv, pc |-> pc], InterruptDue(c)
  PROVE  LET e == TakeInterrupt(c)
         IN  /\ e.csr \in CsrFile /\ e.prv = PRV_M /\ e.pc = Isr
             /\ e.csr.mepc = pc /\ e.csr.mtvec = Isr /\ e.csr.mideleg = {}
             /\ e.csr.mie = csr.mie
             /\ 3 \notin e.csr.mstatus /\ {7, 11, 12} \subseteq e.csr.mstatus
<1> DEFINE f  == HwSetMtip(csr, level)
           ms == MachineEntryStatus(f.mstatus, PRV_M)
           cause == SelectedInterrupt(c)
<1>1. /\ f \in CsrFile /\ f.mstatus = csr.mstatus /\ f.mie = csr.mie /\ f.mideleg = {}
      /\ f.mtvec = csr.mtvec
  BY TimerBit DEF CoreInv
<1>2. pc \in Enabled /\ TakeInterrupt(c) = EnterMachine(c, pc, cause)
  BY TimerOnly
<1>3. prv = PRV_M /\ 3 \in csr.mstatus /\ csr.mtvec = Isr /\ pc \in Int
  BY <1>2, Points DEF CoreInv
<1>4. c \in AnyContext /\ cause \in Causes
  BY <1>1, <1>3, SelectedIsPending DEF AnyContext, PRV_M
<1>5. TakeInterrupt(c).csr \in CsrFile
  BY <1>2, <1>3, <1>4, EnterMachineType DEF AnyContext
<1>6. 3 \notin ms /\ {7, 11, 12} \subseteq ms
  <2>1. ShiftLeft(PRV_M, 11) = {11, 12}
    BY DEF ShiftLeft, PRV_M
  <2> QED BY <1>1, <1>3, <2>1 DEF MachineEntryStatus, MSTATUS_MIE, MSTATUS_MPIE, MSTATUS_MPP
<1>7. TakeInterrupt(c) = [csr |-> [f EXCEPT !.mstatus = ms, !.mepc = pc, !.mcause = cause],
                          prv |-> PRV_M, pc |-> f.mtvec]
  BY <1>1, <1>2, <1>3 DEF EnterMachine, CsrFile
<1> HIDE DEF f, ms, cause
<1> DEFINE g == [f EXCEPT !.mstatus = ms, !.mepc = pc, !.mcause = cause]
<1>8. /\ g.mstatus = ms /\ g.mepc = pc /\ g.mtvec = f.mtvec
      /\ g.mideleg = f.mideleg /\ g.mie = f.mie
  BY <1>1 DEF CsrFile
<1>9. /\ TakeInterrupt(c).csr = g /\ TakeInterrupt(c).prv = PRV_M
      /\ TakeInterrupt(c).pc = f.mtvec
  BY <1>7
<1> HIDE DEF g
<1> QED BY <1>1, <1>3, <1>5, <1>6, <1>8, <1>9

\* MRET goes back to the program in M-mode and enables interrupts.
LEMMA Returned ==
  ASSUME CoreInv, pc \in IsrPcs,
         NEW c, c = [csr |-> csr, prv |-> prv, pc |-> pc]
  PROVE  LET r == Mret(c)
         IN  /\ r.csr \in CsrFile /\ r.prv = PRV_M /\ r.pc = csr.mepc
             /\ r.csr.mtvec = csr.mtvec /\ r.csr.mideleg = {} /\ r.csr.mie = csr.mie
             /\ r.csr.mepc = csr.mepc
             /\ 3 \in r.csr.mstatus
<1> DEFINE ms == MretStatus(csr.mstatus)
           r  == Mret(c)
<1>1. /\ csr \in CsrFile /\ {7, 11, 12} \subseteq csr.mstatus /\ csr.mideleg = {}
      /\ c.csr = csr /\ c.prv = PRV_M
  BY DEF CoreInv
<1>2. c \in AnyContext
  BY <1>1, Points DEF AnyContext, PRV_M, CoreInv
<1>3. r.csr \in CsrFile
  BY <1>2, MretType DEF AnyContext
<1>4. r.csr = [csr EXCEPT !.mstatus = ms] /\ r.pc = csr.mepc
  BY <1>1 DEF Mret, CsrFile
<1>5. r.prv = PRV_M
  <2>1. \A b \in {0, 1} : b + 11 \in csr.mstatus
    BY <1>1
  <2> QED BY <1>1, <2>1 DEF Mret, PRV_M
<1>6. 3 \in ms
  BY <1>1 DEF MretStatus, MSTATUS_MIE, MSTATUS_MPP, MSTATUS_MPIE
<1> HIDE DEF ms, r
<1>7. /\ r.csr.mstatus = ms /\ r.csr.mtvec = csr.mtvec /\ r.csr.mideleg = csr.mideleg
      /\ r.csr.mie = csr.mie /\ r.csr.mepc = csr.mepc
  BY <1>1, <1>4 DEF CsrFile
<1> QED BY <1>1, <1>3, <1>4, <1>5, <1>6, <1>7 DEF r

\* A tick counts, and interrupts if the timer is due where interrupts are
\* enabled.
LEMMA TickEffect ==
  ASSUME CoreInv, TickQuiet \/ TickInterrupt
  PROVE  /\ CoreInv'
         /\ mtime' = Incremented(mtime) /\ elapsed' = elapsed + 1
         /\ ~AtLeast(mtime, Horizon) /\ elapsed < StepTicks
         /\ UNCHANGED <<mtimecmp, uart, ring, k, sleep, game_over, halted, typed>>
         /\ IF TimerPending(mtime', mtimecmp) /\ pc \in Enabled
              THEN pc' = Isr /\ csr'.mepc = pc
              ELSE pc' = pc /\ csr'.mepc = csr.mepc
<1> DEFINE level == TimerPending(mtime', mtimecmp)
           c == Ticked
<1>1. /\ mtime' = Incremented(mtime) /\ elapsed' = elapsed + 1
      /\ ~AtLeast(mtime, Horizon) /\ elapsed < StepTicks
      /\ UNCHANGED <<mtimecmp, uart, ring, k, sleep, game_over, halted, typed>>
  BY DEF TickQuiet, TickInterrupt, Tick
<1>2. level \in BOOLEAN /\ c = [csr |-> HwSetMtip(csr, level), prv |-> prv, pc |-> pc]
  BY DEF TimerPending, AtLeast, Ticked
<1> HIDE DEF level, c
<1>3. InterruptDue(c) <=> level /\ pc \in Enabled
  BY <1>2, TimerOnly
<1>4. CASE level /\ pc \in Enabled
  <2> DEFINE e == TakeInterrupt(c)
  <2>1. csr' = e.csr /\ prv' = e.prv /\ pc' = e.pc
    BY <1>3, <1>4 DEF TickQuiet, TickInterrupt, Becomes, c
  <2>2. /\ e.csr \in CsrFile /\ e.prv = PRV_M /\ e.pc = Isr
        /\ e.csr.mepc = pc /\ e.csr.mtvec = Isr /\ e.csr.mideleg = {}
        /\ e.csr.mie = csr.mie
        /\ 3 \notin e.csr.mstatus /\ {7, 11, 12} \subseteq e.csr.mstatus
    BY <1>2, <1>3, <1>4, Entered
  <2> HIDE DEF e
  <2>3. CoreInv'
    BY <1>4, <2>1, <2>2, Points DEF CoreInv
  <2> QED BY <1>1, <1>4, <2>1, <2>2, <2>3 DEF level
<1>5. CASE ~(level /\ pc \in Enabled)
  <2>1. csr' = HwSetMtip(csr, level) /\ prv' = prv /\ pc' = pc
    BY <1>2, <1>3, <1>5 DEF TickQuiet, TickInterrupt, Becomes, c
  <2>2. /\ csr' \in CsrFile /\ csr'.mstatus = csr.mstatus /\ csr'.mie = csr.mie
        /\ csr'.mideleg = csr.mideleg /\ csr'.mtvec = csr.mtvec /\ csr'.mepc = csr.mepc
    BY <1>2, <2>1, TimerBit DEF CoreInv
  <2>3. CoreInv'
    BY <2>1, <2>2, Points DEF CoreInv
  <2> QED BY <1>1, <1>5, <2>1, <2>2, <2>3 DEF level
<1> QED BY <1>4, <1>5

\* _start sets up the handler, then the timer, then enables interrupts.
LEMMA BootCore ==
  ASSUME CoreInv, BootStep
  PROVE  CoreInv' /\ pc' \in 0 .. 3 /\ pc \in 0 .. 2 /\ pc' = pc + 1
<1>1. /\ pc \in 0 .. 2 /\ pc' = pc + 1 /\ prv' = PRV_M /\ csr \in CsrFile
      /\ pc \notin Enabled /\ pc \in Main /\ pc' \in Main
      /\ 3 \notin csr.mstatus
  BY Points DEF CoreInv, BootStep, Goto
<1>2. ASSUME pc = 0 PROVE CoreInv'
  <2>1. csr' = [csr EXCEPT !.mtvec = Isr]
    BY <1>1, <1>2 DEF BootStep, BootWrites, WriteCsr, CsrWriteValue, Boot
  <2>2. /\ csr' \in CsrFile /\ csr'.mtvec = Isr /\ csr'.mstatus = csr.mstatus
        /\ csr'.mie = csr.mie /\ csr'.mideleg = csr.mideleg
    BY <1>1, <2>1, Points DEF CsrFile
  <2> QED BY <1>1, <1>2, <2>2, Points DEF CoreInv
<1>3. ASSUME pc = 1 PROVE CoreInv'
  <2>1. csr.mie = {} /\ csr.mtvec = Isr /\ csr.mideleg = {}
    BY <1>1, <1>3, Points DEF CoreInv
  <2>2. csr' = [csr EXCEPT !.mie = MIP_MTIP]
    <3>1. BootWrites[pc + 1] = [name |-> "mie", function |-> "rs", data |-> MIP_MTIP]
      BY <1>3 DEF BootWrites
    <3>2. csr' = WriteCsr(csr, "mie", CsrWriteValue("rs", ReadCsr(csr, "mie"), MIP_MTIP, FALSE))
      BY <3>1 DEF BootStep
    <3>3. CsrWriteValue("rs", ReadCsr(csr, "mie"), MIP_MTIP, FALSE) = MIP_MTIP
      BY <2>1 DEF CsrWriteValue, ReadCsr
    <3> QED BY <3>2, <3>3 DEF WriteCsr
  <2>3. /\ csr' \in CsrFile /\ csr'.mtvec = Isr /\ csr'.mstatus = csr.mstatus
        /\ csr'.mie = MIP_MTIP /\ csr'.mideleg = csr.mideleg
    BY <1>1, <2>1, <2>2 DEF CsrFile, Bits, MIP_MTIP
  <2> QED BY <1>1, <1>3, <2>1, <2>3, Points DEF CoreInv
<1>4. ASSUME pc = 2 PROVE CoreInv'
  <2>1. csr.mie = MIP_MTIP /\ csr.mtvec = Isr /\ csr.mideleg = {}
    BY <1>1, <1>4, Points DEF CoreInv
  <2>2. csr' = [csr EXCEPT !.mstatus = csr.mstatus \cup {3}]
    <3>1. BootWrites[pc + 1] = [name |-> "mstatus", function |-> "rs", data |-> MSTATUS_MIE]
      BY <1>4 DEF BootWrites
    <3>2. csr' = WriteCsr(csr, "mstatus", CsrWriteValue("rs", ReadCsr(csr, "mstatus"), MSTATUS_MIE, FALSE))
      BY <3>1 DEF BootStep
    <3>3. CsrWriteValue("rs", ReadCsr(csr, "mstatus"), MSTATUS_MIE, FALSE) = csr.mstatus \cup {3}
      BY DEF CsrWriteValue, ReadCsr, MSTATUS_MIE
    <3> QED BY <3>2, <3>3 DEF WriteCsr
  <2>3. /\ csr' \in CsrFile /\ csr'.mtvec = Isr /\ 3 \in csr'.mstatus
        /\ csr'.mie = MIP_MTIP /\ csr'.mideleg = csr.mideleg
    BY <1>1, <2>1, <2>2 DEF CsrFile, Bits
  <2> QED BY <1>1, <1>4, <2>1, <2>3, Points DEF CoreInv
<1> QED BY <1>1, <1>2, <1>3, <1>4

\* Where the program stands; an interrupt does not move it.
Point == IF pc \in IsrPcs THEN csr.mepc ELSE pc

MainStep == \/ DrawStep \/ KbHitStep \/ GetCharStep \/ PushKeyStep \/ LogicStep
            \/ ReadTimeStep \/ ArmLowStep \/ ArmHighStep \/ SampleTicksStep
            \/ SpinStep \/ DelayReturns \/ GameOverStep
HandlerStep == IsrCounts \/ IsrMasksLow \/ IsrMasksHigh

\* A step of the program between two points of it.
LEMMA MainCore ==
  ASSUME CoreInv, MainStep
  PROVE  /\ CoreInv' /\ pc \in Enabled /\ pc' \in Enabled
         /\ csr' = csr /\ elapsed' = 0 /\ Point = pc /\ Point' = pc'
<1>1. \E here, next \in Enabled : Goto(here, next)
  <2>1. /\ DrawStep => Goto(Draw, KbHit)
        /\ KbHitStep => Goto(KbHit, GetChar) \/ Goto(KbHit, Logic)
        /\ GetCharStep => Goto(GetChar, PushKey)
        /\ PushKeyStep => Goto(PushKey, KbHit)
        /\ LogicStep => Goto(Logic, ReadTime)
        /\ ReadTimeStep => Goto(ReadTime, ArmLow)
        /\ ArmLowStep => Goto(ArmLow, ArmHigh)
        /\ ArmHighStep => Goto(ArmHigh, SampleTicks)
        /\ SampleTicksStep => Goto(SampleTicks, Spin)
        /\ SpinStep => Goto(Spin, Spin)
        /\ DelayReturns => Goto(Spin, GameOver) \/ Goto(Spin, Draw)
        /\ GameOverStep => Goto(GameOver, GameOver)
    BY DEF DrawStep, KbHitStep, GetCharStep, PushKeyStep, LogicStep, ReadTimeStep, ArmLowStep,
           ArmHighStep, SampleTicksStep, SpinStep, DelayReturns, GameOverStep
  <2>2. {Draw, KbHit, GetChar, PushKey, Logic, ReadTime, ArmLow, ArmHigh, SampleTicks, Spin,
         GameOver} \subseteq Enabled
    BY Points
  <2> QED BY <2>1, <2>2, Zenon DEF MainStep
<1>3. pc \in Enabled /\ pc' \in Enabled /\ elapsed' = 0
  BY <1>1 DEF Goto
<1>2. csr' = csr /\ prv' = prv
  BY DEF MainStep, Goto, DrawStep, KbHitStep, GetCharStep, PushKeyStep, LogicStep,
       ReadTimeStep, ArmLowStep, ArmHighStep, SampleTicksStep, SpinStep, DelayReturns, GameOverStep
<1> QED BY <1>2, <1>3, Points DEF CoreInv, Point

LEMMA HandlerCore ==
  ASSUME CoreInv, HandlerStep
  PROVE  /\ CoreInv' /\ pc \in IsrPcs /\ pc' = pc + 1 /\ pc' \in IsrPcs
         /\ csr' = csr /\ elapsed' = 0 /\ Point' = Point
<1>1. pc \in IsrPcs /\ pc' = pc + 1 /\ pc' \in IsrPcs /\ elapsed' = 0
  BY Points DEF HandlerStep, Goto, IsrCounts, IsrMasksLow, IsrMasksHigh
<1>2. csr' = csr /\ prv' = prv
  BY DEF HandlerStep, Goto, IsrCounts, IsrMasksLow, IsrMasksHigh
<1> QED BY <1>1, <1>2, Points DEF CoreInv, Point

LEMMA ReturnCore ==
  ASSUME CoreInv, IsrReturns
  PROVE  /\ CoreInv' /\ pc = Isr + 3 /\ pc' = csr.mepc /\ pc' \in Enabled
         /\ elapsed' = 0 /\ Point' = Point
         /\ UNCHANGED <<devices, ring, k, sleep, game_over, halted, typed>>
<1> DEFINE c == [csr |-> csr, prv |-> prv, pc |-> pc]
           r == Mret(c)
<1>1. /\ pc = Isr + 3 /\ pc \in IsrPcs /\ csr.mepc \in Enabled /\ csr.mtvec = Isr
      /\ csr.mie = MIP_MTIP
  BY Points DEF IsrReturns, CoreInv
<1>2. /\ csr' = r.csr /\ prv' = r.prv /\ pc' = r.pc /\ elapsed' = 0
      /\ UNCHANGED <<devices, ring, k, sleep, game_over, halted, typed>>
  BY DEF IsrReturns, Becomes
<1>3. /\ r.csr \in CsrFile /\ r.prv = PRV_M /\ r.pc = csr.mepc
      /\ r.csr.mtvec = csr.mtvec /\ r.csr.mideleg = {} /\ r.csr.mie = csr.mie
      /\ 3 \in r.csr.mstatus
  BY <1>1, Returned
<1> HIDE DEF r, c
<1>4. CoreInv'
  BY <1>1, <1>2, <1>3, Points DEF CoreInv
<1> QED BY <1>1, <1>2, <1>3, <1>4, Points DEF Point

LEMMA TickPoint ==
  ASSUME CoreInv, TickQuiet \/ TickInterrupt
  PROVE  Point' = Point
<1>1. IF TimerPending(mtime', mtimecmp) /\ pc \in Enabled
        THEN pc' = Isr /\ csr'.mepc = pc ELSE pc' = pc /\ csr'.mepc = csr.mepc
  BY TickEffect
<1> QED BY <1>1, Points DEF Point, CoreInv

-----------------------------------------------------------------------------
(* Types                                                                   *)

ClockTypes ==
  /\ mtime \in Counter /\ mtimecmp \in Counter /\ armed \in Counter
  /\ elapsed \in 0 .. StepTicks
  /\ timer_ticks \in Word /\ now \in Word /\ target \in Word /\ delays \in Nat

\* getchar is reached with a character waiting, push_key with a key.
KeyInv ==
  /\ Point = GetChar => uart.full
  /\ Point = PushKey => k \in Key
  /\ accepted \in Seq(Key)
  /\ game_over \in BOOLEAN /\ halted \in BOOLEAN /\ typed \in Nat

MachineInv == QueueInv /\ CoreInv /\ ClockTypes /\ KeyInv

LEMMA MachineTypes ==
  MachineInv => TypeOK
<1> SUFFICES ASSUME MachineInv PROVE TypeOK
  OBVIOUS
<1>1. prv \in SUBSET {0, 1}
  BY DEF MachineInv, CoreInv, PRV_M
<1> QED BY <1>1 DEF MachineInv, QueueInv, RingTypes, CoreInv, ClockTypes, KeyInv, TypeOK, Chars

LEMMA InitMachine ==
  Init => MachineInv
<1> SUFFICES ASSUME Init PROVE MachineInv
  OBVIOUS
<1>1. CoreInv
  <2>1. ZeroCsr \in CsrFile
    BY DEF ZeroCsr, CsrFile, Bits, Causes, NoCause
  <2>2. ZeroCsr.mie = {} /\ ZeroCsr.mideleg = {} /\ ZeroCsr.mstatus = {}
    BY DEF ZeroCsr
  <2> QED BY <2>1, <2>2, Points DEF Init, CoreInv
<1>2. 0 \in Word /\ Zero \in Counter /\ 0 \in 0 .. StepTicks
  BY WordSizeAssumption, SnakeAssumption DEF Word, Zero, Counter
<1>3. ClockTypes
  BY <1>2 DEF Init, ClockTypes
<1>4. KeyInv
  <2>1. Point # GetChar /\ Point # PushKey
    BY Points DEF Init, Point
  <2>2. <<>> \in Seq(Key) /\ 0 \in Nat
    OBVIOUS
  <2> QED BY <2>1, <2>2, Zenon DEF Init, KeyInv
<1> QED BY <1>1, <1>3, <1>4, InitQueueInv DEF MachineInv

\* The registers of the timer, and the words of the program that it uses.
LEMMA ClockStep ==
  ASSUME MachineInv, [Next]_vars
  PROVE  ClockTypes'
<1>1. /\ mtime \in Counter /\ mtimecmp \in Counter /\ armed \in Counter
      /\ elapsed \in 0 .. StepTicks
      /\ timer_ticks \in Word /\ now \in Word /\ target \in Word /\ delays \in Nat
  BY DEF MachineInv, ClockTypes
<1>2. /\ WordSize \in Nat \ {0, 1} /\ StepTicks \in Nat \ {0} /\ Cycles \in Nat
      /\ 0 \in 0 .. StepTicks /\ 0 \in Word /\ Ones \in Word
  BY WordSizeAssumption, SnakeAssumption DEF Word, Ones
<1>3. \A n \in Word : (n + 1) % WordSize \in Word /\ (n + Cycles) % WordSize \in Word
  BY <1>2, Remainder DEF Word
<1>4. \A d \in Word : WithLow(mtimecmp, d) \in Counter /\ WithHigh(mtimecmp, d) \in Counter
  BY <1>1 DEF WithLow, WithHigh, Counter
<1>5. mtime.lo \in Word
  BY <1>1 DEF Counter
<1>6. CASE TickQuiet \/ TickInterrupt
  <2>1. /\ mtime' = Incremented(mtime) /\ elapsed' = elapsed + 1 /\ elapsed < StepTicks
        /\ UNCHANGED <<mtimecmp, sleep>>
    BY <1>6 DEF TickQuiet, TickInterrupt, Tick
  <2>2. mtime' \in Counter /\ elapsed' \in 0 .. StepTicks
    BY <1>1, <1>2, <2>1, IncrementedType
  <2> QED BY <1>1, <2>1, <2>2 DEF ClockTypes, sleep
<1>7. CASE (\E key \in Key : Type(key)) \/ Stopped \/ UNCHANGED vars
  <2>1. UNCHANGED <<mtime, mtimecmp, elapsed, sleep>>
    BY <1>7 DEF Type, Stopped, vars, devices
  <2> QED BY <1>1, <2>1 DEF ClockTypes, sleep
<1>8. CASE IsrReturns
  BY <1>1, <1>2, <1>8 DEF IsrReturns, devices, sleep, ClockTypes
<1>9. CASE ReadTimeStep
  BY <1>1, <1>2, <1>5, <1>9 DEF ReadTimeStep, Goto, ClockTypes
<1>10. CASE ArmLowStep \/ ArmHighStep \/ IsrMasksLow \/ IsrMasksHigh
  <2>1. /\ mtimecmp' \in Counter /\ mtime' = mtime /\ elapsed' = 0 /\ UNCHANGED sleep
    BY <1>1, <1>2, <1>3, <1>4, <1>10
    DEF ArmLowStep, ArmHighStep, IsrMasksLow, IsrMasksHigh, Goto
  <2> QED BY <1>1, <1>2, <2>1 DEF ClockTypes, sleep
<1>11. CASE SampleTicksStep \/ IsrCounts
  BY <1>1, <1>2, <1>3, <1>11 DEF SampleTicksStep, IsrCounts, Goto, ClockTypes
<1>12. CASE DelayReturns
  BY <1>1, <1>2, <1>12 DEF DelayReturns, Goto, ClockTypes
<1>13. CASE BootStep \/ DrawStep \/ KbHitStep \/ GetCharStep \/ PushKeyStep \/ LogicStep
              \/ SpinStep \/ GameOverStep
  <2>1. UNCHANGED <<mtime, mtimecmp, sleep>> /\ elapsed' = 0
    BY <1>13 DEF BootStep, DrawStep, KbHitStep, GetCharStep, PushKeyStep, LogicStep,
                 SpinStep, GameOverStep, Goto
  <2> QED BY <1>1, <1>2, <2>1 DEF ClockTypes, sleep
<1> QED BY <1>6, <1>7, <1>8, <1>9, <1>10, <1>11, <1>12, <1>13 DEF Next, Program

LEMMA CoreStep ==
  ASSUME CoreInv, [Next]_vars
  PROVE  CoreInv'
<1>1. CASE TickQuiet \/ TickInterrupt
  BY <1>1, TickEffect
<1>2. CASE BootStep
  BY <1>2, BootCore
<1>3. CASE MainStep
  BY <1>3, MainCore
<1>4. CASE HandlerStep
  BY <1>4, HandlerCore
<1>5. CASE IsrReturns
  BY <1>5, ReturnCore
<1>6. CASE (\E key \in Key : Type(key)) \/ Stopped \/ UNCHANGED vars
  <2>1. UNCHANGED <<csr, prv, pc>>
    BY <1>6 DEF Type, Stopped, vars, core
  <2> QED BY <2>1 DEF CoreInv
<1> QED BY <1>1, <1>2, <1>3, <1>4, <1>5, <1>6 DEF Next, Program, MainStep, HandlerStep

\* A poll does not take the character held, so what kbhit saw, getchar reads,
\* whatever interrupts come between.
LEMMA KeyStep ==
  ASSUME MachineInv, [Next]_vars
  PROVE  KeyInv'
<1>1. /\ CoreInv /\ uart \in Uarts(Key) /\ k \in Chars /\ accepted \in Seq(Key)
      /\ Point = GetChar => uart.full
      /\ Point = PushKey => k \in Key
      /\ game_over \in BOOLEAN /\ halted \in BOOLEAN /\ typed \in Nat
  BY DEF MachineInv, QueueInv, RingTypes, KeyInv
<1>2. Polled(uart) \in Uarts(Key) /\ (uart.full => Polled(uart) = uart)
  BY <1>1, PolledUart DEF Polled
<1>3. CASE TickQuiet \/ TickInterrupt
  <2>1. Point' = Point /\ UNCHANGED <<uart, ring, k, game_over, halted, typed>>
    BY <1>1, <1>3, TickPoint, TickEffect
  <2> QED BY <1>1, <2>1 DEF KeyInv, ring
<1>4. CASE \E key \in Key : Type(key)
  <2>1. PICK key \in Key : Type(key)
    BY <1>4
  <2>2. Point' = Point /\ UNCHANGED <<ring, k, game_over, halted>> /\ typed' = typed + 1
    BY <2>1 DEF Type, Point, core
  <2>3. uart'.full = uart.full
    BY <1>1, <2>1 DEF Type, Typed, Uarts
  <2> QED BY <1>1, <2>2, <2>3 DEF KeyInv, ring
<1>5. CASE BootStep
  <2>1. Point' # GetChar /\ Point' # PushKey
    BY <1>1, <1>5, BootCore, Points DEF Point
  <2>2. UNCHANGED <<ring, game_over, halted, typed>>
    BY <1>5 DEF BootStep, Goto
  <2> QED BY <1>1, <2>1, <2>2 DEF KeyInv, ring
<1>6. CASE HandlerStep
  <2>1. Point' = Point
    BY <1>1, <1>6, HandlerCore
  <2>2. /\ uart' \in {uart, Polled(uart)}
        /\ UNCHANGED <<ring, k, game_over, halted, typed>>
    BY <1>6 DEF HandlerStep, IsrCounts, IsrMasksLow, IsrMasksHigh, Goto, Polls
  <2> QED BY <1>1, <1>2, <2>1, <2>2 DEF KeyInv, ring
<1>7. CASE IsrReturns
  <2>1. Point' = Point /\ UNCHANGED <<devices, ring, k, game_over, halted, typed>>
    BY <1>1, <1>7, ReturnCore
  <2> QED BY <1>1, <2>1 DEF KeyInv, ring, devices
<1>8. CASE MainStep
  <2>1. Point = pc /\ Point' = pc'
    BY <1>1, <1>8, MainCore
  <2>2. CASE KbHitStep
    <3>1. pc' = GetChar => uart'.full
      BY <2>2, Points DEF KbHitStep, Goto, Polls, DataReady
    <3>2. pc' # PushKey
      BY <2>2, Points DEF KbHitStep, Goto
    <3>3. UNCHANGED <<ring, k, game_over, halted, typed>>
      BY <2>2 DEF KbHitStep, Goto
    <3> QED BY <1>1, <2>1, <3>1, <3>2, <3>3 DEF KeyInv, ring
  <2>3. CASE GetCharStep
    <3>1. pc = GetChar /\ pc' = PushKey
      BY <2>3 DEF GetCharStep, Goto
    <3>2. k' = uart.held /\ uart.full
      BY <1>1, <1>2, <2>1, <2>3, <3>1 DEF GetCharStep, ReadData
    <3>3. k' \in Key
      BY <1>1, <3>2 DEF Uarts
    <3>4. UNCHANGED <<ring, game_over, halted, typed>>
      BY <2>3 DEF GetCharStep, Goto
    <3> QED BY <1>1, <2>1, <3>1, <3>3, <3>4, Points DEF KeyInv, ring
  <2>4. CASE PushKeyStep
    <3>1. pc = PushKey /\ pc' = KbHit /\ k \in Key
      BY <1>1, <2>1, <2>4 DEF PushKeyStep, Goto
    <3>2. accepted' \in Seq(Key)
      <4>1. Append(accepted, k) \in Seq(Key)
        BY <1>1, <3>1
      <4>2. accepted' \in {accepted, Append(accepted, k)}
        BY <2>4 DEF PushKeyStep, ring
      <4> QED BY <1>1, <4>1, <4>2
    <3>3. UNCHANGED <<k, game_over, halted, typed>>
      BY <2>4 DEF PushKeyStep, Goto
    <3> QED BY <1>1, <2>1, <3>1, <3>2, <3>3, Points DEF KeyInv
  <2>5. CASE LogicStep
    <3>1. pc' = ReadTime /\ typed' = typed /\ halted' = halted /\ game_over' \in BOOLEAN
      BY <1>1, <2>5 DEF LogicStep, Goto
    <3>2. accepted' \in Seq(Key)
      <4>1. CASE q_head = q_tail
        BY <1>1, <2>5, <4>1 DEF LogicStep, PopKey, ring
      <4>2. CASE q_head # q_tail
        <5>1. accepted' = Tail(accepted)
          BY <2>5, <4>2 DEF LogicStep, PopKey
        <5>2. accepted # <<>>
          <6>1. q_head \in 0 .. RingSize - 1 /\ RingSize \in Nat /\ q_tail = SlotAt(Len(accepted))
            BY SnakeAssumption DEF MachineInv, QueueInv, RingTypes, RingIsFifo, Slots
          <6> SUFFICES ASSUME accepted = <<>> PROVE FALSE
            OBVIOUS
          <6>2. Len(accepted) = 0
            OBVIOUS
          <6> QED BY <4>2, <6>1, <6>2 DEF SlotAt
        <5> QED BY <1>1, <5>1, <5>2
      <4> QED BY <4>1, <4>2
    <3> QED BY <1>1, <2>1, <3>1, <3>2, Points DEF KeyInv
  <2>6. CASE DrawStep \/ ReadTimeStep \/ ArmLowStep \/ ArmHighStep \/ SampleTicksStep
               \/ SpinStep \/ DelayReturns \/ GameOverStep
    <3>1. pc' # GetChar /\ pc' # PushKey
      BY <2>6, Points DEF DrawStep, ReadTimeStep, ArmLowStep, ArmHighStep, SampleTicksStep,
                          SpinStep, DelayReturns, GameOverStep, Goto
    <3>2. UNCHANGED <<ring, game_over, typed>> /\ halted' \in BOOLEAN
      BY <1>1, <2>6 DEF DrawStep, ReadTimeStep, ArmLowStep, ArmHighStep, SampleTicksStep,
                        SpinStep, DelayReturns, GameOverStep, Goto
    <3> QED BY <1>1, <2>1, <3>1, <3>2 DEF KeyInv, ring
  <2> QED BY <1>8, <2>2, <2>3, <2>4, <2>5, <2>6 DEF MainStep
<1>9. CASE Stopped \/ UNCHANGED vars
  <2>1. UNCHANGED <<csr, pc, uart, k, accepted, game_over, halted, typed>>
    BY <1>9 DEF Stopped, vars, devices, core, ring
  <2> QED BY <1>1, <2>1 DEF KeyInv, Point
<1> QED BY <1>3, <1>4, <1>5, <1>6, <1>7, <1>8, <1>9 DEF Next, Program, MainStep, HandlerStep

LEMMA StepMachine ==
  MachineInv /\ [Next]_vars => MachineInv'
BY StepQueueInv, CoreStep, ClockStep, KeyStep DEF MachineInv

-----------------------------------------------------------------------------
(* The timer                                                               *)

Start == Value(armed)
Armed == [lo |-> Deadline, hi |-> 0]

\* No delay is under way, and no deadline is set.
Working == timer_ticks = delays /\ delays <= Value(mtime) /\ mtimecmp \in {Zero, Masked}

\* delay before its wait: the deadline is written, one word at a time, before
\* it is reached.
Arming(steps) ==
  /\ timer_ticks = delays
  /\ Value(mtime) <= Start + steps * StepTicks + elapsed

\* The wait, before the interrupt and after the handler.
Sleeping == timer_ticks = delays /\ mtimecmp = Armed /\ Value(mtime) < Deadline
Woken(steps) ==
  /\ timer_ticks = delays + 1
  /\ Value(mtime) >= Deadline
  /\ Value(mtime) <= Deadline + steps * StepTicks + elapsed

\* The handler: it has interrupted the wait.
Handling ==
  /\ csr.mepc = Spin /\ target = delays + 1
  /\ pc = Isr => /\ timer_ticks = delays /\ mtimecmp = Armed
                 /\ Value(mtime) >= Deadline /\ Value(mtime) <= Deadline + elapsed
  /\ pc = Isr + 1 => Woken(1) /\ mtimecmp = Armed
  /\ pc = Isr + 2 => Woken(2) /\ mtimecmp = [lo |-> Ones, hi |-> 0]
  /\ pc = Isr + 3 => Woken(3) /\ mtimecmp = Masked

\* What holds at each point, while deadlines fit.
Phase ==
  /\ delays <= Start + 1
  /\ pc \in Main \ InDelay => Working
  /\ pc \in InDelay \cup IsrPcs => delays <= Start
  /\ pc = ArmLow => Arming(0) /\ mtimecmp \in {Zero, Masked} /\ now = Start
  /\ pc = ArmHigh => Arming(1) /\ \E h \in {0, Ones} : mtimecmp = [lo |-> Deadline, hi |-> h]
  /\ pc = SampleTicks => Arming(2) /\ mtimecmp = Armed
  /\ pc = Spin => target = delays + 1 /\ (Sleeping \/ (Woken(4) /\ mtimecmp = Masked))
  /\ pc \in IsrPcs => Handling

TimerInv ==
  /\ mtime # Masked /\ Start <= Value(mtime)
  /\ Fits => Phase

\* The numbers involved.
LEMMA Numbers ==
  ASSUME MachineInv
  PROVE  /\ WordSize \in Nat \ {0, 1} /\ Ones = WordSize - 1
         /\ Cycles \in Nat /\ StepTicks \in Nat \ {0} /\ Cycles > 3 * StepTicks
         /\ mtime \in Counter /\ mtimecmp \in Counter /\ armed \in Counter
         /\ Value(mtime) \in Nat /\ Start \in Nat /\ Deadline = Start + Cycles
         /\ Deadline \in Nat /\ Deadline > 0
         /\ elapsed \in Nat /\ elapsed <= StepTicks /\ delays \in Nat
         /\ timer_ticks \in Nat /\ target \in Nat /\ now \in Nat
         /\ Fits <=> Deadline < WordSize
         /\ Fits => Deadline \in Word
<1>1. /\ WordSize \in Nat \ {0, 1} /\ Ones = WordSize - 1
      /\ Cycles \in Nat /\ StepTicks \in Nat \ {0} /\ Cycles > 3 * StepTicks
  BY WordSizeAssumption, SnakeAssumption DEF Word, Ones
<1>2. /\ mtime \in Counter /\ mtimecmp \in Counter /\ armed \in Counter
      /\ elapsed \in 0 .. StepTicks
      /\ timer_ticks \in 0 .. WordSize - 1 /\ now \in 0 .. WordSize - 1
      /\ target \in 0 .. WordSize - 1 /\ delays \in Nat
  BY DEF MachineInv, ClockTypes, Word
<1>3. Value(mtime) \in Nat /\ Value(armed) \in Nat
  BY <1>2, ValueType
<1> QED BY <1>1, <1>2, <1>3 DEF Start, Deadline, Fits, Word

\* Nothing that the timer depends on changes.
LEMMA TimerKept ==
  ASSUME TimerInv, UNCHANGED <<mtime, mtimecmp, elapsed, sleep, pc, csr>>
  PROVE  TimerInv'
<1>1. UNCHANGED <<mtime, mtimecmp, elapsed, timer_ticks, now, target, armed, delays, pc, csr>>
  BY DEF sleep
<1> QED BY <1>1 DEF TimerInv, Phase, Working, Arming, Sleeping, Woken, Handling, Start, Armed,
                    Deadline, Fits

\* A step of the program outside delay.
LEMMA TimerWorking ==
  ASSUME TimerInv, pc \in Main \ InDelay, pc' \in Main \ InDelay,
         UNCHANGED <<mtime, mtimecmp, sleep>>
  PROVE  TimerInv'
<1>1. UNCHANGED <<mtime, mtimecmp, timer_ticks, now, target, armed, delays>>
  BY DEF sleep
<1>2. Fits' => Fits /\ Working' /\ (delays <= Start + 1)'
  BY <1>1 DEF TimerInv, Phase, Working, Start, Deadline, Fits
<1>3. pc' \notin InDelay \cup IsrPcs /\ pc' \notin {ArmLow, ArmHigh, SampleTicks, Spin}
  BY Points DEF InDelay
<1>4. Fits' => Phase'
  BY <1>2, <1>3 DEF Phase
<1> QED BY <1>1, <1>4 DEF TimerInv, Start

\* A tick interrupts the wait at the deadline, and nothing else.
LEMMA TimerTick ==
  ASSUME MachineInv, TimerInv, TickQuiet \/ TickInterrupt
  PROVE  TimerInv'
<1> DEFINE t == Value(mtime)
           due == TimerPending(mtime', mtimecmp)
<1>1. CoreInv /\ CoreInv' /\ pc \in Main \cup IsrPcs
  BY TickEffect DEF MachineInv, CoreInv
<1>2. /\ mtime' = Incremented(mtime) /\ elapsed' = elapsed + 1
      /\ ~AtLeast(mtime, Horizon)
      /\ IF due /\ pc \in Enabled THEN pc' = Isr /\ csr'.mepc = pc
                                  ELSE pc' = pc /\ csr'.mepc = csr.mepc
  BY <1>1, TickEffect
<1>3. UNCHANGED <<mtimecmp, timer_ticks, now, target, armed, delays>>
  BY <1>1, TickEffect DEF sleep
<1>4. /\ mtime \in Counter /\ mtime' \in Counter /\ mtime # Masked /\ mtime' # Masked
      /\ Value(mtime') = t + 1
  BY <1>2, Numbers, IncrementedType, BelowHorizon, ValueIncremented DEF TimerInv
<1>5. /\ t \in Nat /\ Start \in Nat /\ Deadline \in Nat /\ Deadline = Start + Cycles
      /\ elapsed \in Nat /\ elapsed' <= StepTicks /\ StepTicks \in Nat /\ Cycles > 3 * StepTicks
      /\ delays \in Nat /\ timer_ticks \in Nat /\ Cycles \in Nat /\ Start <= t
      /\ WordSize \in Nat
  BY <1>1, <1>2, TickEffect, Numbers DEF TimerInv
<1>6. Start' = Start /\ Deadline' = Deadline /\ Fits' = Fits /\ Armed' = Armed
  BY <1>3 DEF Start, Deadline, Fits, Armed
<1>7. ASSUME Fits PROVE Phase'
  <2>1. /\ Phase /\ Deadline \in Word /\ Deadline > 0 /\ Deadline < WordSize
        /\ delays <= Start + 1
    BY <1>7, Numbers DEF TimerInv, Phase
  <2>2. CASE pc \in Main \ InDelay
    <3>1. Working
      BY <2>1, <2>2 DEF Phase
    <3>2. ~due
      BY <1>4, <3>1, PendingIdle DEF Working
    <3>3. pc' = pc /\ Working'
      BY <1>2, <1>3, <1>4, <1>5, <3>1, <3>2 DEF Working
    <3>4. pc \notin InDelay \cup IsrPcs /\ pc \notin {ArmLow, ArmHigh, SampleTicks, Spin}
      BY <2>2, Points DEF InDelay
    <3> QED BY <1>3, <1>6, <2>1, <3>3, <3>4 DEF Phase
  <2>3. CASE pc = ArmLow
    <3>1. /\ Arming(0) /\ mtimecmp \in {Zero, Masked} /\ now = Start /\ delays <= Start
      BY <2>1, <2>3 DEF Phase, InDelay
    <3>2. ~due
      BY <1>4, <3>1, PendingIdle
    <3>3. pc' = pc /\ Arming(0)'
      BY <1>2, <1>3, <1>4, <1>5, <1>6, <3>1, <3>2 DEF Arming
    <3>4. pc' \in InDelay /\ pc' \notin {ArmHigh, SampleTicks, Spin} \cup IsrPcs
      BY <2>3, <3>3, Points DEF InDelay
    <3> QED BY <1>3, <1>6, <2>1, <3>1, <3>3, <3>4 DEF Phase
  <2>4. CASE pc = ArmHigh
    <3>1. /\ Arming(1) /\ delays <= Start
          /\ \E h \in {0, Ones} : mtimecmp = [lo |-> Deadline, hi |-> h]
      BY <2>1, <2>4 DEF Phase, InDelay
    <3>2. t + 1 < Deadline
      BY <1>2, <1>5, <3>1 DEF Arming
    <3>3. ~due
      BY <1>4, <2>1, <3>1, <3>2, PendingHalfWritten
    <3>4. pc' = pc /\ Arming(1)'
      BY <1>2, <1>3, <1>4, <1>5, <1>6, <3>1, <3>3 DEF Arming
    <3>5. pc' \in InDelay /\ pc' \notin {ArmLow, SampleTicks, Spin} \cup IsrPcs
      BY <2>4, <3>4, Points DEF InDelay
    <3> QED BY <1>3, <1>6, <2>1, <3>1, <3>4, <3>5 DEF Phase
  <2>5. CASE pc = SampleTicks
    <3>1. Arming(2) /\ delays <= Start /\ mtimecmp = Armed
      BY <2>1, <2>5 DEF Phase, InDelay
    <3>2. t + 1 < Deadline
      BY <1>2, <1>5, <3>1 DEF Arming
    <3>3. ~due
      BY <1>4, <2>1, <3>1, <3>2, PendingHalfWritten DEF Armed
    <3>4. pc' = pc /\ Arming(2)'
      BY <1>2, <1>3, <1>4, <1>5, <1>6, <3>1, <3>3 DEF Arming
    <3>5. pc' \in InDelay /\ pc' \notin {ArmLow, ArmHigh, Spin} \cup IsrPcs
      BY <2>5, <3>4, Points DEF InDelay
    <3> QED BY <1>3, <1>6, <2>1, <3>1, <3>4, <3>5 DEF Phase
  <2>6. CASE pc = Spin
    <3>1. /\ delays <= Start /\ target = delays + 1
          /\ Sleeping \/ (Woken(4) /\ mtimecmp = Masked)
      BY <2>1, <2>6 DEF Phase, InDelay
    <3>2. pc \in Enabled
      BY <2>6, Points
    <3>3. CASE Sleeping
      <4>1. due <=> t + 1 >= Deadline
        BY <1>4, <2>1, <3>3, PendingLow DEF Sleeping, Armed
      <4>2. CASE due
        <5>1. pc' = Isr /\ csr'.mepc = Spin
          BY <1>2, <2>6, <3>2, <4>2
        <5>2. pc' \in IsrPcs /\ pc' \notin InDelay \cup Main /\ pc' \notin {Isr + 1, Isr + 2, Isr + 3}
          BY <5>1, Points DEF InDelay
        <5>3. Value(mtime') >= Deadline /\ Value(mtime') <= Deadline + elapsed'
          BY <1>2, <1>4, <1>5, <3>3, <4>1, <4>2 DEF Sleeping
        <5>4. Handling'
          BY <1>3, <1>6, <3>1, <3>3, <5>1, <5>2, <5>3 DEF Handling, Sleeping
        <5> QED BY <1>3, <1>6, <3>1, <5>1, <5>2, <5>4, <2>1, Points DEF Phase
      <4>3. CASE ~due
        <5>1. pc' = pc /\ Sleeping'
          BY <1>2, <1>3, <1>4, <1>5, <1>6, <3>3, <4>1, <4>3 DEF Sleeping
        <5>2. pc' \in InDelay /\ pc' \notin {ArmLow, ArmHigh, SampleTicks} \cup IsrPcs
          BY <2>6, <5>1, Points DEF InDelay
        <5> QED BY <1>3, <1>6, <2>1, <3>1, <5>1, <5>2 DEF Phase
      <4> QED BY <4>2, <4>3
    <3>4. CASE Woken(4) /\ mtimecmp = Masked
      <4>1. ~due
        BY <1>4, <3>4, PendingIdle
      <4>2. pc' = pc /\ Woken(4)'
        BY <1>2, <1>3, <1>4, <1>5, <1>6, <3>4, <4>1 DEF Woken
      <4>3. pc' \in InDelay /\ pc' \notin {ArmLow, ArmHigh, SampleTicks} \cup IsrPcs
        BY <2>6, <4>2, Points DEF InDelay
      <4> QED BY <1>3, <1>6, <2>1, <3>1, <3>4, <4>2, <4>3 DEF Phase
    <3> QED BY <3>1, <3>3, <3>4
  <2>7. CASE pc \in IsrPcs
    <3>1. Handling /\ delays <= Start
      BY <2>1, <2>7 DEF Phase
    <3>2. pc' = pc /\ csr'.mepc = csr.mepc /\ pc' \notin Main /\ pc' \notin InDelay
      BY <1>2, <2>7, Points DEF InDelay
    <3>3. Handling'
      BY <1>2, <1>3, <1>4, <1>5, <1>6, <3>1, <3>2 DEF Handling, Woken
    <3> QED BY <1>3, <1>6, <2>1, <2>7, <3>1, <3>2, <3>3, Points DEF Phase
  <2> QED BY <1>1, <2>2, <2>3, <2>4, <2>5, <2>6, <2>7 DEF InDelay
<1> QED BY <1>3, <1>4, <1>5, <1>6, <1>7 DEF TimerInv

\* The first half of delay.
LEMMA TimerArming ==
  ASSUME MachineInv, TimerInv, ReadTimeStep \/ ArmLowStep \/ ArmHighStep
  PROVE  TimerInv'
<1> DEFINE t == Value(mtime)
<1>1. /\ t \in Nat /\ Start \in Nat /\ Deadline = Start + Cycles /\ Cycles \in Nat
      /\ StepTicks \in Nat /\ Cycles > 3 * StepTicks
      /\ elapsed \in Nat /\ elapsed <= StepTicks /\ delays \in Nat
      /\ WordSize \in Nat \ {0, 1} /\ Start <= t /\ mtime # Masked
      /\ mtime \in Counter
  BY Numbers DEF TimerInv
<1>2. mtime' = mtime /\ elapsed' = 0 /\ timer_ticks' = timer_ticks /\ delays' = delays
  BY DEF ReadTimeStep, ArmLowStep, ArmHighStep, Goto, sleep
<1>3. CASE ReadTimeStep
  <2>1. /\ pc = ReadTime /\ pc' = ArmLow /\ mtimecmp' = mtimecmp
        /\ now' = mtime.lo /\ armed' = mtime
    BY <1>3 DEF ReadTimeStep, Goto
  <2>2. Start' = t /\ Deadline' = t + Cycles
    BY <2>1 DEF Start, Deadline
  <2>3. ASSUME Fits' PROVE Phase'
    <3>1. t + Cycles < WordSize /\ Fits
      BY <1>1, <2>2, <2>3 DEF Fits
    <3>2. Working
      BY <2>1, <3>1, Points DEF TimerInv, Phase, InDelay
    <3>3. mtime.lo = t
      BY <1>1, <3>1, LowValue
    <3>4. Arming(0)'
      BY <1>1, <1>2, <2>2, <3>2 DEF Arming, Working
    <3>5. pc' \in InDelay /\ pc' \notin {ArmHigh, SampleTicks, Spin} \cup IsrPcs
      BY <2>1, Points DEF InDelay
    <3> QED BY <1>1, <1>2, <2>1, <2>2, <3>2, <3>3, <3>4, <3>5 DEF Phase, Working
  <2> QED BY <1>1, <1>2, <2>2, <2>3 DEF TimerInv
<1>4. CASE ArmLowStep
  <2>1. /\ pc = ArmLow /\ pc' = ArmHigh /\ UNCHANGED sleep
        /\ mtimecmp' = WithLow(mtimecmp, (now + Cycles) % WordSize)
    BY <1>4 DEF ArmLowStep, Goto
  <2>2. Start' = Start /\ Deadline' = Deadline /\ Fits' = Fits /\ delays' = delays
    BY <2>1 DEF Start, Deadline, Fits, sleep
  <2>3. ASSUME Fits PROVE Phase'
    <3>1. /\ Arming(0) /\ mtimecmp \in {Zero, Masked} /\ now = Start /\ delays <= Start
          /\ Deadline < WordSize
      BY <1>1, <2>1, <2>3, Points DEF TimerInv, Phase, InDelay, Fits
    <3>2. (now + Cycles) % WordSize = Deadline
      BY <1>1, <3>1
    <3>3. \E h \in {0, Ones} : mtimecmp' = [lo |-> Deadline, hi |-> h]
      BY <2>1, <3>1, <3>2 DEF WithLow, Zero, Masked
    <3>4. Arming(1)'
      BY <1>1, <1>2, <2>2, <3>1 DEF Arming
    <3>5. pc' \in InDelay /\ pc' \notin {ArmLow, SampleTicks, Spin} \cup IsrPcs
      BY <2>1, Points DEF InDelay
    <3> QED BY <1>1, <2>1, <2>2, <3>1, <3>3, <3>4, <3>5 DEF Phase
  <2> QED BY <1>1, <1>2, <2>2, <2>3 DEF TimerInv
<1>5. CASE ArmHighStep
  <2>1. /\ pc = ArmHigh /\ pc' = SampleTicks /\ UNCHANGED sleep
        /\ mtimecmp' = WithHigh(mtimecmp, 0)
    BY <1>5 DEF ArmHighStep, Goto
  <2>2. Start' = Start /\ Deadline' = Deadline /\ Fits' = Fits /\ Armed' = Armed
    BY <2>1 DEF Start, Deadline, Fits, Armed, sleep
  <2>3. ASSUME Fits PROVE Phase'
    <3>1. /\ Arming(1) /\ delays <= Start
          /\ \E h \in {0, Ones} : mtimecmp = [lo |-> Deadline, hi |-> h]
      BY <2>1, <2>3, Points DEF TimerInv, Phase, InDelay
    <3>2. mtimecmp' = Armed
      BY <2>1, <3>1 DEF WithHigh, Armed
    <3>3. Arming(2)'
      BY <1>1, <1>2, <2>2, <3>1 DEF Arming
    <3>4. pc' \in InDelay /\ pc' \notin {ArmLow, ArmHigh, Spin} \cup IsrPcs
      BY <2>1, Points DEF InDelay
    <3> QED BY <1>1, <1>2, <2>1, <2>2, <3>1, <3>2, <3>3, <3>4 DEF Phase
  <2> QED BY <1>1, <1>2, <2>2, <2>3 DEF TimerInv
<1> QED BY <1>3, <1>4, <1>5

\* The second half: the sample precedes the deadline, so the interrupt is
\* still to come.
LEMMA TimerWaiting ==
  ASSUME MachineInv, TimerInv, SampleTicksStep \/ SpinStep \/ DelayReturns
  PROVE  /\ TimerInv'
         /\ Fits /\ DelayReturns => Value(mtime) >= Deadline
<1> DEFINE t == Value(mtime)
<1>1. /\ t \in Nat /\ Start \in Nat /\ Deadline = Start + Cycles /\ Cycles \in Nat
      /\ StepTicks \in Nat /\ Cycles > 3 * StepTicks
      /\ elapsed \in Nat /\ elapsed <= StepTicks /\ delays \in Nat
      /\ timer_ticks \in Nat /\ target \in Nat
      /\ WordSize \in Nat \ {0, 1} /\ Start <= t /\ mtime # Masked
  BY Numbers DEF TimerInv
<1>2. /\ mtime' = mtime /\ elapsed' = 0 /\ timer_ticks' = timer_ticks /\ armed' = armed
      /\ mtimecmp' = mtimecmp
  BY DEF SampleTicksStep, SpinStep, DelayReturns, Goto, sleep
<1>3. Start' = Start /\ Deadline' = Deadline /\ Fits' = Fits /\ Armed' = Armed
  BY <1>2 DEF Start, Deadline, Fits, Armed
<1>4. CASE SampleTicksStep
  <2>1. /\ pc = SampleTicks /\ pc' = Spin /\ delays' = delays
        /\ target' = (timer_ticks + 1) % WordSize
    BY <1>4 DEF SampleTicksStep, Goto
  <2>2. ASSUME Fits PROVE Phase'
    <3>1. Arming(2) /\ delays <= Start /\ mtimecmp = Armed /\ Deadline < WordSize
      BY <1>1, <2>1, <2>2, Points DEF TimerInv, Phase, InDelay, Fits
    <3>2. target' = delays + 1
      BY <1>1, <2>1, <3>1 DEF Arming
    <3>3. Sleeping'
      BY <1>1, <1>2, <1>3, <2>1, <3>1 DEF Sleeping, Arming
    <3>4. pc' \in InDelay /\ pc' \notin {ArmLow, ArmHigh, SampleTicks} \cup IsrPcs
      BY <2>1, Points DEF InDelay
    <3> QED BY <1>1, <1>3, <2>1, <3>1, <3>2, <3>3, <3>4 DEF Phase
  <2>3. ~DelayReturns
    BY <2>1, Points DEF DelayReturns, Goto
  <2> QED BY <1>1, <1>2, <1>3, <2>2, <2>3 DEF TimerInv
<1>5. CASE SpinStep
  <2>1. /\ pc = Spin /\ pc' = Spin /\ UNCHANGED sleep /\ timer_ticks < target
    BY <1>5 DEF SpinStep, Goto
  <2>2. delays' = delays /\ target' = target
    BY <2>1 DEF sleep
  <2>3. ASSUME Fits PROVE Phase'
    <3>1. delays <= Start /\ target = delays + 1 /\ (Sleeping \/ (Woken(4) /\ mtimecmp = Masked))
      BY <2>1, <2>3, Points DEF TimerInv, Phase, InDelay
    <3>2. Sleeping
      BY <1>1, <2>1, <3>1 DEF Woken
    <3>3. Sleeping'
      BY <1>2, <1>3, <2>2, <3>2 DEF Sleeping
    <3>4. pc' \in InDelay /\ pc' \notin {ArmLow, ArmHigh, SampleTicks} \cup IsrPcs
      BY <2>1, Points DEF InDelay
    <3> QED BY <1>1, <1>3, <2>1, <2>2, <3>1, <3>3, <3>4 DEF Phase
  <2>4. ~DelayReturns
    BY <1>1, <2>1 DEF DelayReturns
  <2> QED BY <1>1, <1>2, <1>3, <2>3, <2>4 DEF TimerInv
<1>6. CASE DelayReturns
  <2>1. /\ pc = Spin /\ pc' \in {GameOver, Draw} /\ delays' = delays + 1
        /\ timer_ticks >= target
    BY <1>6 DEF DelayReturns, Goto
  <2>2. ASSUME Fits PROVE Phase' /\ t >= Deadline
    <3>1. delays <= Start /\ target = delays + 1 /\ (Sleeping \/ (Woken(4) /\ mtimecmp = Masked))
      BY <2>1, <2>2, Points DEF TimerInv, Phase, InDelay
    <3>2. Woken(4) /\ mtimecmp = Masked
      BY <1>1, <2>1, <3>1 DEF Sleeping
    <3>3. t >= Deadline
      BY <3>2 DEF Woken
    <3>4. Working'
      BY <1>1, <1>2, <2>1, <3>1, <3>2, <3>3 DEF Working, Woken
    <3>5. pc' \notin InDelay \cup IsrPcs /\ pc' \notin {ArmLow, ArmHigh, SampleTicks, Spin}
      BY <2>1, Points DEF InDelay
    <3> QED BY <1>1, <1>3, <2>1, <3>1, <3>3, <3>4, <3>5 DEF Phase
  <2> QED BY <1>1, <1>2, <1>3, <2>2 DEF TimerInv
<1> QED BY <1>4, <1>5, <1>6

\* The handler counts, masks the comparison and goes back to the wait.
LEMMA TimerHandling ==
  ASSUME MachineInv, TimerInv, HandlerStep \/ IsrReturns
  PROVE  TimerInv'
<1> DEFINE t == Value(mtime)
<1>1. /\ t \in Nat /\ Start \in Nat /\ Deadline = Start + Cycles /\ Cycles \in Nat
      /\ StepTicks \in Nat /\ Cycles > 3 * StepTicks
      /\ elapsed \in Nat /\ elapsed <= StepTicks /\ delays \in Nat
      /\ timer_ticks \in Nat
      /\ WordSize \in Nat \ {0, 1} /\ Start <= t /\ mtime # Masked
  BY Numbers DEF TimerInv
<1>2. mtime' = mtime /\ elapsed' = 0 /\ UNCHANGED <<armed, delays, target>>
  BY DEF HandlerStep, IsrCounts, IsrMasksLow, IsrMasksHigh, IsrReturns, Goto, sleep, devices
<1>3. Start' = Start /\ Deadline' = Deadline /\ Fits' = Fits /\ Armed' = Armed
  BY <1>2 DEF Start, Deadline, Fits, Armed
<1>4. CASE HandlerStep
  <2>1. pc \in IsrPcs /\ pc' = pc + 1 /\ pc' \in IsrPcs /\ csr' = csr
    BY <1>4, HandlerCore DEF MachineInv
  <2>2. pc' \notin InDelay \cup Main
    BY <2>1, Points DEF InDelay
  <2>3. ASSUME Fits PROVE Handling' /\ delays <= Start
    <3>1. Handling /\ delays <= Start /\ Deadline < WordSize
      BY <1>1, <2>1, <2>3 DEF TimerInv, Phase, Fits
    <3>2. CASE IsrCounts
      <4>1. /\ pc = Isr /\ pc' = Isr + 1 /\ mtimecmp' = mtimecmp
            /\ timer_ticks' = (timer_ticks + 1) % WordSize
        BY <3>2 DEF IsrCounts, Goto
      <4>2. timer_ticks = delays /\ mtimecmp = Armed /\ t >= Deadline /\ t <= Deadline + elapsed
        BY <3>1, <4>1 DEF Handling
      <4>3. timer_ticks' = delays + 1
        BY <1>1, <3>1, <4>1, <4>2
      <4>4. Woken(1)'
        BY <1>1, <1>2, <1>3, <4>2, <4>3 DEF Woken
      <4> QED BY <1>2, <1>3, <2>1, <3>1, <4>1, <4>2, <4>4, Points DEF Handling
    <3>3. CASE IsrMasksLow
      <4>1. /\ pc = Isr + 1 /\ pc' = Isr + 2 /\ mtimecmp' = WithLow(mtimecmp, Ones)
            /\ timer_ticks' = timer_ticks
        BY <3>3, Points DEF IsrMasksLow, Goto, sleep
      <4>2. Woken(1) /\ mtimecmp = Armed
        BY <3>1, <4>1 DEF Handling
      <4>3. mtimecmp' = [lo |-> Ones, hi |-> 0]
        BY <4>1, <4>2 DEF WithLow, Armed
      <4>4. Woken(2)'
        BY <1>1, <1>2, <1>3, <4>1, <4>2 DEF Woken
      <4> QED BY <1>2, <1>3, <2>1, <3>1, <4>1, <4>3, <4>4, Points DEF Handling
    <3>4. CASE IsrMasksHigh
      <4>1. /\ pc = Isr + 2 /\ pc' = Isr + 3 /\ mtimecmp' = WithHigh(mtimecmp, Ones)
            /\ timer_ticks' = timer_ticks
        BY <3>4, Points DEF IsrMasksHigh, Goto, sleep
      <4>2. Woken(2) /\ mtimecmp = [lo |-> Ones, hi |-> 0]
        BY <3>1, <4>1 DEF Handling
      <4>3. mtimecmp' = Masked
        BY <4>1, <4>2 DEF WithHigh, Masked
      <4>4. Woken(3)'
        BY <1>1, <1>2, <1>3, <4>1, <4>2 DEF Woken
      <4> QED BY <1>2, <1>3, <2>1, <3>1, <4>1, <4>3, <4>4, Points DEF Handling
    <3> QED BY <1>4, <3>1, <3>2, <3>3, <3>4 DEF HandlerStep
  <2>4. Fits => Phase'
    BY <1>1, <1>2, <1>3, <2>1, <2>2, <2>3, Points DEF Phase, InDelay
  <2> QED BY <1>1, <1>2, <1>3, <2>4 DEF TimerInv
<1>5. CASE IsrReturns
  <2>1. /\ pc = Isr + 3 /\ pc \in IsrPcs /\ pc' = csr.mepc
        /\ UNCHANGED <<mtimecmp, timer_ticks>>
    BY <1>5, ReturnCore, Points DEF MachineInv, devices, sleep
  <2>2. ASSUME Fits PROVE Phase'
    <3>1. /\ csr.mepc = Spin /\ target = delays + 1 /\ delays <= Start
          /\ Woken(3) /\ mtimecmp = Masked
      BY <2>1, <2>2 DEF TimerInv, Phase, Handling
    <3>2. Woken(4)'
      BY <1>1, <1>2, <1>3, <2>1, <3>1 DEF Woken
    <3>3. pc' = Spin /\ pc' \in InDelay /\ pc' \notin {ArmLow, ArmHigh, SampleTicks} \cup IsrPcs
      BY <2>1, <3>1, Points DEF InDelay
    <3> QED BY <1>1, <1>2, <1>3, <2>1, <3>1, <3>2, <3>3 DEF Phase
  <2> QED BY <1>1, <1>2, <1>3, <2>2 DEF TimerInv
<1> QED BY <1>4, <1>5

LEMMA InitTimer ==
  Init => TimerInv
<1> SUFFICES ASSUME Init PROVE TimerInv
  OBVIOUS
<1>1. MachineInv
  BY InitMachine
<1>2. mtime = Zero /\ mtimecmp = Zero /\ armed = Zero /\ timer_ticks = 0 /\ delays = 0 /\ pc = 0
  BY DEF Init, Boot
<1>3. Value(Zero) = 0 /\ Zero # Masked
  BY <1>1, Numbers DEF Value, Zero, Masked
<1>4. Start = 0 /\ Working
  BY <1>2, <1>3 DEF Start, Working
<1>5. Phase
  BY <1>2, <1>4, Points DEF Phase, InDelay
<1> QED BY <1>2, <1>3, <1>4, <1>5 DEF TimerInv

LEMMA StepTimer ==
  ASSUME MachineInv, TimerInv, [Next]_vars
  PROVE  TimerInv'
<1>0. CoreInv
  BY DEF MachineInv
<1>1. CASE TickQuiet \/ TickInterrupt
  BY <1>1, TimerTick
<1>2. CASE (\E key \in Key : Type(key)) \/ Stopped \/ UNCHANGED vars
  <2>1. UNCHANGED <<mtime, mtimecmp, elapsed, sleep, pc, csr>>
    BY <1>2 DEF Type, Stopped, vars, devices, core
  <2> QED BY <2>1, TimerKept
<1>3. CASE BootStep
  <2>1. pc \in 0 .. 2 /\ pc' \in 0 .. 3
    BY <1>0, <1>3, BootCore
  <2>2. UNCHANGED <<mtime, mtimecmp, sleep>>
    BY <1>3 DEF BootStep, Goto
  <2>3. pc \in Main \ InDelay /\ pc' \in Main \ InDelay
    BY <2>1, Points DEF InDelay
  <2> QED BY <2>2, <2>3, TimerWorking
<1>4. CASE DrawStep \/ KbHitStep \/ GetCharStep \/ PushKeyStep \/ LogicStep \/ GameOverStep
  <2>1. /\ pc \in {Draw, KbHit, GetChar, PushKey, Logic, GameOver}
        /\ pc' \in {KbHit, GetChar, PushKey, Logic, ReadTime, GameOver}
    BY <1>4 DEF DrawStep, KbHitStep, GetCharStep, PushKeyStep, LogicStep, GameOverStep, Goto
  <2>2. UNCHANGED <<mtime, mtimecmp, sleep>>
    BY <1>4 DEF DrawStep, KbHitStep, GetCharStep, PushKeyStep, LogicStep, GameOverStep, Goto
  <2>3. pc \in Main \ InDelay /\ pc' \in Main \ InDelay
    BY <2>1, Points DEF InDelay
  <2> QED BY <2>2, <2>3, TimerWorking
<1>5. CASE ReadTimeStep \/ ArmLowStep \/ ArmHighStep
  BY <1>5, TimerArming
<1>6. CASE SampleTicksStep \/ SpinStep \/ DelayReturns
  BY <1>6, TimerWaiting
<1>7. CASE HandlerStep \/ IsrReturns
  BY <1>7, TimerHandling
<1> QED BY <1>1, <1>2, <1>3, <1>4, <1>5, <1>6, <1>7 DEF Next, Program, HandlerStep

\* While deadlines fit, timer_ticks tells the point of the delay.
LEMMA TicksAreDelays ==
  ASSUME MachineInv, TimerInv
  PROVE  OneWakeUpPerDelay /\ ReturnsInTime
<1>1. /\ Start \in Nat /\ delays \in Nat /\ Deadline = Start + Cycles /\ WordSize \in Nat \ {0, 1}
      /\ Fits <=> Deadline < WordSize
      /\ Cycles > 3 * StepTicks /\ StepTicks \in Nat \ {0} /\ Cycles \in Nat
      /\ elapsed \in Nat /\ elapsed <= StepTicks
      /\ Value(mtime) \in Nat
  BY Numbers
<1>2. pc \in Main \cup IsrPcs
  BY DEF MachineInv, CoreInv
<1>3. ASSUME Fits
      PROVE  /\ pc \in Main \ InDelay => timer_ticks = delays
             /\ timer_ticks \in {delays, delays + 1}
             /\ timer_ticks = delays + 1 => delays <= Start
             /\ pc \in {Spin} \cup IsrPcs => Value(mtime) <= Deadline + 5 * StepTicks
  <2>1. Phase
    BY <1>3 DEF TimerInv
  <2>2. CASE pc \in Main \ InDelay
    BY <1>1, <2>1, <2>2, Points DEF Phase, Working, InDelay
  <2>3. CASE pc \in {ArmLow, ArmHigh, SampleTicks}
    BY <1>1, <2>1, <2>3, Points DEF Phase, Arming, InDelay
  <2>4. CASE pc = Spin
    <3>1. delays <= Start /\ (Sleeping \/ Woken(4))
      BY <2>1, <2>4 DEF Phase, InDelay
    <3>2. timer_ticks \in {delays, delays + 1} /\ Value(mtime) <= Deadline + 5 * StepTicks
      BY <1>1, <3>1 DEF Sleeping, Woken
    <3> QED BY <2>4, <3>1, <3>2 DEF InDelay
  <2>5. CASE pc \in IsrPcs
    <3>1. delays <= Start /\ Handling
      BY <2>1, <2>5 DEF Phase
    <3>2. timer_ticks \in {delays, delays + 1} /\ Value(mtime) <= Deadline + 5 * StepTicks
      BY <1>1, <2>5, <3>1, Points DEF Handling, Woken
    <3> QED BY <2>5, <3>1, <3>2, Points
  <2> QED BY <1>2, <2>2, <2>3, <2>4, <2>5 DEF InDelay
<1>4. ASSUME Fits
      PROVE  /\ delays % WordSize = delays
             /\ timer_ticks = delays + 1 => (delays + 1) % WordSize = delays + 1
  <2>1. delays <= Start + 1
    BY <1>4 DEF TimerInv, Phase
  <2> QED BY <1>1, <1>3, <1>4, <2>1
<1>5. OneWakeUpPerDelay
  BY <1>3, <1>4 DEF OneWakeUpPerDelay
<1>6. ReturnsInTime
  BY <1>3 DEF ReturnsInTime
<1> QED BY <1>5, <1>6

-----------------------------------------------------------------------------
(* Theorems                                                                *)

\* The strengthened invariant holds of every behaviour.
THEOREM QueueInvInvariant == Spec => []QueueInv
BY InitQueueInv, StepQueueInv, PTL DEF Spec

\* Between its indices key_queue holds the keys accepted and not yet used, in
\* order, whatever the size of the ring and however far the indices have run.
THEOREM RingCorrect == Spec => []RingIsFifo
<1>1. QueueInv => RingIsFifo
  BY DEF QueueInv
<1> QED BY <1>1, QueueInvInvariant, PTL

\* last_pushed_key is the newest key that waits: auto-repeat is filtered, a key
\* pressed again after its use is not.
THEOREM FilterCorrect == Spec => []RepeatsFiltered
<1>1. QueueInv => RepeatsFiltered
  BY DEF QueueInv
<1> QED BY <1>1, QueueInvInvariant, PTL

\* The strengthened invariant of the machine, and with it that of the timer,
\* hold of every behaviour.
THEOREM MachineInvariant == Spec => [](MachineInv /\ TimerInv)
<1>1. Init => MachineInv /\ TimerInv
  BY InitMachine, InitTimer
<1>2. (MachineInv /\ TimerInv) /\ [Next]_vars => (MachineInv /\ TimerInv)'
  BY StepMachine, StepTimer
<1> QED BY <1>1, <1>2, PTL DEF Spec

\* Registers, indices, queues and program points are well formed, for every size
\* of word and ring: no index leaves the ring, the pc is a point of the program.
THEOREM TypeCorrect == Spec => []TypeOK
BY MachineInvariant, MachineTypes, PTL

\* The handler is not interrupted, and goes back to the program, in M-mode and
\* with interrupts on; while the deadline fits, to the loop of delay.
THEOREM OnlyTheWait == Spec => []InterruptsOnlyTheWait
<1>1. MachineInv /\ TimerInv => InterruptsOnlyTheWait
  <2> DEFINE here == [csr |-> csr, prv |-> prv, pc |-> pc]
             back == Mret(here)
  <2> SUFFICES ASSUME MachineInv, TimerInv, pc \in IsrPcs
               PROVE  /\ ~GlobalInterruptEnable(here)
                      /\ back.prv = PRV_M /\ GlobalInterruptEnable(back)
                      /\ back.pc \in Draw .. GameOver
                      /\ Fits => back.pc = Spin
    BY DEF InterruptsOnlyTheWait
  <2>1. CoreInv
    BY DEF MachineInv
  <2>2. prv = PRV_M /\ 3 \notin csr.mstatus /\ csr.mepc \in Enabled
    BY <2>1, Points DEF CoreInv
  <2>3. back.prv = PRV_M /\ 3 \in back.csr.mstatus /\ back.pc = csr.mepc
    BY <2>1, Returned
  <2>4. ~GlobalInterruptEnable(here)
    BY <2>2 DEF GlobalInterruptEnable, MSTATUS_MIE
  <2> HIDE DEF back
  <2>5. GlobalInterruptEnable(back)
    BY <2>3 DEF GlobalInterruptEnable, MSTATUS_MIE
  <2>6. Fits => csr.mepc = Spin
    BY DEF TimerInv, Phase, Handling
  <2> QED BY <2>2, <2>3, <2>4, <2>5, <2>6 DEF Enabled
<1> QED BY <1>1, MachineInvariant, PTL

\* timer_isr runs once for each delay, as long as the deadline fits.
THEOREM WakesOnce == Spec => []OneWakeUpPerDelay
BY MachineInvariant, TicksAreDelays, PTL

\* No wake-up is lost: as long as the deadline fits, a wait ends within the time
\* of the handler.
THEOREM InTime == Spec => []ReturnsInTime
BY MachineInvariant, TicksAreDelays, PTL

\* delay never returns before its deadline, as long as that fits.
THEOREM NeverEarly == Spec => NoEarlyReturn
<1>1. MachineInv /\ TimerInv /\ [Next]_vars
        => [delays' # delays /\ Fits => Value(mtime) >= Deadline]_vars
  <2> SUFFICES ASSUME MachineInv, TimerInv, Next, delays' # delays, Fits
               PROVE  Value(mtime) >= Deadline
    BY DEF vars, sleep
  <2>1. DelayReturns
    BY DEF Next, Program, Type, TickQuiet, TickInterrupt, Tick, BootStep, DrawStep, KbHitStep,
           GetCharStep, PushKeyStep, LogicStep, ReadTimeStep, ArmLowStep, ArmHighStep,
           SampleTicksStep, SpinStep, GameOverStep, IsrCounts, IsrMasksLow, IsrMasksHigh,
           IsrReturns, Stopped, vars, sleep
  <2> QED BY <2>1, TimerWaiting
<1> QED BY <1>1, MachineInvariant, PTL DEF Spec, NoEarlyReturn
=============================================================================
