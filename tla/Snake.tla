------------------------------- MODULE Snake -------------------------------
(***************************************************************************)
(* The repository's C program on the machine: the snake game polls the     *)
(* UART for keys, keeps them in a ring, and sleeps between frames on the   *)
(* CLINT timer and its interrupt.  Composes the devices, the trap logic    *)
(* and the program.                                                        *)
(*                                                                         *)
(* A step is one access to a device or to what the interrupt handler       *)
(* shares, with the computation around it.  Ticks fall between steps, at   *)
(* most StepTicks of them before the next, and an interrupt with them.     *)
(* (The pc that the core saves for an interrupt is another question: here  *)
(* it is the next step.)  Of the game itself only game_over is kept.       *)
(***************************************************************************)
EXTENDS Devices, Traps

CONSTANTS
  Key,         \* the characters typed
  RingSize,    \* the size of key_queue
  Cycles,      \* the argument of delay
  StepTicks,   \* the most ticks a step takes
  MaxKeys,     \* bound: the characters typed
  Horizon      \* bound: the last value of mtime, where the run ends

ASSUME SnakeAssumption ==
  /\ NoKey \notin Key
  /\ RingSize \in Nat \ {0, 1}
  /\ Cycles \in Word \ {0} /\ StepTicks \in Nat \ {0}
  /\ Cycles > 3 * StepTicks
  /\ MaxKeys \in Nat
  \* At 2^64 - 1 even the masked comparison holds.
  /\ Horizon \in Counter \ {[lo |-> Ones, hi |-> Ones]}

\* The program points.
Boot == 0    \* and 1 and 2: three CSR writes
Draw == 3
KbHit == 4
GetChar == 5
PushKey == 6
Logic == 7
ReadTime == 8
ArmLow == 9
ArmHigh == 10
SampleTicks == 11
Spin == 12
GameOver == 13
Isr == 20    \* and 21, 22 and 23, the mret

Main  == 0 .. 13
IsrPcs == 20 .. 23

VARIABLES
  mtime, mtimecmp, uart,                          \* the devices
  csr, prv, pc,                                   \* the core
  elapsed,                                        \* ticks since the last step
  key_queue, q_head, q_tail, last_pushed_key, k,  \* the keys; k is push_key's argument
  timer_ticks, now, target,                       \* the timer
  game_over, halted,
  typed, accepted,       \* history: how many keys were typed; which are in the ring
  armed, delays          \* history: mtime as the delay read it; delays completed

devices == <<mtime, mtimecmp, uart>>
core    == <<csr, prv, pc>>
ring    == <<key_queue, q_head, q_tail, last_pushed_key, accepted>>
sleep   == <<timer_ticks, now, target, armed, delays>>
vars == <<devices, core, elapsed, ring, k, sleep, game_over, halted, typed>>

Slots == 0 .. RingSize - 1

\* The globals of the C program, the machine after reset.
Init ==
  /\ mtime = Zero /\ mtimecmp = Zero /\ uart = NoInput
  /\ csr = ZeroCsr /\ prv = PRV_M /\ pc = Boot
  /\ elapsed = 0
  /\ key_queue = [i \in Slots |-> NoKey] /\ q_head = 0 /\ q_tail = 0
  /\ last_pushed_key = NoKey /\ k = NoKey
  /\ timer_ticks = 0 /\ now = 0 /\ target = 0
  /\ game_over = FALSE /\ halted = FALSE
  /\ typed = 0 /\ accepted = <<>>
  /\ armed = Zero /\ delays = 0

-----------------------------------------------------------------------------
(* The host and the clock                                                  *)

Type(key) ==
  /\ ~halted /\ typed < MaxKeys
  /\ typed' = typed + 1
  /\ uart' = Typed(uart, key)
  /\ UNCHANGED <<mtime, mtimecmp, core, elapsed, ring, k, sleep, game_over, halted>>

Becomes(c) == csr' = c.csr /\ prv' = c.prv /\ pc' = c.pc

Ticked == [csr |-> HwSetMtip(csr, TimerPending(mtime', mtimecmp)), prv |-> prv, pc |-> pc]

Tick ==
  /\ ~halted /\ elapsed < StepTicks
  /\ ~AtLeast(mtime, Horizon)
  /\ mtime' = Incremented(mtime)
  /\ elapsed' = elapsed + 1
  /\ UNCHANGED <<mtimecmp, uart, ring, k, sleep, game_over, halted, typed>>

TickQuiet     == Tick /\ ~InterruptDue(Ticked) /\ Becomes(Ticked)
TickInterrupt == Tick /\ InterruptDue(Ticked) /\ Becomes(TakeInterrupt(Ticked))

-----------------------------------------------------------------------------
(* Steps.  Every step that reads memory polls the keyboard.                *)

Goto(here, next) ==
  /\ ~halted /\ pc = here
  /\ pc' = next
  /\ elapsed' = 0
  /\ UNCHANGED <<prv, mtime, typed>>

Polls == uart' = Polled(uart)

\* _start: mtvec, then MTIE, then MIE.
BootWrites == <<[name |-> "mtvec", function |-> "rw", data |-> Isr],
                [name |-> "mie", function |-> "rs", data |-> MIP_MTIP],
                [name |-> "mstatus", function |-> "rs", data |-> MSTATUS_MIE]>>
BootStep ==
  /\ pc < Draw
  /\ Goto(pc, pc + 1)
  /\ LET w == BootWrites[pc + 1]
     IN  csr' = WriteCsr(csr, w.name,
                         CsrWriteValue(w.function, ReadCsr(csr, w.name), w.data, FALSE))
  /\ UNCHANGED <<mtimecmp, uart, ring, k, sleep, game_over, halted>>

\* draw() prints, and looks at the status register before each character.
DrawStep ==
  /\ Goto(Draw, KbHit)
  /\ Polls
  /\ UNCHANGED <<mtimecmp, csr, ring, k, sleep, game_over, halted>>

KbHitStep ==
  /\ Goto(KbHit, IF DataReady(Polled(uart)) THEN GetChar ELSE Logic)
  /\ Polls
  /\ UNCHANGED <<mtimecmp, csr, ring, k, sleep, game_over, halted>>

GetCharStep ==
  /\ Goto(GetChar, PushKey)
  /\ k' = ReadData(Polled(uart))
  /\ uart' = DataTaken(Polled(uart))
  /\ UNCHANGED <<mtimecmp, csr, ring, sleep, game_over, halted>>

\* Defect for the mutant runs: the index is not reduced.
SlotAfter(i) == i + 1

\* (i + 1) % 16
NextSlot(i) == IF i + 1 = RingSize THEN 0 ELSE i + 1

\* Defect for the mutant runs: the ring may be filled up.
NeverFull(tail, head) == FALSE

RingFull(tail, head) == NextSlot(tail) = head

PushKeyStep ==
  /\ Goto(PushKey, KbHit)
  /\ Polls
  /\ IF k = last_pushed_key \/ RingFull(q_tail, q_head)
       THEN UNCHANGED ring
       ELSE /\ key_queue' = [key_queue EXCEPT ![q_tail] = k]
            /\ q_tail' = NextSlot(q_tail)
            /\ last_pushed_key' = k
            /\ accepted' = Append(accepted, k)
            /\ UNCHANGED q_head
  /\ UNCHANGED <<mtimecmp, csr, k, sleep, game_over, halted>>

\* Defect for the mutant runs: the last key is remembered when it is popped.
LastKept(head, tail, last) == last

LastAfterPop(head, tail, last) == IF head = tail THEN NoKey ELSE last

PopKey ==
  IF q_head = q_tail
    THEN UNCHANGED ring
    ELSE /\ q_head' = NextSlot(q_head)
         /\ last_pushed_key' = LastAfterPop(q_head', q_tail, last_pushed_key)
         /\ accepted' = Tail(accepted)
         /\ UNCHANGED <<key_queue, q_tail>>

\* The rest of logic(): the move may hit something, the key may be 'q'.
LogicStep ==
  /\ Goto(Logic, ReadTime)
  /\ Polls
  /\ PopKey
  /\ game_over' \in {game_over, TRUE}
  /\ UNCHANGED <<mtimecmp, csr, k, sleep, halted>>

-----------------------------------------------------------------------------
(* delay                                                                   *)

ReadTimeStep ==
  /\ Goto(ReadTime, ArmLow)
  /\ Polls
  /\ now' = mtime.lo
  /\ armed' = mtime
  /\ UNCHANGED <<mtimecmp, csr, ring, k, timer_ticks, target, delays, game_over, halted>>

ArmLowStep ==
  /\ Goto(ArmLow, ArmHigh)
  /\ mtimecmp' = WithLow(mtimecmp, (now + Cycles) % WordSize)
  /\ UNCHANGED <<uart, csr, ring, k, sleep, game_over, halted>>

ArmHighStep ==
  /\ Goto(ArmHigh, SampleTicks)
  /\ mtimecmp' = WithHigh(mtimecmp, 0)
  /\ UNCHANGED <<uart, csr, ring, k, sleep, game_over, halted>>

SampleTicksStep ==
  /\ Goto(SampleTicks, Spin)
  /\ Polls
  /\ target' = (timer_ticks + 1) % WordSize
  /\ UNCHANGED <<mtimecmp, csr, ring, k, timer_ticks, now, armed, delays, game_over, halted>>

SpinStep ==
  /\ timer_ticks < target
  /\ Goto(Spin, Spin)
  /\ Polls
  /\ UNCHANGED <<mtimecmp, csr, ring, k, sleep, game_over, halted>>

DelayReturns ==
  /\ timer_ticks >= target
  /\ Goto(Spin, IF game_over THEN GameOver ELSE Draw)
  /\ Polls
  /\ delays' = delays + 1
  /\ UNCHANGED <<mtimecmp, csr, ring, k, timer_ticks, now, target, armed, game_over, halted>>

\* The last prints, and EBREAK.
GameOverStep ==
  /\ Goto(GameOver, GameOver)
  /\ Polls
  /\ halted' = TRUE
  /\ UNCHANGED <<mtimecmp, csr, ring, k, sleep, game_over>>

-----------------------------------------------------------------------------
(* timer_isr: count, mask the timer by both halves, return                 *)

IsrCounts ==
  /\ Goto(Isr, Isr + 1)
  /\ Polls
  /\ timer_ticks' = (timer_ticks + 1) % WordSize
  /\ UNCHANGED <<mtimecmp, csr, ring, k, now, target, armed, delays, game_over, halted>>

IsrMasksLow ==
  /\ Goto(Isr + 1, Isr + 2)
  /\ mtimecmp' = WithLow(mtimecmp, Ones)
  /\ UNCHANGED <<uart, csr, ring, k, sleep, game_over, halted>>

IsrMasksHigh ==
  /\ Goto(Isr + 2, Isr + 3)
  /\ mtimecmp' = WithHigh(mtimecmp, Ones)
  /\ UNCHANGED <<uart, csr, ring, k, sleep, game_over, halted>>

IsrReturns ==
  /\ ~halted /\ pc = Isr + 3
  /\ Becomes(Mret([csr |-> csr, prv |-> prv, pc |-> pc]))
  /\ elapsed' = 0
  /\ UNCHANGED <<devices, ring, k, sleep, game_over, halted, typed>>

-----------------------------------------------------------------------------

Stopped == (halted \/ AtLeast(mtime, Horizon)) /\ UNCHANGED vars

Program == \/ BootStep \/ DrawStep \/ KbHitStep \/ GetCharStep \/ PushKeyStep \/ LogicStep
           \/ ReadTimeStep \/ ArmLowStep \/ ArmHighStep \/ SampleTicksStep
           \/ SpinStep \/ DelayReturns \/ GameOverStep
           \/ IsrCounts \/ IsrMasksLow \/ IsrMasksHigh \/ IsrReturns

Next == (\E key \in Key : Type(key)) \/ TickQuiet \/ TickInterrupt \/ Program \/ Stopped

Spec == Init /\ [][Next]_vars

-----------------------------------------------------------------------------
(* Properties                                                              *)

\* Registers, indices and queues are well formed.
TypeOK ==
  /\ mtime \in Counter /\ mtimecmp \in Counter /\ uart \in Uarts(Key)
  /\ csr \in CsrFile /\ prv \in SUBSET {0, 1} /\ pc \in Main \cup IsrPcs
  /\ elapsed \in 0 .. StepTicks
  /\ key_queue \in [Slots -> Key \cup {NoKey}]
  /\ q_head \in Slots /\ q_tail \in Slots
  /\ last_pushed_key \in Key \cup {NoKey} /\ k \in Key \cup {NoKey}
  /\ timer_ticks \in Word /\ now \in Word /\ target \in Word
  /\ game_over \in BOOLEAN /\ halted \in BOOLEAN
  /\ typed \in Nat /\ accepted \in Seq(Key)
  /\ armed \in Counter /\ delays \in Nat

\* The slot i behind the head.
SlotAt(i) == IF q_head + i < RingSize THEN q_head + i ELSE q_head + i - RingSize

\* key_queue between q_head and q_tail is a first-in first-out queue: pop_key
\* returns the oldest key that push_key accepted, none twice and none lost,
\* however the indices have run around.
RingIsFifo ==
  /\ Len(accepted) < RingSize
  /\ q_tail = SlotAt(Len(accepted))
  /\ \A i \in 1 .. Len(accepted) : key_queue[SlotAt(i - 1)] = accepted[i]

\* Auto-repeat is filtered and nothing else: last_pushed_key is the newest key
\* that waits, so a key pressed again after it was used is taken again, and no
\* two neighbours in the queue are equal.
RepeatsFiltered ==
  /\ last_pushed_key = IF accepted = <<>> THEN NoKey ELSE accepted[Len(accepted)]
  /\ \A i \in 1 .. Len(accepted) - 1 : accepted[i] # accepted[i + 1]

\* Time as one number.
Value(c) == c.hi * WordSize + c.lo
Deadline == Value(armed) + Cycles

\* The deadline of the delay fits the low word of mtimecmp, which is all that
\* delay sets.
Fits == Deadline < WordSize

InDelay == {ArmLow, ArmHigh, SampleTicks, Spin}

\* One interrupt for each delay: the handler masks the timer before it returns
\* and the pending bit follows, so timer_ticks counts the delays, plus the
\* interrupt of the one that is under way.  (Once a deadline no longer fits, it
\* lies in the past as soon as it is written: the interrupt falls between the
\* steps of delay, twice or before the sample.)
OneWakeUpPerDelay ==
  Fits =>
    /\ pc \in Main \ InDelay => timer_ticks = delays % WordSize
    /\ timer_ticks \in {delays % WordSize, (delays + 1) % WordSize}

\* A delay never returns early.
NoEarlyReturn == [][delays' # delays /\ Fits => Value(mtime) >= Deadline]_vars

\* And it does return: the wake-up is not lost between arming the timer and
\* sampling timer_ticks, nor in the wait, so a wait is over within the time
\* that the handler takes.
ReturnsInTime ==
  pc \in {Spin} \cup IsrPcs /\ Fits => Value(mtime) <= Deadline + 5 * StepTicks

\* Whatever it is that the timer interrupts, timer_isr is not interrupted in its
\* turn and its mret goes back to the program, in M-mode and with interrupts on,
\* or the next delay would never end.  And while deadlines fit it interrupts the
\* loop of delay only: drawing, the game and the ring of keys never share a
\* moment with the handler.
InterruptsOnlyTheWait ==
  LET here == [csr |-> csr, prv |-> prv, pc |-> pc]
      back == Mret(here)
  IN  pc \in IsrPcs =>
        /\ ~GlobalInterruptEnable(here)
        /\ back.prv = PRV_M /\ GlobalInterruptEnable(back)
        /\ back.pc \in Draw .. GameOver
        /\ Fits => back.pc = Spin
=============================================================================
