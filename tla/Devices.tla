------------------------------ MODULE Devices ------------------------------
(***************************************************************************)
(* The memory-mapped devices of the memory system, as functions on their   *)
(* registers: the CLINT timer and the UART with the host keyboard behind   *)
(* it.  MemorySystem.tla routes addresses to them, Snake.tla runs a        *)
(* program on them.                                                        *)
(***************************************************************************)
EXTENDS Words, Sequences

-----------------------------------------------------------------------------
(* CLINT.  A 64-bit register is its two words.                             *)

Counter == [lo : Word, hi : Word]
Zero    == [lo |-> 0, hi |-> 0]

\* Defect for the mutant runs: the low words are not compared.
HighAtLeast(a, b) == a.hi >= b.hi

AtLeast(a, b) == a.hi > b.hi \/ (a.hi = b.hi /\ a.lo >= b.lo)

\* mtime++, modulo 2^64.
Incremented(mtime) ==
  [lo |-> (mtime.lo + 1) % WordSize,
   hi |-> IF mtime.lo = Ones THEN (mtime.hi + 1) % WordSize ELSE mtime.hi]

\* Defect for the mutant runs: the timer fires only in the very tick.
PendingWhenEqual(mtime, mtimecmp) == mtime = mtimecmp /\ mtimecmp # Zero

TimerPending(mtime, mtimecmp) == AtLeast(mtime, mtimecmp) /\ mtimecmp # Zero

\* Software replaces one word of mtimecmp at a time.
WithLow(mtimecmp, data)  == [mtimecmp EXCEPT !.lo = data]
WithHigh(mtimecmp, data) == [mtimecmp EXCEPT !.hi = data]

-----------------------------------------------------------------------------
(* UART.  One character is held in front of what the host has not handed   *)
(* over yet; NoKey is what the data register reads when there is none.     *)

NoKey == "none"
Uarts(Key) == {u \in [full : BOOLEAN, held : Key \cup {NoKey}, host : Seq(Key)] :
                 u.full => u.held \in Key}

NoInput == [full |-> FALSE, held |-> NoKey, host |-> <<>>]

Typed(uart, key) == [uart EXCEPT !.host = Append(@, key)]

\* Defect for the mutant runs: the character held is not looked at.
PolledAgain(uart) ==
  IF uart.host = <<>>
    THEN uart
    ELSE [full |-> TRUE, held |-> Head(uart.host), host |-> Tail(uart.host)]

\* check_host_keyboard.
Polled(uart) ==
  IF uart.full \/ uart.host = <<>>
    THEN uart
    ELSE [full |-> TRUE, held |-> Head(uart.host), host |-> Tail(uart.host)]

\* The data register, and the ready bit of the status register.
ReadData(uart)  == IF uart.full THEN uart.held ELSE NoKey
DataTaken(uart) == [uart EXCEPT !.full = FALSE]
DataReady(uart) == uart.full

\* Every character on its way to the program, oldest first.
Waiting(uart) == (IF uart.full THEN <<uart.held>> ELSE <<>>) \o uart.host
=============================================================================
