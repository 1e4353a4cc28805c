----------------------------- MODULE MCTrapUnit -----------------------------
(***************************************************************************)
(* Small instances of TrapUnit.  Software runs at pc 0, the machine and     *)
(* supervisor handlers at pcs 1 and 2.                                      *)
(***************************************************************************)
EXTENDS TrapUnit, TLC

Vectors == [ZeroCsr EXCEPT !.mtvec = 1, !.stvec = 2]

\* What boot code has set up when the software of interest starts: which
\* interrupts are enabled and what is delegated.
Boot(mie, mideleg, medeleg) ==
  [csr |-> [Vectors EXCEPT !.mie = mie, !.mideleg = mideleg, !.medeleg = medeleg],
   prv |-> PRV_M, pc |-> 0]

DelegatingBoots == {Boot({1, 3, 7}, {1, 3, 7}, {8, 13})}
MCBoots == {Boot({1, 3, 7}, {}, {})} \cup DelegatingBoots

MCFaults == {MCAUSE_LOAD_PAGE_FAULT}

Write(name, data) == [name |-> name, data |-> data]

\* Enabling and disabling at both levels, choosing where MRET goes, the enables
\* that S-mode can reach, and the two software-writable pending bits, each
\* written with all bits set too.
MCWrites ==
  {Write("mstatus", {3}), Write("mstatus", {1, 11}),
   Write("sstatus", {1, 3, 11, 12}), Write("sie", {}),
   Write("mip", {}), Write("mip", 0..11), Write("sip", {}), Write("sip", 0..11)}

MCCodePcs == 0..2
=============================================================================
