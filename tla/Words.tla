------------------------------- MODULE Words -------------------------------
(***************************************************************************)
(* The 32-bit words of the machine, as numbers modulo WordSize.            *)
(***************************************************************************)
EXTENDS Integers

CONSTANT WordSize   \* the number of words: 2^32 in the code

ASSUME WordSizeAssumption == WordSize \in Nat \ {0, 1}

Word == 0 .. WordSize - 1
Ones == WordSize - 1
=============================================================================
