------------------------------ MODULE MCSnake ------------------------------
(***************************************************************************)
(* An instance of the snake program: words small enough for the low half   *)
(* of mtime to run over, and a ring small enough to fill.                  *)
(***************************************************************************)
EXTENDS Snake, TLC

\* Well past the point where the deadline no longer fits one word.
MCHorizon == [lo |-> 2, hi |-> 1]

\* Keys are only compared.
Symmetry == Permutations(Key)
=============================================================================
