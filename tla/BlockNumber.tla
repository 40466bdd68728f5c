----------------------------- MODULE BlockNumber -----------------------------
(***************************************************************************)
(* The number of the block a transaction is in, which passes without one.   *)
(***************************************************************************)
EXTENDS Integers

CONSTANT MaxBlock    \* bound on the block number

VARIABLE block

PassBlock ==
  /\ block < MaxBlock
  /\ block' = block + 1
=============================================================================
