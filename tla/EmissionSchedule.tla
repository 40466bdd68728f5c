-------------------------- MODULE EmissionSchedule --------------------------
(***************************************************************************)
(* What a token with a scheduled emission promises: at every block the      *)
(* supply is at most what the schedule allows by then, and no token is ever *)
(* taken back.                                                              *)
(***************************************************************************)
EXTENDS Integers

CONSTANT Allowance    \* block number -> the largest supply allowed by then

VARIABLES block, supply

Init ==
  /\ block \in DOMAIN Allowance
  /\ supply \in 0..Allowance[block]

\* A transaction issues any amount the schedule has left.
Issue ==
  /\ supply' > supply
  /\ supply' <= Allowance[block]
  /\ block' = block

NextBlock ==
  /\ block' = block + 1
  /\ block' \in DOMAIN Allowance
  /\ supply' = supply

Next == Issue \/ NextBlock

Spec == Init /\ [][Next]_<<block, supply>>
=============================================================================
