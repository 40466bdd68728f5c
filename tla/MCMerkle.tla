------------------------------- MODULE MCMerkle -------------------------------
(***************************************************************************)
(* Small instances of the four Merkle distributors for TLC: two trees with  *)
(* two roots each, one of which lowers an amount of the one before.         *)
(***************************************************************************)
EXTENDS MerkleDistributors

CONSTANTS u1, u2, g1, g2, a1, a2, b1, b2

MCLeaves ==
  [r \in {a1, a2, b1, b2} |->
     CASE r = a1 -> {<<g1, 1>>, <<u1, 1>>, <<u2, 2>>}
       [] r = a2 -> {<<g1, 1>>, <<u1, 2>>, <<u2, 1>>}
       [] r = b1 -> {<<g2, 1>>, <<u1, 1>>}
       [] r = b2 -> {<<g2, 1>>, <<u1, 2>>}]
==============================================================================
