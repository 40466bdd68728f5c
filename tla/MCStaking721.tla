---------------------------- MODULE MCStaking721 ----------------------------
(* Two users with a token each, which may change hands, and a pot of rewards. *)
EXTENDS Staking721Accrual, TLC

CONSTANTS u1, u2, t1, t2

MCUser == {u1, u2}
MCToken == {t1, t2}
MCInitialOwner == (t1 :> u1 @@ t2 :> u2)
MCTimeUnits == {0, 1}
MCRewards == {0, 1}
MCAmounts == {1}

\* Everything may be said of u2 and t2 that is said of u1 and t1.
Swap == {(u1 :> u2 @@ u2 :> u1 @@ t1 :> t2 @@ t2 :> t1)}
=============================================================================
