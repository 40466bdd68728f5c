----------------------- MODULE TokenDistributorBacking -----------------------
(***************************************************************************)
(* What backs the stakes of TokenDistributor.  A history variable counts    *)
(* the settlements: each rounds a debt down and so may leave its account up *)
(* to one unit of the smallest coin, less one fraction, that was never      *)
(* minted for it.                                                           *)
(***************************************************************************)
EXTENDS TokenDistributor

CONSTANT MaxSettlements    \* bound on the history variable

VARIABLE settlements       \* transactions that changed an account's stake

BackingInit == Init /\ settlements = 0

BackingNext ==
  /\ Next
  /\ settlements' = IF amount' = amount THEN settlements ELSE settlements + 1
  /\ settlements' <= MaxSettlements

BackingSpec == BackingInit /\ [][BackingNext]_<<vars, settlements>>

\* What u is owed beyond its stake, in fractions of PRECISION_FACTOR.
Credit(u) == amount[u] * accTokenPerShare - PRECISION_FACTOR * rewardDebt[u]

\* The LOOKS held cover every stake and every reward not yet compounded, but
\* for less than one unit per settlement, also when the token refused to mint
\* a reward: no sequence of deposits, harvests and withdrawals makes the
\* distributor owe what it does not have.
BackedUpToRounding ==
  SumOver([u \in User |-> Credit(u)], User) + PRECISION_FACTOR * totalAmountStaked
    <= PRECISION_FACTOR * held + (PRECISION_FACTOR - 1) * settlements
=============================================================================
