-------------------------------- MODULE Sums --------------------------------
(***************************************************************************)
(* The two kinds of sum the contracts keep: the running total of a loop     *)
(* over consecutive indices (the constructor of TokenDistributor, its       *)
(* _updatePool, the condition list of the Staking extensions) and the total *)
(* of a mapping over a finite set of accounts.  Both are written without    *)
(* recursive operators, so that SumTheorems can prove facts about them.     *)
(***************************************************************************)
EXTENDS Integers, FiniteSets

\* PartialSum(f, n)[k] = f[0] + ... + f[k-1]: the accumulator of
\* `for (i = 0; i < n; i++) sum += f[i]` after k rounds.
PartialSum(f, n) ==
  LET s[k \in 0..n] == IF k = 0 THEN 0 ELSE s[k - 1] + f[k - 1] IN s

\* SafeMath.tryAdd, its caller keeping a where the sum would exceed max.
TryAdd(a, b, max) == IF a + b <= max THEN a + b ELSE a

\* CheckedSum(f, n, max)[k]: the same accumulator when the loop adds so.
CheckedSum(f, n, max) ==
  LET s[k \in 0..n] == IF k = 0 THEN 0 ELSE TryAdd(s[k - 1], f[k - 1], max) IN s

\* The unit tokens a mapping f : S -> Nat gives to the members of S, each
\* tagged with its owner, so that the total is a number of elements.
Units(f, S) == UNION {{u} \X (1..f[u]) : u \in S}

\* The sum of f[u] for u in the finite set S.
SumOver(f, S) == Cardinality(Units(f, S))
=============================================================================
