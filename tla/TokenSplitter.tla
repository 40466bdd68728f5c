--------------------------- MODULE TokenSplitter ---------------------------
(***************************************************************************)
(* TokenSplitter.sol: LOOKS arrive over time (the part of the emission that *)
(* the TokenDistributor mints for the others) and each account may release  *)
(* its fraction of all that ever arrived, less what it was sent before.     *)
(***************************************************************************)
EXTENDS Sums

CONSTANTS
  Account,
  ctorAccounts,      \* _accounts, in order; numbered from 0
  ctorShares,        \* _shares
  NUMBER_ACCOUNTS,   \* _accounts.length
  Receipts,          \* amounts in which LOOKS arrive
  MaxReceived        \* bound on the LOOKS that arrive

ASSUME SplitterAssumption ==
  /\ IsFiniteSet(Account)
  /\ NUMBER_ACCOUNTS \in Nat \ {0}
  /\ ctorAccounts \in [0..(NUMBER_ACCOUNTS - 1) -> Account]
  /\ ctorShares \in [0..(NUMBER_ACCOUNTS - 1) -> Nat \ {0}]
  /\ Receipts \subseteq Nat \ {0}
  /\ MaxReceived \in Nat

VARIABLES
  accountShares,   \* accountInfo[a].shares
  splitter         \* tokensDistributedToAccount, totalTokensDistributed and
                   \* the LOOKS held

splitterVars == <<accountShares, splitter>>

\* currentShares after the constructor's loop.
TOTAL_SHARES == PartialSum(ctorShares, NUMBER_ACCOUNTS)[NUMBER_ACCOUNTS]

\* An account listed twice keeps the shares it is given last.
Listed(a) == {i \in 0..(NUMBER_ACCOUNTS - 1) : ctorAccounts[i] = a}
LastListed(a) == CHOOSE i \in Listed(a) : \A j \in Listed(a) : j <= i

SplitterInit ==
  /\ accountShares = [a \in Account |-> IF Listed(a) = {} THEN 0 ELSE ctorShares[LastListed(a)]]
  /\ splitter = [distributed |-> [a \in Account |-> 0], total |-> 0, balance |-> 0]
-----------------------------------------------------------------------------
TotalTokensReceived(s) == s.balance + s.total

\* Mutant: what was already released is not part of what was received.
PendingOfBalance(s, a) ==
  (s.balance * accountShares[a]) \div TOTAL_SHARES - s.distributed[a]

\* What the account a may release in state s of the splitter.
PendingRewards(s, a) ==
  (TotalTokensReceived(s) * accountShares[a]) \div TOTAL_SHARES - s.distributed[a]

\* Every require, and the checked subtraction, of releaseTokens.
Releasable(s, a) ==
  /\ accountShares[a] > 0
  /\ PendingRewards(s, a) \in 1..s.balance

Released(s, a) ==
  [distributed |-> [s.distributed EXCEPT ![a] = @ + PendingRewards(s, a)],
   total       |-> s.total + PendingRewards(s, a),
   balance     |-> s.balance - PendingRewards(s, a)]

ReleaseTokens(a) ==
  /\ Releasable(splitter, a)
  /\ splitter' = Released(splitter, a)
  /\ UNCHANGED accountShares

\* Mutant: what was distributed does not follow the shares.
UpdateSharesOwnerFresh(new, current) ==
  /\ accountShares[current] > 0
  /\ accountShares[new] = 0
  /\ accountShares' = [accountShares EXCEPT ![new] = accountShares[current], ![current] = 0]
  /\ splitter' = [splitter EXCEPT !.distributed[current] = 0]

UpdateSharesOwner(new, current) ==
  /\ accountShares[current] > 0
  /\ accountShares[new] = 0
  /\ accountShares' = [accountShares EXCEPT ![new] = accountShares[current], ![current] = 0]
  /\ splitter' = [splitter EXCEPT !.distributed[new] = splitter.distributed[current],
                                  !.distributed[current] = 0]

Receive(n) ==
  /\ TotalTokensReceived(splitter) + n <= MaxReceived
  /\ splitter' = [splitter EXCEPT !.balance = @ + n]
  /\ UNCHANGED accountShares

SplitterNext ==
  \/ \E a \in Account : ReleaseTokens(a)
  \/ \E new, current \in Account : UpdateSharesOwner(new, current)
  \/ \E n \in Receipts : Receive(n)

SplitterSpec == SplitterInit /\ [][SplitterNext]_splitterVars
-----------------------------------------------------------------------------
\* calculatePendingRewards of the splitter.
CalculatePendingLooks(a) ==
  IF accountShares[a] = 0 THEN 0 ELSE PendingRewards(splitter, a)

(* Properties *)

\* What the accounts may still release is always there: whatever was released
\* in whatever order, rounded down each time, and whoever took over whose
\* shares, no release can take what another account is due.
ReleasesCovered ==
  SumOver([a \in Account |-> CalculatePendingLooks(a)], Account) <= splitter.balance

\* What an account may release never falls but by its own release or by
\* passing its shares on, which passes on exactly what they are still due.
DueKept ==
  [][\A a \in Account :
       \/ CalculatePendingLooks(a)' >= CalculatePendingLooks(a)
       \/ accountShares'[a] > 0 /\ splitter'.distributed[a] > splitter.distributed[a]
       \/ /\ accountShares'[a] = 0
          /\ \E new \in Account \ {a} :
               /\ accountShares[new] = 0
               /\ accountShares'[new] = accountShares[a]
               /\ CalculatePendingLooks(new)' = CalculatePendingLooks(a)]_splitterVars

=============================================================================
