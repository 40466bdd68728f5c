------------------------ MODULE StakingAmountsProofs ------------------------
(***************************************************************************)
(* Theorems about Staking1155 and Staking20, for all users, ids, amounts,   *)
(* histories of conditions and sequences of calls: every stake is accounted *)
(* for, no second is paid twice or at a rate that was not in force,         *)
(* whenever an id left the defaults and whatever the tokens' decimals, and, *)
(* as long as the products of amounts, seconds and rates fit into a word,   *)
(* every settlement of Staking1155 succeeds.                                *)
(*                                                                          *)
(* The first part is about a list of conditions, a record of a staker and a *)
(* time, whichever contract's they are; the steps of Staking1155, and then  *)
(* those of Staking20, change one or another of them.                       *)
(***************************************************************************)
EXTENDS StakingAmounts, SumTheorems

\* The rates and the time units there may be.
Rates == Rewards \cup {defaultRewardsPerUnitTime}
Divisors == {d \in Nat \ {0} : SCALE % d = 0}

\* A condition set before the time n.
ConditionType(n) ==
  [timeUnit : Divisors, rewardsPerUnitTime : Nat, startTimestamp : 1..n,
   endTimestamp : 0..n]

StakerType == [conditionId : Nat, amount : Nat, time : Nat, unclaimed : 0..UINT_MAX]

\* The conditions of the list c follow one another without a gap up to the
\* time n, the last being open.
Chained(c, n) ==
  /\ n \in Nat \ {0}
  /\ c \in Seq(ConditionType(n)) /\ c # <<>>
  /\ \A i \in 1..(Len(c) - 1) :
       /\ c[i].endTimestamp = c[i + 1].startTimestamp
       /\ c[i].startTimestamp <= c[i].endTimestamp
  /\ c[Len(c)].endTimestamp = 0

\* The rates of the list c are among those that Staking1155 may have.
Rated(c) == \A i \in 1..Len(c) : c[i].rewardsPerUnitTime \in Rates

EndOf(c, n, i) == IF c[i + 1].endTimestamp # 0 THEN c[i + 1].endTimestamp ELSE n
StartOf(c, r, i) == IF i # r.conditionId THEN c[i + 1].startTimestamp ELSE r.time

\* The record r is in range of the list and not ahead of its condition.
Recorded(c, r, n) ==
  /\ r \in StakerType
  /\ r.conditionId \in 0..(Len(c) - 1)
  /\ r.time <= EndOf(c, n, r.conditionId)

\* The seconds of condition i that a settlement of r at n covers, their
\* product with amount and rate, and what _calculateRewards makes of it.
Span(c, r, n, i) == EndOf(c, n, i) - StartOf(c, r, i)
Product(c, r, n, i) == Span(c, r, n, i) * r.amount * c[i + 1].rewardsPerUnitTime
PartOf(c, r, n, i) ==
  IF i >= r.conditionId /\ Product(c, r, n, i) <= UINT_MAX
  THEN Product(c, r, n, i) \div c[i + 1].timeUnit ELSE 0
PartsOf(c, r, n) == [i \in 0..(Len(c) - 1) |-> PartOf(c, r, n, i)]
Calculated(c, r, n) == CheckedSum(PartsOf(c, r, n), Len(c), UINT_MAX)[Len(c)]

\* What it is worth, SCALE times and not rounded.
Worth(c, r, n, i) ==
  IF i >= r.conditionId THEN Product(c, r, n, i) * (SCALE \div c[i + 1].timeUnit) ELSE 0
Worths(c, r, n) == [i \in 0..(Len(c) - 1) |-> Worth(c, r, n, i)]

\* What r has earned since its last settlement, and what a second adds.
Earned(c, r, n) == PartialSum(Worths(c, r, n), Len(c))[Len(c)]
RateOf(c, r) ==
  r.amount * c[Len(c)].rewardsPerUnitTime * (SCALE \div c[Len(c)].timeUnit)

\* The list c whose last condition ends at n and is followed by another.
Followed(c, n, d, rate) ==
  Append([c EXCEPT ![Len(c)].endTimestamp = n],
         [timeUnit |-> d, rewardsPerUnitTime |-> rate, startTimestamp |-> n,
          endTimestamp |-> 0])

\* r as of n.
MarkedAt(c, r, n) == [r EXCEPT !.time = n, !.conditionId = Len(c) - 1]
-----------------------------------------------------------------------------
\* The rates are naturals, and so are the other bounds.
LEMMA Constants1155 ==
  /\ Rates \subseteq Nat /\ SCALE \in Nat \ {0} /\ UINT_MAX \in Nat /\ MaxTime \in Nat \ {0}
  /\ IsFiniteSet(User) /\ IsFiniteSet(Id) /\ StakeAmounts \subseteq Nat
BY Staking1155Assumption DEF Rates

\* The length of a list and the fields of its conditions.
LEMMA ChainedFacts ==
  ASSUME NEW c, NEW n, Chained(c, n)
  PROVE  /\ n \in Nat \ {0} /\ Len(c) \in Nat \ {0} /\ Len(c) - 1 \in 0..(Len(c) - 1)
         /\ \A i \in 1..Len(c) :
              /\ c[i] \in ConditionType(n)
              /\ c[i].timeUnit \in Nat \ {0} /\ SCALE % c[i].timeUnit = 0
              /\ c[i].rewardsPerUnitTime \in Nat
              /\ c[i].startTimestamp \in 1..n /\ c[i].endTimestamp \in 0..n
              /\ SCALE \div c[i].timeUnit \in Nat
<1> DEFINE C == ConditionType(n)
<1>1. n \in Nat \ {0} /\ c \in Seq(C) /\ c # <<>>
  BY DEF Chained
<1> HIDE DEF C
<1>2. Len(c) \in Nat \ {0} /\ Len(c) - 1 \in 0..(Len(c) - 1) /\ \A i \in 1..Len(c) : c[i] \in C
  <2>1. Len(c) \in Nat /\ \A i \in 1..Len(c) : c[i] \in C
    BY <1>1
  <2>2. Len(c) # 0
    BY <1>1
  <2> QED BY <2>1, <2>2
<1>3. ASSUME NEW i \in 1..Len(c)
      PROVE  /\ c[i] \in ConditionType(n)
             /\ c[i].timeUnit \in Nat \ {0} /\ SCALE % c[i].timeUnit = 0
             /\ c[i].rewardsPerUnitTime \in Nat
             /\ c[i].startTimestamp \in 1..n /\ c[i].endTimestamp \in 0..n
             /\ SCALE \div c[i].timeUnit \in Nat
  <2>1. c[i] \in ConditionType(n)
    BY <1>2 DEF C
  <2>2. /\ c[i].timeUnit \in Divisors /\ c[i].rewardsPerUnitTime \in Nat
        /\ c[i].startTimestamp \in 1..n /\ c[i].endTimestamp \in 0..n
    BY <2>1 DEF ConditionType
  <2>3. c[i].timeUnit \in Nat \ {0} /\ SCALE % c[i].timeUnit = 0
    BY <2>2 DEF Divisors
  <2>4. c[i].rewardsPerUnitTime \in Nat /\ SCALE \in Nat
    BY <2>2, Constants1155
  <2>5. SCALE \div c[i].timeUnit \in Nat
    BY <2>3, <2>4, DivNat
  <2> QED BY <2>1, <2>2, <2>3, <2>4, <2>5
<1> QED BY <1>1, <1>2, <1>3

\* The fields of a record.
LEMMA RecordedFacts ==
  ASSUME NEW c, NEW r, NEW n, Chained(c, n), Recorded(c, r, n)
  PROVE  /\ r.conditionId \in Nat /\ r.conditionId \in 0..(Len(c) - 1)
         /\ r.amount \in Nat /\ r.time \in Nat
         /\ r.unclaimed \in 0..UINT_MAX /\ r.unclaimed \in Nat
         /\ r.time <= EndOf(c, n, r.conditionId)
<1>1. /\ r.conditionId \in Nat /\ r.amount \in Nat /\ r.time \in Nat
      /\ r.unclaimed \in 0..UINT_MAX
  BY DEF Recorded, StakerType
<1> QED BY <1>1, Constants1155 DEF Recorded

\* The last condition ends now.
LEMMA LastEnds ==
  ASSUME NEW c, NEW n, Chained(c, n)
  PROVE  EndOf(c, n, Len(c) - 1) = n
<1>1. (Len(c) - 1) + 1 = Len(c)
  BY ChainedFacts
<1>2. c[Len(c)].endTimestamp = 0
  BY DEF Chained
<1> QED BY <1>1, <1>2 DEF EndOf

\* A settlement covers a number of seconds of every condition it passes.
LEMMA SpanNat ==
  ASSUME NEW c, NEW r, NEW n, Chained(c, n), Recorded(c, r, n),
         NEW i \in r.conditionId..(Len(c) - 1)
  PROVE  /\ i \in 0..(Len(c) - 1) /\ i + 1 \in 1..Len(c)
         /\ EndOf(c, n, i) \in 1..n /\ StartOf(c, r, i) \in Nat
         /\ Span(c, r, n, i) \in Nat /\ Span(c, r, n, i) <= n
<1>1. n \in Nat \ {0} /\ Len(c) \in Nat \ {0}
  BY ChainedFacts
<1>2. r.conditionId \in 0..(Len(c) - 1) /\ r.time \in Nat /\ r.time <= EndOf(c, n, r.conditionId)
  BY RecordedFacts
<1>3. i \in 0..(Len(c) - 1) /\ i + 1 \in 1..Len(c)
  BY <1>1, <1>2
<1>4. c[i + 1].startTimestamp \in 1..n /\ c[i + 1].endTimestamp \in 0..n
  BY <1>3, ChainedFacts
<1>5. EndOf(c, n, i) \in 1..n
  BY <1>1, <1>4 DEF EndOf
<1>6. c[i + 1].startTimestamp <= EndOf(c, n, i)
  <2>1. CASE i + 1 = Len(c)
    <3>1. EndOf(c, n, i) = n
      BY <1>3, <2>1 DEF EndOf, Chained
    <3> QED BY <1>1, <1>4, <3>1
  <2>2. CASE i + 1 # Len(c)
    <3>1. i + 1 \in 1..(Len(c) - 1)
      BY <1>1, <1>3, <2>2
    <3>2. c[i + 1].startTimestamp <= c[i + 1].endTimestamp
      BY <3>1 DEF Chained
    <3> QED BY <1>1, <1>4, <3>2 DEF EndOf
  <2> QED BY <2>1, <2>2
<1>7. StartOf(c, r, i) \in Nat /\ StartOf(c, r, i) <= EndOf(c, n, i)
  <2>1. CASE i = r.conditionId
    BY <1>2, <2>1 DEF StartOf
  <2>2. CASE i # r.conditionId
    BY <1>4, <1>6, <2>2 DEF StartOf
  <2> QED BY <2>1, <2>2
<1>8. Span(c, r, n, i) \in Nat /\ Span(c, r, n, i) <= n
  BY <1>1, <1>5, <1>7 DEF Span
<1> QED BY <1>3, <1>5, <1>7, <1>8

\* A product of a part is a natural, and so are its factors.
LEMMA ProductNat ==
  ASSUME NEW c, NEW r, NEW n, Chained(c, n), Recorded(c, r, n),
         NEW i \in r.conditionId..(Len(c) - 1)
  PROVE  /\ Product(c, r, n, i) \in Nat /\ Span(c, r, n, i) * r.amount \in Nat
         /\ Worth(c, r, n, i) = Product(c, r, n, i) * (SCALE \div c[i + 1].timeUnit)
         /\ Worth(c, r, n, i) \in Nat
<1>1. i + 1 \in 1..Len(c) /\ Span(c, r, n, i) \in Nat
  BY SpanNat
<1>2. r.amount \in Nat /\ r.conditionId \in Nat
  BY RecordedFacts
<1>3. c[i + 1].rewardsPerUnitTime \in Nat /\ SCALE \div c[i + 1].timeUnit \in Nat
  BY <1>1, ChainedFacts
<1>4. Span(c, r, n, i) * r.amount \in Nat
  BY <1>1, <1>2, MulNat
<1>5. Product(c, r, n, i) \in Nat
  BY <1>3, <1>4, MulNat DEF Product
<1>6. i >= r.conditionId
  BY <1>2
<1>7. Worth(c, r, n, i) = Product(c, r, n, i) * (SCALE \div c[i + 1].timeUnit)
  BY <1>6 DEF Worth
<1>8. Product(c, r, n, i) * (SCALE \div c[i + 1].timeUnit) \in Nat
  BY <1>3, <1>5, MulNat
<1> QED BY <1>4, <1>5, <1>7, <1>8

\* A part is a number, and SCALE times it is at most what it stands for.
LEMMA PartBounds ==
  ASSUME NEW c, NEW r, NEW n, Chained(c, n), Recorded(c, r, n), NEW i \in 0..(Len(c) - 1)
  PROVE  /\ PartOf(c, r, n, i) \in Nat /\ Worth(c, r, n, i) \in Nat
         /\ SCALE * PartOf(c, r, n, i) <= Worth(c, r, n, i)
<1>0. SCALE \in Nat \ {0} /\ SCALE * 0 = 0 /\ UINT_MAX \in Nat
  BY Constants1155
<1>1. r.conditionId \in Nat /\ i \in Nat /\ Len(c) \in Nat
  BY RecordedFacts, ChainedFacts
<1>2. CASE ~(i >= r.conditionId)
  <2>1. PartOf(c, r, n, i) = 0 /\ Worth(c, r, n, i) = 0
    BY <1>2 DEF PartOf, Worth
  <2> QED BY <1>0, <2>1
<1>3. CASE i >= r.conditionId
  <2>1. i \in r.conditionId..(Len(c) - 1)
    BY <1>1, <1>3
  <2> DEFINE x == Product(c, r, n, i)
             d == c[i + 1].timeUnit
             w == x * (SCALE \div d)
             s == SCALE * (x \div d)
  <2>2. x \in Nat /\ Worth(c, r, n, i) = w /\ w \in Nat
    BY <2>1, ProductNat
  <2>3. d \in Nat \ {0} /\ SCALE % d = 0
    BY <2>1, SpanNat, ChainedFacts
  <2>4. PartOf(c, r, n, i) = IF x <= UINT_MAX THEN x \div d ELSE 0
    BY <1>3 DEF PartOf
  <2> HIDE DEF x, d
  <2>5. s <= w /\ x \div d \in Nat
    BY <1>0, <2>2, <2>3, ScaledQuotient, DivNat
  <2> HIDE DEF w
  <2>6. CASE x <= UINT_MAX
    BY <2>2, <2>4, <2>5, <2>6
  <2>7. CASE ~(x <= UINT_MAX)
    <3>1. PartOf(c, r, n, i) = 0
      BY <2>4, <2>7
    <3> QED BY <1>0, <2>2, <3>1
  <2> QED BY <2>6, <2>7
<1> QED BY <1>2, <1>3

\* The functions that the sums run over.
LEMMA PartsType ==
  ASSUME NEW c, NEW r, NEW n, Chained(c, n), Recorded(c, r, n)
  PROVE  /\ PartsOf(c, r, n) \in [0..(Len(c) - 1) -> Nat]
         /\ Worths(c, r, n) \in [0..(Len(c) - 1) -> Nat]
         /\ \A k \in 0..(Len(c) - 1) : SCALE * PartsOf(c, r, n)[k] <= Worths(c, r, n)[k]
BY PartBounds DEF PartsOf, Worths

\* What a settlement gives is in range and, SCALE times, at most what it is
\* worth, whatever overflowed on the way.
LEMMA CalculatedBounds ==
  ASSUME NEW c, NEW r, NEW n, Chained(c, n), Recorded(c, r, n)
  PROVE  /\ Calculated(c, r, n) \in 0..UINT_MAX /\ Calculated(c, r, n) \in Nat
         /\ Earned(c, r, n) \in Nat
         /\ SCALE * Calculated(c, r, n) <= Earned(c, r, n)
<1> DEFINE m == Len(c)
           f == PartsOf(c, r, n)
           g == Worths(c, r, n)
<1>1. m \in Nat /\ SCALE \in Nat /\ UINT_MAX \in Nat
  BY ChainedFacts, Constants1155
<1>2. /\ f \in [0..(m - 1) -> Nat] /\ g \in [0..(m - 1) -> Nat]
      /\ \A k \in 0..(m - 1) : SCALE * f[k] <= g[k]
  BY PartsType
<1>3. Calculated(c, r, n) = CheckedSum(f, m, UINT_MAX)[m] /\ Earned(c, r, n) = PartialSum(g, m)[m]
  BY DEF Calculated, Earned
<1> HIDE DEF f, g, m
<1>4. CheckedSum(f, m, UINT_MAX)[m] \in 0..UINT_MAX
  <2>1. m \in 0..m
    BY <1>1
  <2>2. CheckedSum(f, m, UINT_MAX) \in [0..m -> 0..UINT_MAX]
    BY <1>1, <1>2, CheckedSumRec
  <2> QED BY <2>1, <2>2
<1>5. PartialSum(g, m)[m] \in Nat
  BY <1>1, <1>2, PartialSumRec
<1>6. SCALE * CheckedSum(f, m, UINT_MAX)[m] <= PartialSum(g, m)[m]
  BY <1>1, <1>2, CheckedSumLe
<1>7. CheckedSum(f, m, UINT_MAX)[m] \in Nat
  BY <1>1, <1>4
<1> QED BY <1>3, <1>4, <1>5, <1>6, <1>7, Zenon
-----------------------------------------------------------------------------
(* What a second, a new condition and a settlement do *)

\* A second more belongs to the last condition.
LEMMA TickEnds ==
  ASSUME NEW c, NEW n, Chained(c, n), NEW i \in 0..(Len(c) - 1)
  PROVE  EndOf(c, n + 1, i) = IF i = Len(c) - 1 THEN n + 1 ELSE EndOf(c, n, i)
<1>1. n \in Nat /\ Len(c) \in Nat \ {0} /\ i + 1 \in 1..Len(c) /\ i \in Nat
  BY ChainedFacts
<1>2. CASE i = Len(c) - 1
  <2>1. c[i + 1].endTimestamp = 0
    <3>1. i + 1 = Len(c)
      BY <1>1, <1>2
    <3> QED BY <3>1 DEF Chained
  <2> QED BY <1>2, <2>1 DEF EndOf
<1>3. CASE i # Len(c) - 1
  <2>1. i + 1 \in 1..(Len(c) - 1) /\ (i + 1) + 1 \in 1..Len(c)
    BY <1>1, <1>3
  <2>2. c[i + 1].endTimestamp = c[(i + 1) + 1].startTimestamp
    BY <2>1 DEF Chained
  <2>3. c[(i + 1) + 1].startTimestamp \in 1..n
    BY <2>1, ChainedFacts
  <2>4. c[i + 1].endTimestamp # 0
    BY <1>1, <2>2, <2>3
  <2> QED BY <1>3, <2>4 DEF EndOf
<1> QED BY <1>2, <1>3

\* The list and a record are still in order a second later.
LEMMA TickChained ==
  ASSUME NEW c, NEW n, Chained(c, n)
  PROVE  Chained(c, n + 1) /\ \A r : Recorded(c, r, n) => Recorded(c, r, n + 1)
<1>1. n \in Nat \ {0} /\ n + 1 \in Nat \ {0} /\ Len(c) - 1 \in 0..(Len(c) - 1)
  BY ChainedFacts
<1>2. c \in Seq(ConditionType(n + 1))
  <2> DEFINE C == ConditionType(n)
             D == ConditionType(n + 1)
  <2>1. c \in Seq(C)
    BY DEF Chained
  <2>2. \A x \in C : x \in D
    <3>1. 1..n \subseteq 1..(n + 1) /\ 0..n \subseteq 0..(n + 1)
      BY <1>1
    <3> QED BY <3>1 DEF ConditionType
  <2> HIDE DEF C, D
  <2>3. c \in Seq(D)
    BY <2>1, <2>2
  <2> QED BY <2>3 DEF D
<1>3. Chained(c, n + 1)
  BY <1>1, <1>2 DEF Chained
<1>4. ASSUME NEW r, Recorded(c, r, n) PROVE Recorded(c, r, n + 1)
  <2>1. /\ r.conditionId \in 0..(Len(c) - 1) /\ r.time \in Nat
        /\ r.time <= EndOf(c, n, r.conditionId)
    BY <1>4, RecordedFacts
  <2>2. EndOf(c, n + 1, r.conditionId)
          = IF r.conditionId = Len(c) - 1 THEN n + 1 ELSE EndOf(c, n, r.conditionId)
    BY <2>1, TickEnds
  <2>3. EndOf(c, n, Len(c) - 1) = n
    BY LastEnds
  <2>4. r.time <= EndOf(c, n + 1, r.conditionId)
    BY <1>1, <2>1, <2>2, <2>3
  <2> QED BY <1>4, <2>4 DEF Recorded
<1> QED BY <1>3, <1>4

\* A second adds what the last condition gives for it.
LEMMA TickEarns ==
  ASSUME NEW c, NEW r, NEW n, Chained(c, n), Recorded(c, r, n)
  PROVE  RateOf(c, r) \in Nat /\ Earned(c, r, n + 1) = Earned(c, r, n) + RateOf(c, r)
<1> DEFINE m == Len(c)
           f == Worths(c, r, n)
           g == Worths(c, r, n + 1)
           a == r.amount
           b == c[m].rewardsPerUnitTime
           d == SCALE \div c[m].timeUnit
           e == Span(c, r, n, m - 1)
           x == RateOf(c, r)
<1>1. Chained(c, n + 1) /\ Recorded(c, r, n + 1)
  BY TickChained
<1>2. n \in Nat /\ m \in Nat \ {0} /\ m - 1 \in 0..(m - 1) /\ (m - 1) + 1 = m
  BY ChainedFacts
<1>3. r.conditionId \in 0..(m - 1) /\ r.conditionId \in Nat /\ a \in Nat
  BY RecordedFacts
<1>4. m - 1 \in r.conditionId..(m - 1)
  BY <1>2, <1>3
<1>5. f \in [0..(m - 1) -> Nat] /\ g \in [0..(m - 1) -> Nat]
  BY <1>1, PartsType
<1>6. b \in Nat /\ d \in Nat /\ e \in Nat
  <2>1. m \in 1..Len(c)
    BY <1>2
  <2> QED BY <1>4, <2>1, ChainedFacts, SpanNat
<1>7. ASSUME NEW i \in 0..(m - 1), i # m - 1 PROVE g[i] = f[i]
  <2>1. EndOf(c, n + 1, i) = EndOf(c, n, i)
    BY <1>7, TickEnds
  <2>2. Worth(c, r, n + 1, i) = Worth(c, r, n, i)
    BY <2>1 DEF Worth, Product, Span
  <2> QED BY <2>2 DEF Worths
<1>8. x = a * b * d
  BY DEF RateOf
<1>9. Span(c, r, n + 1, m - 1) = e + 1
  <2>1. EndOf(c, n + 1, m - 1) = n + 1 /\ EndOf(c, n, m - 1) = n
    BY <1>2, TickEnds, LastEnds
  <2>2. StartOf(c, r, m - 1) \in Nat
    BY <1>4, SpanNat
  <2> QED BY <1>2, <2>1, <2>2 DEF Span
<1>10. f[m - 1] = e * a * b * d /\ g[m - 1] = (e + 1) * a * b * d
  <2>1. m - 1 >= r.conditionId
    BY <1>2, <1>3
  <2>2. Worth(c, r, n, m - 1) = e * a * b * d
    BY <1>2, <2>1 DEF Worth, Product
  <2>3. Worth(c, r, n + 1, m - 1) = (e + 1) * a * b * d
    BY <1>2, <1>9, <2>1 DEF Worth, Product
  <2> QED BY <1>2, <2>2, <2>3 DEF Worths
<1> HIDE DEF a, b, d, e, x
<1>11. x \in Nat /\ (e + 1) * a * b * d = e * a * b * d + x
  <2>1. a * b \in Nat /\ a * b * d \in Nat
    BY <1>3, <1>6, MulNat
  <2>2. (e + 1) * a * b * d = (e + 1) * (a * b * d) /\ e * a * b * d = e * (a * b * d)
    BY <1>3, <1>6
  <2> QED BY <1>6, <1>8, <2>1, <2>2
<1>12. g[m - 1] = f[m - 1] + x
  BY <1>10, <1>11, Zenon
<1>13. Earned(c, r, n) = PartialSum(f, m)[m] /\ Earned(c, r, n + 1) = PartialSum(g, m)[m]
  BY DEF Earned
<1> HIDE DEF f, g, m
<1>14. PartialSum(g, m)[m] = PartialSum(f, m)[m] + x
  BY <1>2, <1>5, <1>7, <1>11, <1>12, PartialSumChange
<1> QED BY <1>11, <1>13, <1>14 DEF x

\* A product with a factor 0.
LEMMA ZeroFactor ==
  ASSUME NEW a \in Nat, NEW b \in Nat, NEW d \in Nat
  PROVE  0 * a * b * d = 0 /\ a * 0 * b * d = 0
<1>1. 0 * a = 0 /\ a * 0 = 0 /\ 0 * b = 0 /\ 0 * d = 0
  OBVIOUS
<1> QED BY <1>1

\* A condition that covers no second is worth nothing, and neither is any for
\* a record without a stake.
LEMMA WorthNothing ==
  ASSUME NEW c, NEW r, NEW n, Chained(c, n), Recorded(c, r, n), NEW i \in 0..(Len(c) - 1),
         \/ r.amount = 0 \/ EndOf(c, n, i) = StartOf(c, r, i)
  PROVE  Worth(c, r, n, i) = 0
<1>1. SUFFICES ASSUME i >= r.conditionId PROVE Worth(c, r, n, i) = 0
  BY DEF Worth
<1>2. i \in r.conditionId..(Len(c) - 1)
  BY <1>1, RecordedFacts, ChainedFacts
<1> DEFINE e == Span(c, r, n, i)
           a == r.amount
           b == c[i + 1].rewardsPerUnitTime
           d == SCALE \div c[i + 1].timeUnit
<1>3. /\ e \in Nat /\ a \in Nat /\ b \in Nat /\ d \in Nat
  BY <1>2, SpanNat, RecordedFacts, ChainedFacts
<1>4. Worth(c, r, n, i) = e * a * b * d
  BY <1>1 DEF Worth, Product
<1>5. a = 0 \/ e = 0
  <2>1. EndOf(c, n, i) \in 1..n /\ n \in Nat /\ StartOf(c, r, i) \in Nat
    BY <1>2, SpanNat, ChainedFacts
  <2> QED BY <2>1 DEF Span
<1> HIDE DEF a, b, d, e
<1> QED BY <1>3, <1>4, <1>5, ZeroFactor

\* Nothing is earned where no condition is worth anything.
LEMMA NothingEarned ==
  ASSUME NEW c, NEW r, NEW n, Chained(c, n), Recorded(c, r, n),
         \A i \in 0..(Len(c) - 1) : Worth(c, r, n, i) = 0
  PROVE  Earned(c, r, n) = 0
<1> DEFINE m == Len(c)
           f == Worths(c, r, n)
<1>1. m \in Nat /\ 0 \in 0..m /\ m \in 0..m /\ 0 <= m
  BY ChainedFacts
<1>2. f \in [0..(m - 1) -> Nat] /\ \A i \in 0..(m - 1) : f[i] = 0
  BY PartsType DEF Worths
<1>3. Earned(c, r, n) = PartialSum(f, m)[m]
  BY DEF Earned
<1> HIDE DEF f, m
<1>4. PartialSum(f, m)[m] = PartialSum(f, m)[0]
  BY <1>1, <1>2, PartialSumFlat
<1>5. PartialSum(f, m)[0] = 0
  BY <1>1, <1>2, PartialSumRec
<1> QED BY <1>3, <1>4, <1>5

\* A record settled now has earned nothing yet, and neither has an empty one.
LEMMA MarkedEarns ==
  ASSUME NEW c, NEW r, NEW n, Chained(c, n), r \in StakerType,
         r.time = n, r.conditionId = Len(c) - 1
  PROVE  Recorded(c, r, n) /\ Earned(c, r, n) = 0
<1>1. n \in Nat /\ Len(c) - 1 \in 0..(Len(c) - 1) /\ Len(c) \in Nat /\ EndOf(c, n, Len(c) - 1) = n
  BY ChainedFacts, LastEnds
<1>2. Recorded(c, r, n)
  BY <1>1 DEF Recorded
<1>3. ASSUME NEW i \in 0..(Len(c) - 1) PROVE Worth(c, r, n, i) = 0
  <2>1. CASE i = Len(c) - 1
    <3>1. StartOf(c, r, i) = n
      BY <2>1 DEF StartOf
    <3> QED BY <1>1, <1>2, <2>1, <3>1, WorthNothing
  <2>2. CASE i # Len(c) - 1
    <3>1. ~(i >= r.conditionId)
      BY <1>1, <2>2
    <3> QED BY <3>1 DEF Worth
  <2> QED BY <2>1, <2>2
<1> QED BY <1>2, <1>3, NothingEarned

\* Nothing is earned without a stake.
LEMMA EmptyEarns ==
  ASSUME NEW c, NEW r, NEW n, Chained(c, n), Recorded(c, r, n), r.amount = 0
  PROVE  Earned(c, r, n) = 0
BY WorthNothing, NothingEarned
-----------------------------------------------------------------------------
\* The conditions of a list that was followed by another.
LEMMA FollowedList ==
  ASSUME NEW c, NEW n, Chained(c, n), NEW d \in Divisors, NEW rate \in Nat
  PROVE  LET f == Followed(c, n, d, rate) IN
         /\ f \in Seq(ConditionType(n)) /\ f # <<>> /\ Len(f) = Len(c) + 1
         /\ \A i \in 1..Len(c) :
              f[i] = IF i = Len(c) THEN [c[i] EXCEPT !.endTimestamp = n] ELSE c[i]
         /\ f[Len(c) + 1].startTimestamp = n /\ f[Len(c) + 1].endTimestamp = 0
         /\ f[Len(c) + 1].rewardsPerUnitTime = rate
<1> DEFINE C == ConditionType(n)
           m == Len(c)
           new == [timeUnit |-> d, rewardsPerUnitTime |-> rate, startTimestamp |-> n,
                   endTimestamp |-> 0]
           last == [c[m] EXCEPT !.endTimestamp = n]
           s == [c EXCEPT ![m] = last]
           f == Followed(c, n, d, rate)
<1>1. n \in Nat \ {0} /\ m \in Nat \ {0} /\ c \in Seq(C) /\ c[m] \in C
  BY ChainedFacts DEF Chained
<1>2. new \in C /\ last \in C
  <2>1. n \in 1..n /\ n \in 0..n /\ 0 \in 0..n
    BY <1>1
  <2>2. new \in C
    BY <2>1 DEF ConditionType
  <2>3. last \in C
    BY <1>1, <2>1 DEF ConditionType
  <2> QED BY <2>2, <2>3
<1>3. f = Append(s, new)
  BY DEF Followed
<1>4. new.startTimestamp = n /\ new.endTimestamp = 0 /\ new.rewardsPerUnitTime = rate
  OBVIOUS
<1> HIDE DEF C, new, last, m, f
<1>5. m = Len(c)
  BY DEF m
<1>6. s \in Seq(C) /\ Len(s) = m /\ \A i \in 1..m : s[i] = IF i = m THEN last ELSE c[i]
  BY <1>1, <1>2, <1>5
<1> HIDE DEF s
<1>7. f \in Seq(C) /\ Len(f) = m + 1 /\ f[m + 1] = new /\ \A i \in 1..m : f[i] = s[i]
  BY <1>1, <1>2, <1>3, <1>6
<1>8. f # <<>>
  BY <1>1, <1>7
<1>9. \A i \in 1..m : f[i] = IF i = m THEN [c[i] EXCEPT !.endTimestamp = n] ELSE c[i]
  BY <1>6, <1>7 DEF last
<1> QED BY <1>4, <1>7, <1>8, <1>9 DEF C, m, f

\* What a condition that is followed by another keeps.
LEMMA FollowedFields ==
  ASSUME NEW c, NEW n, Chained(c, n), NEW d \in Divisors, NEW rate \in Nat
  PROVE  LET f == Followed(c, n, d, rate) IN
         /\ \A i \in 0..(Len(c) - 1) :
              /\ EndOf(f, n, i) = EndOf(c, n, i)
              /\ f[i + 1].startTimestamp = c[i + 1].startTimestamp
              /\ f[i + 1].timeUnit = c[i + 1].timeUnit
              /\ f[i + 1].rewardsPerUnitTime = c[i + 1].rewardsPerUnitTime
         /\ EndOf(f, n, Len(c)) = n
<1> DEFINE f == Followed(c, n, d, rate)
           m == Len(c)
<1>1. n \in Nat \ {0} /\ m \in Nat \ {0}
  BY ChainedFacts
<1>2. \A i \in 1..m : f[i] = IF i = m THEN [c[i] EXCEPT !.endTimestamp = n] ELSE c[i]
  BY FollowedList
<1>3. f[m + 1].endTimestamp = 0
  BY FollowedList
<1>4. EndOf(c, n, m - 1) = n
  BY LastEnds
<1> HIDE DEF f
<1>5. ASSUME NEW i \in 0..(m - 1)
      PROVE  /\ EndOf(f, n, i) = EndOf(c, n, i)
             /\ f[i + 1].startTimestamp = c[i + 1].startTimestamp
             /\ f[i + 1].timeUnit = c[i + 1].timeUnit
             /\ f[i + 1].rewardsPerUnitTime = c[i + 1].rewardsPerUnitTime
  <2>1. i + 1 \in 1..m /\ i \in Nat
    BY <1>1
  <2>2. CASE i = m - 1
    <3>1. f[i + 1] = [c[i + 1] EXCEPT !.endTimestamp = n]
      BY <1>1, <1>2, <2>1, <2>2
    <3>2. c[i + 1] \in ConditionType(n)
      BY <2>1, ChainedFacts
    <3>3. /\ f[i + 1].endTimestamp = n
          /\ f[i + 1].startTimestamp = c[i + 1].startTimestamp
          /\ f[i + 1].timeUnit = c[i + 1].timeUnit
          /\ f[i + 1].rewardsPerUnitTime = c[i + 1].rewardsPerUnitTime
      BY <3>1, <3>2 DEF ConditionType
    <3>4. EndOf(f, n, i) = n
      BY <1>1, <3>3 DEF EndOf
    <3> QED BY <1>4, <2>2, <3>3, <3>4
  <2>3. CASE i # m - 1
    <3>1. f[i + 1] = c[i + 1]
      <4>1. i + 1 # m
        BY <1>1, <2>1, <2>3
      <4> QED BY <1>2, <2>1, <4>1
    <3> QED BY <3>1 DEF EndOf
  <2> QED BY <2>2, <2>3
<1>6. EndOf(f, n, m) = n
  BY <1>3 DEF EndOf
<1> QED BY <1>5, <1>6 DEF f

\* The list goes on without a gap, and no record is ahead of it.
LEMMA FollowedChained ==
  ASSUME NEW c, NEW n, Chained(c, n), NEW d \in Divisors, NEW rate \in Nat
  PROVE  /\ Chained(Followed(c, n, d, rate), n)
         /\ \A r : Recorded(c, r, n) => Recorded(Followed(c, n, d, rate), r, n)
<1> DEFINE f == Followed(c, n, d, rate)
           m == Len(c)
<1>1. n \in Nat \ {0} /\ m \in Nat \ {0}
  BY ChainedFacts
<1>2. /\ f \in Seq(ConditionType(n)) /\ f # <<>> /\ Len(f) = m + 1
      /\ \A i \in 1..m : f[i] = IF i = m THEN [c[i] EXCEPT !.endTimestamp = n] ELSE c[i]
      /\ f[m + 1].startTimestamp = n /\ f[m + 1].endTimestamp = 0
  BY FollowedList
<1>3. \A i \in 0..(m - 1) : EndOf(f, n, i) = EndOf(c, n, i)
  BY FollowedFields
<1> HIDE DEF f
<1>4. ASSUME NEW i \in 1..m
      PROVE  f[i].endTimestamp = f[i + 1].startTimestamp /\ f[i].startTimestamp <= f[i].endTimestamp
  <2>1. CASE i = m
    <3>1. c[i] \in ConditionType(n) /\ f[i] = [c[i] EXCEPT !.endTimestamp = n]
      BY <1>2, <2>1, ChainedFacts
    <3>2. f[i].endTimestamp = n /\ f[i].startTimestamp \in 1..n
      BY <3>1 DEF ConditionType
    <3> QED BY <1>1, <1>2, <2>1, <3>2
  <2>2. CASE i # m
    <3>1. i \in 1..(m - 1) /\ i + 1 \in 1..m
      BY <1>1, <2>2
    <3>2. c[i].endTimestamp = c[i + 1].startTimestamp /\ c[i].startTimestamp <= c[i].endTimestamp
      BY <3>1 DEF Chained
    <3>3. f[i] = c[i]
      BY <1>2, <2>2
    <3>4. f[i + 1].startTimestamp = c[i + 1].startTimestamp
      <4>1. c[i + 1] \in ConditionType(n)
        BY <3>1, ChainedFacts
      <4>2. [c[i + 1] EXCEPT !.endTimestamp = n].startTimestamp = c[i + 1].startTimestamp
        BY <4>1 DEF ConditionType
      <4> QED BY <1>2, <3>1, <4>2
    <3> QED BY <3>2, <3>3, <3>4
  <2> QED BY <2>1, <2>2
<1>5. Chained(f, n)
  <2>1. (m + 1) - 1 = m
    BY <1>1
  <2> QED BY <1>1, <1>2, <1>4, <2>1 DEF Chained
<1>6. ASSUME NEW r, Recorded(c, r, n) PROVE Recorded(f, r, n)
  <2>1. r.conditionId \in 0..(m - 1) /\ r.time <= EndOf(c, n, r.conditionId)
    BY <1>6 DEF Recorded
  <2>2. r.conditionId \in 0..(Len(f) - 1)
    BY <1>1, <1>2, <2>1
  <2> QED BY <1>3, <1>6, <2>1, <2>2 DEF Recorded
<1> QED BY <1>5, <1>6 DEF f

\* Nor does it get a rate that is not one of Staking1155.
LEMMA FollowedRated ==
  ASSUME NEW c, NEW n, Chained(c, n), Rated(c), NEW d \in Divisors, NEW rate \in Rates
  PROVE  Rated(Followed(c, n, d, rate))
<1> DEFINE f == Followed(c, n, d, rate)
           m == Len(c)
<1>1. rate \in Nat /\ m \in Nat
  BY Constants1155, ChainedFacts
<1>2. Len(f) = m + 1 /\ \A i \in 0..(m - 1) : f[i + 1].rewardsPerUnitTime = c[i + 1].rewardsPerUnitTime
  BY <1>1, FollowedList, FollowedFields
<1>3. f[m + 1].rewardsPerUnitTime = rate
  BY <1>1, FollowedList
<1> HIDE DEF f
<1>4. ASSUME NEW i \in 1..Len(f) PROVE f[i].rewardsPerUnitTime \in Rates
  <2>1. CASE i = m + 1
    BY <1>3, <2>1
  <2>2. CASE i # m + 1
    <3>1. i \in 1..m /\ i - 1 \in 0..(m - 1) /\ (i - 1) + 1 = i
      BY <1>1, <1>2, <2>2
    <3>2. f[i].rewardsPerUnitTime = c[i].rewardsPerUnitTime
      BY <1>2, <3>1
    <3> QED BY <3>1, <3>2 DEF Rated
  <2> QED BY <2>1, <2>2
<1> QED BY <1>4 DEF Rated, f

\* A condition that begins now has earned nothing, and what the others gave
\* stays.
LEMMA FollowedEarns ==
  ASSUME NEW c, NEW r, NEW n, Chained(c, n), Recorded(c, r, n),
         NEW d \in Divisors, NEW rate \in Nat
  PROVE  Earned(Followed(c, n, d, rate), r, n) = Earned(c, r, n)
<1> DEFINE f == Followed(c, n, d, rate)
           m == Len(c)
           v == Worths(c, r, n)
           w == Worths(f, r, n)
<1>1. Chained(f, n) /\ Recorded(f, r, n)
  BY FollowedChained
<1>2. n \in Nat /\ m \in Nat \ {0} /\ Len(f) = m + 1 /\ f[m + 1].startTimestamp = n
  BY ChainedFacts, FollowedList
<1>3. /\ \A i \in 0..(m - 1) :
           /\ EndOf(f, n, i) = EndOf(c, n, i)
           /\ f[i + 1].startTimestamp = c[i + 1].startTimestamp
           /\ f[i + 1].timeUnit = c[i + 1].timeUnit
           /\ f[i + 1].rewardsPerUnitTime = c[i + 1].rewardsPerUnitTime
      /\ EndOf(f, n, m) = n
  BY FollowedFields
<1>4. r.conditionId \in 0..(m - 1)
  BY RecordedFacts
<1> HIDE DEF f
<1>5. v \in [0..(m - 1) -> Nat] /\ w \in [0..m -> Nat]
  <2>1. (m + 1) - 1 = m
    BY <1>2
  <2> QED BY <1>1, <1>2, <2>1, PartsType
<1>6. ASSUME NEW i \in 0..(m - 1) PROVE w[i] = v[i]
  <2>1. StartOf(f, r, i) = StartOf(c, r, i)
    BY <1>3 DEF StartOf
  <2>2. Span(f, r, n, i) = Span(c, r, n, i)
    BY <1>3, <2>1 DEF Span
  <2>3. Product(f, r, n, i) = Product(c, r, n, i)
    BY <1>3, <2>2 DEF Product
  <2>4. Worth(f, r, n, i) = Worth(c, r, n, i)
    BY <1>3, <2>3 DEF Worth
  <2>5. i \in 0..(Len(f) - 1)
    BY <1>2
  <2> QED BY <2>4, <2>5 DEF Worths
<1>7. w[m] = 0
  <2>1. m \in 0..(Len(f) - 1) /\ m # r.conditionId
    BY <1>2, <1>4
  <2>2. StartOf(f, r, m) = n
    BY <1>2, <2>1 DEF StartOf
  <2>3. Worth(f, r, n, m) = 0
    BY <1>1, <1>3, <2>1, <2>2, WorthNothing
  <2> QED BY <2>1, <2>3 DEF Worths
<1>8. Earned(c, r, n) = PartialSum(v, m)[m] /\ Earned(f, r, n) = PartialSum(w, m + 1)[m + 1]
  BY <1>2 DEF Earned
<1> HIDE DEF v, w, m
<1>9. /\ w \in [0..((m + 1) - 1) -> Nat] /\ m + 1 \in Nat /\ m <= m + 1
      /\ m \in 0..((m + 1) - 1) /\ m \in 0..(m + 1)
  BY <1>2, <1>5
<1>10. PartialSum(w, m + 1)[m] = PartialSum(v, m)[m]
  BY <1>2, <1>5, <1>6, <1>9, PartialSumPrefix
<1>11. /\ PartialSum(w, m + 1)[m + 1] = PartialSum(w, m + 1)[m] + w[m]
       /\ PartialSum(w, m + 1)[m] \in Nat
  BY <1>9, PartialSumRec
<1> QED BY <1>7, <1>8, <1>10, <1>11 DEF f
-----------------------------------------------------------------------------
(* The account of a record *)

\* What is settled, scaled, and earned since is at most what is owed.
Covered(c, r, n, o) ==
  Recorded(c, r, n) /\ o \in Nat /\ SCALE * r.unclaimed + Earned(c, r, n) <= o

\* What r is to be paid.
Claimable(c, r, n) == r.unclaimed + Calculated(c, r, n)

\* What is settled, calculated and earned, scaled.
LEMMA Scaled ==
  ASSUME NEW c, NEW r, NEW n, Chained(c, n), Recorded(c, r, n)
  PROVE  /\ r.unclaimed \in Nat /\ Calculated(c, r, n) \in Nat /\ Earned(c, r, n) \in Nat
         /\ Claimable(c, r, n) \in Nat
         /\ SCALE * r.unclaimed \in Nat /\ SCALE * Claimable(c, r, n) \in Nat
         /\ SCALE * Claimable(c, r, n) <= SCALE * r.unclaimed + Earned(c, r, n)
         /\ SCALE * 0 = 0
<1> DEFINE w == r.unclaimed
           x == Calculated(c, r, n)
           e == Earned(c, r, n)
<1>1. SCALE \in Nat \ {0} /\ w \in Nat
  BY Constants1155, RecordedFacts
<1>2. x \in Nat /\ e \in Nat /\ SCALE * x <= e
  BY CalculatedBounds
<1>3. Claimable(c, r, n) = w + x
  BY DEF Claimable
<1> HIDE DEF w, x, e
<1>4. SCALE * w \in Nat /\ SCALE * x \in Nat /\ SCALE * (w + x) = SCALE * w + SCALE * x
      /\ SCALE * 0 = 0
  BY <1>1, <1>2
<1>5. SCALE * w + SCALE * x <= SCALE * w + e
  BY <1>2, <1>4
<1> QED BY <1>1, <1>2, <1>3, <1>4, <1>5 DEF w, x, e

\* What is owed covers the record a second later.
LEMMA CoveredTick ==
  ASSUME NEW c, NEW r, NEW n, NEW o, Chained(c, n), Covered(c, r, n, o)
  PROVE  RateOf(c, r) \in Nat /\ Covered(c, r, n + 1, o + RateOf(c, r))
<1>1. Recorded(c, r, n) /\ o \in Nat /\ SCALE * r.unclaimed + Earned(c, r, n) <= o
  BY DEF Covered
<1>2. Recorded(c, r, n + 1)
  BY <1>1, TickChained
<1>3. RateOf(c, r) \in Nat /\ Earned(c, r, n + 1) = Earned(c, r, n) + RateOf(c, r)
  BY <1>1, TickEarns
<1>4. SCALE * r.unclaimed \in Nat /\ Earned(c, r, n) \in Nat
  BY <1>1, Scaled
<1>5. SCALE * r.unclaimed + Earned(c, r, n + 1) <= o + RateOf(c, r) /\ o + RateOf(c, r) \in Nat
  BY <1>1, <1>3, <1>4
<1> QED BY <1>2, <1>3, <1>5 DEF Covered

\* After a new condition.
LEMMA CoveredFollowed ==
  ASSUME NEW c, NEW r, NEW n, NEW o, Chained(c, n), Covered(c, r, n, o),
         NEW d \in Divisors, NEW rate \in Nat
  PROVE  Covered(Followed(c, n, d, rate), r, n, o)
BY FollowedChained, FollowedEarns DEF Covered

\* A record as of now, with another amount, another reward unclaimed.
LEMMA MarkedFields ==
  ASSUME NEW c, NEW r, NEW n, Chained(c, n), Recorded(c, r, n),
         NEW a \in Nat, NEW w \in 0..UINT_MAX
  PROVE  LET s == [MarkedAt(c, [r EXCEPT !.unclaimed = w], n) EXCEPT !.amount = a] IN
         /\ s \in StakerType /\ s.time = n /\ s.conditionId = Len(c) - 1
         /\ s.amount = a /\ s.unclaimed = w
<1>1. r \in StakerType /\ n \in Nat /\ Len(c) - 1 \in Nat
  BY ChainedFacts DEF Recorded
<1> QED BY <1>1 DEF MarkedAt, StakerType

\* After a settlement that adds no more than what was calculated.
LEMMA CoveredMarked ==
  ASSUME NEW c, NEW r, NEW n, NEW o, Chained(c, n), Covered(c, r, n, o),
         NEW s \in StakerType, s.time = n, s.conditionId = Len(c) - 1,
         s.unclaimed \in {r.unclaimed, Claimable(c, r, n)}
  PROVE  Covered(c, s, n, o)
<1>1. Recorded(c, r, n) /\ o \in Nat /\ SCALE * r.unclaimed + Earned(c, r, n) <= o
  BY DEF Covered
<1>2. Recorded(c, s, n) /\ Earned(c, s, n) = 0
  BY MarkedEarns
<1>3. /\ SCALE * r.unclaimed \in Nat /\ Earned(c, r, n) \in Nat
      /\ SCALE * Claimable(c, r, n) \in Nat
      /\ SCALE * Claimable(c, r, n) <= SCALE * r.unclaimed + Earned(c, r, n)
  BY <1>1, Scaled
<1>4. \/ SCALE * s.unclaimed = SCALE * r.unclaimed
      \/ SCALE * s.unclaimed = SCALE * Claimable(c, r, n)
  <2>1. s.unclaimed = r.unclaimed \/ s.unclaimed = Claimable(c, r, n)
    OBVIOUS
  <2> QED BY <2>1, Zenon
<1> DEFINE x == SCALE * s.unclaimed
           y == SCALE * r.unclaimed
           z == SCALE * Claimable(c, r, n)
<1>5. /\ x = y \/ x = z
      /\ y \in Nat /\ z \in Nat /\ z <= y + Earned(c, r, n) /\ y + Earned(c, r, n) <= o
  BY <1>1, <1>3, <1>4
<1> HIDE DEF x, y, z
<1>6. x + 0 <= o
  BY <1>1, <1>3, <1>5
<1>7. SCALE * s.unclaimed + Earned(c, s, n) <= o
  BY <1>2, <1>6 DEF x
<1> QED BY <1>1, <1>2, <1>7 DEF Covered

\* After a claim, which takes what it pays from what is owed.
LEMMA CoveredPaid ==
  ASSUME NEW c, NEW r, NEW n, NEW o, Chained(c, n), Covered(c, r, n, o),
         NEW s \in StakerType, s.time = n, s.conditionId = Len(c) - 1, s.unclaimed = 0
  PROVE  Covered(c, s, n, o - SCALE * Claimable(c, r, n))
<1>1. Recorded(c, r, n) /\ o \in Nat /\ SCALE * r.unclaimed + Earned(c, r, n) <= o
  BY DEF Covered
<1>2. Recorded(c, s, n) /\ Earned(c, s, n) = 0
  BY MarkedEarns
<1>3. /\ SCALE * r.unclaimed \in Nat /\ Earned(c, r, n) \in Nat
      /\ SCALE * Claimable(c, r, n) \in Nat
      /\ SCALE * Claimable(c, r, n) <= SCALE * r.unclaimed + Earned(c, r, n)
      /\ SCALE * 0 = 0
  BY <1>1, Scaled
<1> DEFINE y == SCALE * r.unclaimed
           z == SCALE * Claimable(c, r, n)
<1>4. /\ y \in Nat /\ z \in Nat /\ z <= y + Earned(c, r, n) /\ y + Earned(c, r, n) <= o
  BY <1>1, <1>3
<1> HIDE DEF y, z
<1>5. o - z \in Nat /\ 0 + 0 <= o - z
  BY <1>1, <1>3, <1>4
<1>6. SCALE * s.unclaimed + Earned(c, s, n) <= o - z
  BY <1>2, <1>3, <1>5
<1> QED BY <1>2, <1>5, <1>6 DEF Covered, z
-----------------------------------------------------------------------------
(* No settlement refused *)

\* A and R bound the amount and the rates; all that they give in the time
\* there is fits into a word.
Fitting(A, R) ==
  /\ A \in Nat /\ R \in Nat \ {0} /\ \A rate \in Rates : rate <= R
  /\ MaxTime * (A * R) <= UINT_MAX

\* SCALE times what a second gives at most.
Ceiling(A, R) == SCALE * (A * R)

\* The bounds are naturals.
LEMMA FittingFacts ==
  ASSUME NEW A, NEW R, Fitting(A, R)
  PROVE  /\ A \in Nat /\ R \in Nat \ {0} /\ SCALE \in Nat \ {0}
         /\ A * R \in Nat /\ Ceiling(A, R) \in Nat /\ MaxTime \in Nat /\ UINT_MAX \in Nat
<1>1. A \in Nat /\ R \in Nat \ {0} /\ SCALE \in Nat \ {0} /\ MaxTime \in Nat /\ UINT_MAX \in Nat
  BY Constants1155 DEF Fitting
<1>2. A * R \in Nat
  BY <1>1, MulNat
<1>3. SCALE * (A * R) \in Nat
  BY <1>1, <1>2, MulNat
<1> QED BY <1>1, <1>2, <1>3 DEF Ceiling

\* What a second adds is below the ceiling.
LEMMA RateBound ==
  ASSUME NEW c, NEW r, NEW n, Chained(c, n), Recorded(c, r, n), Rated(c),
         NEW A, NEW R, Fitting(A, R), r.amount <= A
  PROVE  RateOf(c, r) <= Ceiling(A, R)
<1> DEFINE a == r.amount
           b == c[Len(c)].rewardsPerUnitTime
           d == c[Len(c)].timeUnit
           m == SCALE \div d
<1>1. a \in Nat /\ a <= A /\ A \in Nat /\ R \in Nat /\ SCALE \in Nat \ {0}
  BY RecordedFacts, FittingFacts
<1>2. b \in Nat /\ b <= R /\ d \in Nat \ {0} /\ SCALE % d = 0
  <2>1. Len(c) \in 1..Len(c)
    BY ChainedFacts
  <2>2. b \in Nat /\ b \in Rates /\ d \in Nat \ {0} /\ SCALE % d = 0
    BY <2>1, ChainedFacts DEF Rated
  <2> QED BY <2>2 DEF Fitting
<1>3. m \in Nat /\ SCALE = d * m
  BY <1>1, <1>2, ScaleDivides
<1>4. RateOf(c, r) = a * b * m
  BY DEF RateOf
<1> HIDE DEF a, b, d, m
<1>5. m <= SCALE
  <2>1. 1 * m <= d * m
    BY <1>2, <1>3, ProductBound
  <2> QED BY <1>3, <2>1
<1>6. a * b \in Nat /\ A * R \in Nat /\ a * b <= A * R
  BY <1>1, <1>2, ProductBound
<1>7. (a * b) * m <= (A * R) * SCALE
  BY <1>1, <1>3, <1>5, <1>6, ProductBound
<1>8. (A * R) * SCALE = SCALE * (A * R)
  BY <1>1, <1>6
<1> QED BY <1>4, <1>7, <1>8 DEF Ceiling

\* No product of a settlement leaves the word.
LEMMA ProductFits ==
  ASSUME NEW c, NEW r, NEW n, Chained(c, n), Recorded(c, r, n), Rated(c),
         n <= MaxTime, NEW A, NEW R, Fitting(A, R), r.amount <= A, NEW i \in r.conditionId..(Len(c) - 1)
  PROVE  Span(c, r, n, i) * r.amount <= UINT_MAX /\ Product(c, r, n, i) <= UINT_MAX
<1> DEFINE e == Span(c, r, n, i)
           a == r.amount
           b == c[i + 1].rewardsPerUnitTime
<1>1. e \in Nat /\ e <= MaxTime /\ MaxTime \in Nat
  BY SpanNat, ChainedFacts, FittingFacts
<1>2. a \in Nat /\ a <= A /\ A \in Nat
  BY RecordedFacts, FittingFacts
<1>3. b \in Nat /\ b <= R /\ R \in Nat \ {0}
  <2>1. i + 1 \in 1..Len(c)
    BY SpanNat
  <2>2. b \in Nat /\ b \in Rates
    BY <2>1, ChainedFacts DEF Rated
  <2> QED BY <2>2 DEF Fitting
<1>4. MaxTime * (A * R) <= UINT_MAX /\ UINT_MAX \in Nat
  BY FittingFacts DEF Fitting
<1>5. Product(c, r, n, i) = e * a * b
  BY DEF Product
<1> HIDE DEF e, a, b
<1>6. e * a \in Nat /\ MaxTime * A \in Nat /\ e * a <= MaxTime * A
  BY <1>1, <1>2, ProductBound
<1>7. /\ (e * a) * b \in Nat /\ (MaxTime * A) * R \in Nat
      /\ (e * a) * b <= (MaxTime * A) * R
  BY <1>3, <1>6, ProductBound
<1>8. (MaxTime * A) * R = MaxTime * (A * R)
  BY <1>1, <1>2, <1>3
<1>9. (MaxTime * A) * 1 <= (MaxTime * A) * R
  BY <1>3, <1>6, ProductBound
<1>10. (MaxTime * A) * 1 = MaxTime * A
  BY <1>6
<1>11. e * a <= UINT_MAX
  BY <1>4, <1>6, <1>7, <1>8, <1>9, <1>10
<1>12. (e * a) * b <= UINT_MAX
  BY <1>4, <1>7, <1>8
<1> QED BY <1>5, <1>11, <1>12 DEF e, a

\* What can be claimed fits, if what is owed does.
LEMMA ClaimableFits ==
  ASSUME NEW c, NEW r, NEW n, NEW o, Chained(c, n), Covered(c, r, n, o), n <= MaxTime,
         NEW A, NEW R, Fitting(A, R), o <= n * Ceiling(A, R)
  PROVE  Claimable(c, r, n) <= UINT_MAX
<1> DEFINE K == A * R
           w == Claimable(c, r, n)
           x == SCALE * w
           y == SCALE * r.unclaimed + Earned(c, r, n)
           z == SCALE * UINT_MAX
<1>1. /\ SCALE \in Nat \ {0} /\ UINT_MAX \in Nat /\ K \in Nat /\ MaxTime \in Nat
      /\ n \in Nat /\ n <= MaxTime
  BY FittingFacts, ChainedFacts
<1>2. w \in Nat /\ x \in Nat /\ x <= y /\ y \in Nat /\ y <= o /\ o \in Nat
  BY Scaled DEF Covered
<1>3. MaxTime * K <= UINT_MAX /\ Ceiling(A, R) = SCALE * K
  BY DEF Fitting, Ceiling
<1> HIDE DEF K, w, y
<1>4. n * (SCALE * K) <= z /\ z \in Nat
  <2>1. n * K \in Nat /\ MaxTime * K \in Nat /\ n * K <= MaxTime * K
    BY <1>1, ProductBound
  <2>2. SCALE * (n * K) <= SCALE * UINT_MAX /\ SCALE * UINT_MAX \in Nat
    BY <1>1, <1>3, <2>1, ProductBound
  <2>3. n * (SCALE * K) = SCALE * (n * K)
    BY <1>1
  <2> QED BY <2>2, <2>3
<1>5. n * (SCALE * K) \in Nat /\ o <= n * (SCALE * K)
  <2>1. SCALE * K \in Nat
    BY <1>1, MulNat
  <2> QED BY <1>1, <1>3, <2>1, MulNat
<1> DEFINE k == n * (SCALE * K)
<1>6. x <= y /\ y <= o /\ o <= k /\ k <= z /\ x \in Nat /\ y \in Nat /\ o \in Nat
      /\ k \in Nat /\ z \in Nat
  BY <1>2, <1>4, <1>5
<1> HIDE DEF k, x, z
<1>7. x <= z
  BY <1>6
<1>8. SCALE * w <= SCALE * UINT_MAX
  BY <1>7 DEF x, z
<1>9. w <= UINT_MAX
  BY <1>1, <1>2, <1>8, MulCancel
<1> QED BY <1>9 DEF w
-----------------------------------------------------------------------------
(* The conditions, records and accounts of Staking1155 *)

\* Every list of conditions is in order, and what is owed covers every record.
\* Where Staking20 is used, Staking1155 has no stakes.
TimesInv ==
  /\ now \in 1..MaxTime
  /\ stakingConditions = [t \in Id |-> stakingConditions[t]]
  /\ Chained(defaultCondition, now) /\ Rated(defaultCondition)
  /\ \A t \in Id : Rated(ConditionsOf(t))
  /\ stakers \in [Id -> [User -> StakerType]]
  /\ owed \in [Id -> [User -> Nat]]
  /\ \A t \in Id :
       /\ Chained(ConditionsOf(t), now)
       /\ \A u \in User : Covered(ConditionsOf(t), stakers[t][u], now, owed[t][u])
  /\ contract \in {"Staking1155", "Staking20"}
  /\ contract = "Staking20" => \A t \in Id, u \in User : stakers[t][u].amount = 0

vars == <<contract, now, Only1155, Only20>>

\* The functions of the contract, in terms of list, record and time.
LEMMA Meanings ==
  ASSUME NEW t, NEW u
  PROVE  /\ CalculateRewards(t, u) = Calculated(ConditionsOf(t), stakers[t][u], now)
         /\ PerSecond(t, u) = RateOf(ConditionsOf(t), stakers[t][u])
         /\ \A r : Marked(t, r) = MarkedAt(ConditionsOf(t), r, now)
         /\ \A i : Seconds(t, u, i) = Span(ConditionsOf(t), stakers[t][u], now, i)
<1>1. \A i : Seconds(t, u, i) = Span(ConditionsOf(t), stakers[t][u], now, i)
  BY DEF Seconds, Span, EndOf, StartOf
<1>2. \A i : Part(t, u, i) = PartOf(ConditionsOf(t), stakers[t][u], now, i)
  BY <1>1 DEF Part, PartOf, Product
<1>3. CalculateRewards(t, u) = Calculated(ConditionsOf(t), stakers[t][u], now)
  BY <1>2 DEF CalculateRewards, Calculated, PartsOf
<1>4. PerSecond(t, u) = RateOf(ConditionsOf(t), stakers[t][u])
  BY DEF PerSecond, RateOf, Last
<1>5. \A r : Marked(t, r) = MarkedAt(ConditionsOf(t), r, now)
  BY DEF Marked, MarkedAt, Current
<1> QED BY <1>1, <1>3, <1>4, <1>5

\* A list that is superseded is followed by another condition.
LEMMA SupersededFollowed ==
  ASSUME NEW c, NEW d, NEW rate
  PROVE  Superseded(c, d, rate) = Followed(c, now, d, rate)
BY DEF Superseded, Followed, NewCondition

\* A list of one condition, and the record of who has no stake.
LEMMA OneCondition ==
  ASSUME NEW c \in ConditionType(1), c.endTimestamp = 0
  PROVE  /\ Chained(<<c>>, 1) /\ NewStaker \in StakerType
         /\ Recorded(<<c>>, NewStaker, 1) /\ Earned(<<c>>, NewStaker, 1) = 0
<1> DEFINE s == <<c>>
<1>1. s \in Seq(ConditionType(1)) /\ Len(s) = 1 /\ s[1] = c /\ s # <<>>
  OBVIOUS
<1> HIDE DEF s
<1>2. Chained(s, 1)
  <2>1. 1..(1 - 1) = {}
    OBVIOUS
  <2> QED BY <1>1, <2>1 DEF Chained
<1>3. NewStaker \in StakerType
  BY Constants1155 DEF NewStaker, StakerType
<1>4. EndOf(s, 1, 0) = 1
  BY <1>1 DEF EndOf
<1>5. Recorded(s, NewStaker, 1)
  BY <1>1, <1>3, <1>4 DEF Recorded, NewStaker
<1>6. Earned(s, NewStaker, 1) = 0
  BY <1>2, <1>5, EmptyEarns DEF NewStaker
<1> QED BY <1>2, <1>3, <1>5, <1>6 DEF s

\* The lists, records and accounts when the contract is created.
LEMMA TimesInit == Init => TimesInv
<1>1. SUFFICES ASSUME Init PROVE TimesInv
  OBVIOUS
<1> DEFINE c == NewCondition(defaultTimeUnit, defaultRewardsPerUnitTime)
           s == <<c>>
<1>2. /\ now = 1 /\ defaultCondition = s
      /\ stakingConditions = [t \in Id |-> <<>>]
      /\ stakers = [t \in Id |-> [u \in User |-> NewStaker]]
      /\ owed = [t \in Id |-> [u \in User |-> 0]]
      /\ contract \in {"Staking1155", "Staking20"}
  BY <1>1 DEF Init, Init1155
<1>3. /\ defaultTimeUnit \in Divisors /\ defaultRewardsPerUnitTime \in Rates
      /\ defaultRewardsPerUnitTime \in Nat
      /\ UINT_MAX \in Nat /\ MaxTime \in Nat \ {0} /\ SCALE \in Nat
  BY Staking1155Assumption DEF Divisors, Rates
<1>4. c \in ConditionType(1) /\ c.endTimestamp = 0
  BY <1>2, <1>3 DEF ConditionType, NewCondition
<1> HIDE DEF c
<1>5. Len(s) = 1 /\ s[1] = c
  OBVIOUS
<1>6. Chained(s, 1) /\ NewStaker \in StakerType
  BY <1>4, OneCondition
<1>7. Covered(s, NewStaker, 1, 0)
  <2>1. Recorded(s, NewStaker, 1) /\ Earned(s, NewStaker, 1) = 0
    BY <1>4, OneCondition
  <2>2. SCALE * NewStaker.unclaimed = 0
    BY <1>3 DEF NewStaker
  <2> QED BY <2>1, <2>2 DEF Covered
<1>8. Rated(s)
  <2>1. c.rewardsPerUnitTime \in Rates
    BY <1>3 DEF NewCondition, c
  <2> QED BY <1>5, <2>1 DEF Rated
<1> HIDE DEF s
<1>9. \A t \in Id : ConditionsOf(t) = s
  BY <1>2 DEF ConditionsOf
<1>10. \A t \in Id, u \in User : stakers[t][u] = NewStaker /\ owed[t][u] = 0
  BY <1>2
<1>11. \A t \in Id, u \in User : stakers[t][u].amount = 0
  BY <1>10 DEF NewStaker
<1>12. /\ stakers \in [Id -> [User -> StakerType]] /\ owed \in [Id -> [User -> Nat]]
       /\ stakingConditions = [t \in Id |-> stakingConditions[t]] /\ now \in 1..MaxTime
  BY <1>2, <1>3, <1>6
<1>13. \A t \in Id : /\ Chained(ConditionsOf(t), now)
                     /\ \A u \in User : Covered(ConditionsOf(t), stakers[t][u], now, owed[t][u])
  BY <1>2, <1>6, <1>7, <1>9, <1>10
<1> QED BY <1>2, <1>6, <1>9, <1>11, <1>12, <1>13, <1>8 DEF TimesInv

\* Nothing is owed sooner than it is earned: what a step adds to an account.
OwedGrows ==
  \/ now' = now /\ \A t \in Id, u \in User : owed'[t][u] <= owed[t][u]
  \/ /\ now' = now + 1
     /\ \A t \in Id, u \in User :
          owed'[t][u] <= owed[t][u] + RateOf(ConditionsOf(t), stakers[t][u])

\* Where neither the clock nor the contract moves.
LEMMA StillStep ==
  ASSUME TimesInv, UNCHANGED <<contract, now, conditionVars, stakers, owed>>
  PROVE  TimesInv' /\ OwedGrows
<1>1. \A t : ConditionsOf(t)' = ConditionsOf(t)
  BY DEF ConditionsOf, conditionVars
<1>2. TimesInv'
  BY <1>1 DEF TimesInv, conditionVars, Rated
<1>3. \A t \in Id, u \in User : owed[t][u] \in Nat
  BY DEF TimesInv
<1>4. OwedGrows
  BY <1>3 DEF OwedGrows
<1> QED BY <1>2, <1>4

\* A second passes, and every account grows by what it gives.
LEMMA ClockStep ==
  ASSUME TimesInv, now < MaxTime, now' = now + 1, UNCHANGED <<contract, conditionVars, stakers>>,
         owed' = [t \in Id |-> [u \in User |-> owed[t][u] + PerSecond(t, u)]]
  PROVE  TimesInv' /\ OwedGrows
<1>1. \A t : ConditionsOf(t)' = ConditionsOf(t)
  BY DEF ConditionsOf, conditionVars
<1>2. now \in Nat /\ now + 1 \in 1..MaxTime /\ Chained(defaultCondition, now + 1)
  BY Constants1155, TickChained DEF TimesInv
<1>3. ASSUME NEW t \in Id, NEW u \in User
      PROVE  /\ Chained(ConditionsOf(t), now + 1)
             /\ owed'[t][u] = owed[t][u] + RateOf(ConditionsOf(t), stakers[t][u])
             /\ owed'[t][u] \in Nat
             /\ Covered(ConditionsOf(t), stakers[t][u], now + 1, owed'[t][u])
  <2>1. /\ Chained(ConditionsOf(t), now)
        /\ Covered(ConditionsOf(t), stakers[t][u], now, owed[t][u])
    BY DEF TimesInv
  <2>2. /\ RateOf(ConditionsOf(t), stakers[t][u]) \in Nat
        /\ Covered(ConditionsOf(t), stakers[t][u], now + 1,
                   owed[t][u] + RateOf(ConditionsOf(t), stakers[t][u]))
    BY <2>1, CoveredTick
  <2>3. owed'[t][u] = owed[t][u] + RateOf(ConditionsOf(t), stakers[t][u])
    BY Meanings
  <2>4. owed[t][u] \in Nat
    BY DEF TimesInv
  <2> QED BY <2>1, <2>2, <2>3, <2>4, TickChained
<1>4. \A t \in Id : Chained(ConditionsOf(t), now + 1)
  BY TickChained DEF TimesInv
<1>5. owed' \in [Id -> [User -> Nat]]
  <2>1. \A t \in Id, u \in User : owed'[t][u] = owed[t][u] + PerSecond(t, u)
    OBVIOUS
  <2>2. \A t \in Id, u \in User : owed[t][u] + PerSecond(t, u) \in Nat
    BY <1>3, <2>1
  <2> QED BY <2>2
<1>6. TimesInv'
  <2>1. \A t \in Id :
          /\ Chained(ConditionsOf(t)', now')
          /\ \A u \in User : Covered(ConditionsOf(t)', stakers'[t][u], now', owed'[t][u])
    BY <1>1, <1>3, <1>4
  <2>2. \A t \in Id : Rated(ConditionsOf(t)')
    BY <1>1 DEF TimesInv
  <2> QED BY <1>2, <1>5, <2>1, <2>2 DEF TimesInv, conditionVars, Rated
<1>7. \A t \in Id, u \in User :
        owed'[t][u] <= owed[t][u] + RateOf(ConditionsOf(t), stakers[t][u])
  <2>1. \A t \in Id, u \in User : owed'[t][u] \in Nat
    BY <1>3
  <2> QED BY <1>3, <2>1
<1> QED BY <1>6, <1>7 DEF OwedGrows

\* A record and an account change, the record staying covered.
LEMMA RecordStep ==
  ASSUME TimesInv, NEW t \in Id, NEW u \in User, NEW s, NEW o, contract = "Staking1155",
         UNCHANGED <<contract, now, conditionVars>>,
         stakers' = [stakers EXCEPT ![t][u] = s], owed' = [owed EXCEPT ![t][u] = o],
         Covered(ConditionsOf(t), s, now, o), o <= owed[t][u]
  PROVE  TimesInv' /\ OwedGrows
<1>1. \A x : ConditionsOf(x)' = ConditionsOf(x)
  BY DEF ConditionsOf, conditionVars
<1>2. stakers \in [Id -> [User -> StakerType]] /\ owed \in [Id -> [User -> Nat]]
  BY DEF TimesInv
<1>3. s \in StakerType /\ o \in Nat
  BY DEF Covered, Recorded
<1>4. /\ stakers' \in [Id -> [User -> StakerType]] /\ owed' \in [Id -> [User -> Nat]]
      /\ stakers'[t][u] = s /\ owed'[t][u] = o
      /\ \A x \in Id, v \in User : x # t \/ v # u =>
           stakers'[x][v] = stakers[x][v] /\ owed'[x][v] = owed[x][v]
  BY <1>2, <1>3
<1>5. \A x \in Id : \A v \in User : Covered(ConditionsOf(x), stakers'[x][v], now, owed'[x][v])
  BY <1>4 DEF TimesInv
<1>6. TimesInv'
  <2>1. \A x \in Id :
          /\ Chained(ConditionsOf(x)', now')
          /\ \A v \in User : Covered(ConditionsOf(x)', stakers'[x][v], now', owed'[x][v])
    BY <1>1, <1>5 DEF TimesInv
  <2>2. /\ now' \in 1..MaxTime /\ Chained(defaultCondition', now') /\ Rated(defaultCondition')
        /\ \A x \in Id : Rated(ConditionsOf(x)')
        /\ stakingConditions' = [x \in Id |-> stakingConditions'[x]]
        /\ contract' = "Staking1155"
    BY <1>1 DEF TimesInv, conditionVars
  <2> QED BY <1>4, <2>1, <2>2 DEF TimesInv, Rated
<1>7. \A x \in Id, v \in User : owed'[x][v] <= owed[x][v]
  <2>1. \A x \in Id, v \in User : owed[x][v] \in Nat
    BY <1>2
  <2> QED BY <1>4, <2>1
<1> QED BY <1>6, <1>7 DEF OwedGrows

\* The same when no account changes.
LEMMA SettledStep ==
  ASSUME TimesInv, NEW t \in Id, NEW u \in User, NEW s \in StakerType, contract = "Staking1155",
         UNCHANGED <<contract, now, conditionVars, owed>>,
         stakers' = [stakers EXCEPT ![t][u] = s],
         s.time = now, s.conditionId = Len(ConditionsOf(t)) - 1,
         s.unclaimed \in {stakers[t][u].unclaimed,
                          Claimable(ConditionsOf(t), stakers[t][u], now)}
  PROVE  TimesInv' /\ OwedGrows
<1>1. /\ Chained(ConditionsOf(t), now)
      /\ Covered(ConditionsOf(t), stakers[t][u], now, owed[t][u])
      /\ owed \in [Id -> [User -> Nat]]
  BY DEF TimesInv
<1>2. Covered(ConditionsOf(t), s, now, owed[t][u])
  BY <1>1, CoveredMarked
<1>3. owed[t][u] \in Nat /\ owed' = [owed EXCEPT ![t][u] = owed[t][u]]
  BY <1>1
<1>4. owed[t][u] <= owed[t][u]
  BY <1>3
<1> QED BY <1>2, <1>3, <1>4, RecordStep

\* The record of a staker who settles, in terms of list, record and time.
LEMMA SettledRecord ==
  ASSUME TimesInv, NEW t \in Id, NEW u \in User, Settleable(t, u)
  PROVE  LET c == ConditionsOf(t)
             r == stakers[t][u]
         IN /\ Chained(c, now) /\ Recorded(c, r, now)
            /\ r \in StakerType /\ r.amount \in Nat /\ r.unclaimed \in 0..UINT_MAX
            /\ Claimable(c, r, now) \in 0..UINT_MAX
            /\ Claimable(c, r, now) = r.unclaimed + CalculateRewards(t, u)
            /\ Settled(t, u) = MarkedAt(c, [r EXCEPT !.unclaimed = Claimable(c, r, now)], now)
<1> DEFINE c == ConditionsOf(t)
           r == stakers[t][u]
<1>1. Chained(c, now) /\ Recorded(c, r, now) /\ r \in StakerType
  BY DEF TimesInv, Covered, Recorded
<1>2. Claimable(c, r, now) = r.unclaimed + CalculateRewards(t, u)
  BY Meanings DEF Claimable
<1>3. Claimable(c, r, now) \in Nat /\ Claimable(c, r, now) <= UINT_MAX /\ UINT_MAX \in Nat
  BY <1>1, <1>2, Scaled, Constants1155 DEF Settleable
<1>4. r.amount \in Nat /\ r.unclaimed \in 0..UINT_MAX
  BY <1>1, RecordedFacts
<1>5. Settled(t, u) = MarkedAt(c, [r EXCEPT !.unclaimed = Claimable(c, r, now)], now)
  BY <1>2, Meanings DEF Settled
<1> QED BY <1>1, <1>2, <1>3, <1>4, <1>5

\* stake: the record of a first stake is as of now, another one is settled.
LEMMA StakeTimes ==
  ASSUME TimesInv, NEW t \in Id, NEW u \in User, NEW k \in Nat, Stake(t, u, k),
         contract = "Staking1155", UNCHANGED contract
  PROVE  TimesInv' /\ OwedGrows
<1> DEFINE c == ConditionsOf(t)
           r == stakers[t][u]
           first == r.amount = 0
           staker == IF first THEN Marked(t, r) ELSE Settled(t, u)
           w == IF first THEN r.unclaimed ELSE Claimable(c, r, now)
           s == [staker EXCEPT !.amount = @ + k]
<1>1. /\ UNCHANGED <<now, conditionVars, owed>> /\ (first \/ Settleable(t, u))
      /\ stakers' = [stakers EXCEPT ![t][u] = s]
  BY DEF Stake
<1>2. /\ Chained(c, now) /\ Recorded(c, r, now) /\ r \in StakerType /\ r.amount \in Nat
      /\ r.unclaimed \in 0..UINT_MAX
  <2>1. Chained(c, now) /\ Recorded(c, r, now) /\ r \in StakerType
    BY DEF TimesInv, Covered, Recorded
  <2> QED BY <2>1, RecordedFacts
<1>3. w \in 0..UINT_MAX /\ staker = MarkedAt(c, [r EXCEPT !.unclaimed = w], now)
  <2>1. CASE first
    <3>1. [r EXCEPT !.unclaimed = r.unclaimed] = r
      BY <1>2 DEF StakerType
    <3> QED BY <1>2, <2>1, <3>1, Meanings
  <2>2. CASE ~first
    <3>1. Settleable(t, u)
      BY <1>1, <2>2
    <3> QED BY <2>2, <3>1, SettledRecord
  <2> QED BY <2>1, <2>2
<1>4. staker.amount = r.amount
  <2> HIDE DEF w, staker
  <2> QED BY <1>2, <1>3 DEF MarkedAt, StakerType
<1>5. s = [MarkedAt(c, [r EXCEPT !.unclaimed = w], now) EXCEPT !.amount = r.amount + k]
      /\ r.amount + k \in Nat
  BY <1>2, <1>3, <1>4
<1>6. s \in StakerType /\ s.time = now /\ s.conditionId = Len(c) - 1 /\ s.unclaimed = w
  <2> HIDE DEF w, staker, s, c, r
  <2> QED BY <1>2, <1>3, <1>5, MarkedFields
<1>7. w \in {r.unclaimed, Claimable(c, r, now)}
  OBVIOUS
<1>8. s.unclaimed \in {r.unclaimed, Claimable(c, r, now)}
  BY <1>6, <1>7
<1> HIDE DEF s, w, staker, first
<1> QED BY <1>1, <1>6, <1>8, SettledStep

\* withdraw: the record is settled.
LEMMA WithdrawTimes ==
  ASSUME TimesInv, NEW t \in Id, NEW u \in User, NEW k \in Nat, Withdraw(t, u, k),
         contract = "Staking1155", UNCHANGED contract
  PROVE  TimesInv' /\ OwedGrows
<1> DEFINE c == ConditionsOf(t)
           r == stakers[t][u]
           w == Claimable(c, r, now)
           s == [Settled(t, u) EXCEPT !.amount = @ - k]
<1>1. /\ UNCHANGED <<now, conditionVars, owed>> /\ Settleable(t, u) /\ k <= r.amount
      /\ stakers' = [stakers EXCEPT ![t][u] = s]
  BY DEF Withdraw
<1>2. /\ Chained(c, now) /\ Recorded(c, r, now) /\ r \in StakerType /\ r.amount \in Nat
      /\ w \in 0..UINT_MAX /\ Settled(t, u) = MarkedAt(c, [r EXCEPT !.unclaimed = w], now)
  BY <1>1, SettledRecord
<1> HIDE DEF w
<1>3. Settled(t, u).amount = r.amount
  BY <1>2 DEF MarkedAt, StakerType
<1>4. s = [MarkedAt(c, [r EXCEPT !.unclaimed = w], now) EXCEPT !.amount = r.amount - k]
      /\ r.amount - k \in Nat
  BY <1>1, <1>2, <1>3
<1>5. s \in StakerType /\ s.time = now /\ s.conditionId = Len(c) - 1 /\ s.unclaimed = w
  <2> HIDE DEF s, c, r
  <2> QED BY <1>2, <1>4, MarkedFields
<1>6. w \in {r.unclaimed, Claimable(c, r, now)}
  BY DEF w
<1> HIDE DEF s
<1> QED BY <1>1, <1>5, <1>6, SettledStep

\* claimRewards: what is paid is taken from the account.
LEMMA ClaimTimes ==
  ASSUME TimesInv, NEW t \in Id, NEW u \in User, ClaimRewards(t, u),
         contract = "Staking1155", UNCHANGED contract
  PROVE  TimesInv' /\ OwedGrows
<1> DEFINE c == ConditionsOf(t)
           r == stakers[t][u]
           x == Claimable(c, r, now)
           s == Marked(t, [r EXCEPT !.unclaimed = 0])
           o == owed[t][u]
<1>1. Settleable(t, u)
  BY DEF ClaimRewards
<1>2. /\ Chained(c, now) /\ Recorded(c, r, now) /\ r \in StakerType /\ r.amount \in Nat
      /\ x = r.unclaimed + CalculateRewards(t, u)
  BY <1>1, SettledRecord
<1>3. Covered(c, r, now, o) /\ o \in Nat /\ owed \in [Id -> [User -> Nat]]
      /\ stakers \in [Id -> [User -> StakerType]]
  BY DEF TimesInv
<1>4. /\ UNCHANGED <<now, conditionVars>>
      /\ stakers' = [stakers EXCEPT ![t][u] = s]
      /\ owed' = [owed EXCEPT ![t][u] = o - SCALE * x]
  BY <1>2, <1>3 DEF ClaimRewards, stakeVars
<1>5. s = [MarkedAt(c, [r EXCEPT !.unclaimed = 0], now) EXCEPT !.amount = r.amount]
  <2>1. s = MarkedAt(c, [r EXCEPT !.unclaimed = 0], now)
    BY Meanings
  <2> HIDE DEF s
  <2> QED BY <1>2, <2>1 DEF MarkedAt, StakerType
<1>6. s \in StakerType /\ s.time = now /\ s.conditionId = Len(c) - 1 /\ s.unclaimed = 0
  <2>1. 0 \in 0..UINT_MAX
    BY Constants1155
  <2> HIDE DEF s, c, r
  <2> QED BY <1>2, <1>5, <2>1, MarkedFields
<1>7. Covered(c, s, now, o - SCALE * x)
  <2> HIDE DEF s, c, r, o, x
  <2> QED BY <1>2, <1>3, <1>6, CoveredPaid DEF x
<1>8. o - SCALE * x <= o
  BY <1>2, <1>3, Scaled
<1> HIDE DEF s
<1> QED BY <1>4, <1>7, <1>8, RecordStep
-----------------------------------------------------------------------------

\* The lists change, each to the same or to one that another condition
\* follows.
LEMMA ListsStep ==
  ASSUME TimesInv, UNCHANGED <<contract, now, stakers, owed>>,
         NEW d \in Divisors, NEW rate \in Rates,
         defaultCondition' \in {defaultCondition, Followed(defaultCondition, now, d, rate)},
         stakingConditions' = [t \in Id |-> stakingConditions'[t]],
         \A t \in Id :
           ConditionsOf(t)' \in {ConditionsOf(t), Followed(ConditionsOf(t), now, d, rate)}
  PROVE  TimesInv' /\ OwedGrows
<1>0. rate \in Nat
  BY Constants1155
<1>1. Chained(defaultCondition', now) /\ Rated(defaultCondition')
  <2>1. Chained(defaultCondition, now) /\ Rated(defaultCondition)
    BY DEF TimesInv
  <2>2. Chained(Followed(defaultCondition, now, d, rate), now)
    BY <1>0, <2>1, FollowedChained
  <2>3. Rated(Followed(defaultCondition, now, d, rate))
    BY <2>1, FollowedRated
  <2> QED BY <2>1, <2>2, <2>3
<1>2. ASSUME NEW t \in Id
      PROVE  /\ Chained(ConditionsOf(t)', now) /\ Rated(ConditionsOf(t)')
             /\ \A u \in User : Covered(ConditionsOf(t)', stakers[t][u], now, owed[t][u])
  <2> DEFINE c == ConditionsOf(t)
             f == Followed(c, now, d, rate)
  <2>1. /\ Chained(c, now) /\ Rated(c)
        /\ \A u \in User : Covered(c, stakers[t][u], now, owed[t][u])
    BY DEF TimesInv
  <2>2. Chained(f, now) /\ Rated(f)
    BY <1>0, <2>1, FollowedChained, FollowedRated
  <2>3. \A u \in User : Covered(f, stakers[t][u], now, owed[t][u])
    <3> HIDE DEF c
    <3> QED BY <1>0, <2>1, CoveredFollowed
  <2>4. ConditionsOf(t)' = c \/ ConditionsOf(t)' = f
    OBVIOUS
  <2> HIDE DEF c, f
  <2> QED BY <2>1, <2>2, <2>3, <2>4
<1>3. TimesInv'
  BY <1>1, <1>2 DEF TimesInv, Rated
<1>4. \A t \in Id, u \in User : owed[t][u] \in Nat
  BY DEF TimesInv
<1>5. OwedGrows
  BY <1>4 DEF OwedGrows
<1> QED BY <1>3, <1>5

\* What the owner may set a list to, as the assumptions have it.
LEMMA LastFields ==
  ASSUME NEW c, NEW n, Chained(c, n), Rated(c)
  PROVE  /\ Last(c).timeUnit \in Divisors /\ Last(c).rewardsPerUnitTime \in Rates
         /\ \A d \in TimeUnits : d # 0 => d \in Divisors
         /\ Rewards \subseteq Rates
<1>1. Last(c) = c[Len(c)] /\ Len(c) \in 1..Len(c)
  BY ChainedFacts DEF Last
<1>2. Last(c).timeUnit \in Nat \ {0} /\ SCALE % Last(c).timeUnit = 0
      /\ Last(c).rewardsPerUnitTime \in Rates
  BY <1>1, ChainedFacts DEF Rated
<1>3. \A d \in TimeUnits : d # 0 => d \in Nat \ {0} /\ SCALE % d = 0
  BY Staking1155Assumption
<1> QED BY <1>2, <1>3 DEF Divisors, Rates

\* setTimeUnit, setRewardsPerUnitTime and those of the defaults: one list is
\* superseded; an id that leaves the defaults takes a copy of them along.
LEMMA ConditionTimes ==
  ASSUME TimesInv, ConditionNext, UNCHANGED contract
  PROVE  TimesInv' /\ OwedGrows
<1>1. /\ UNCHANGED <<contract, now, stakers, owed>>
      /\ Chained(defaultCondition, now) /\ Rated(defaultCondition)
      /\ \A t \in Id : Chained(ConditionsOf(t), now) /\ Rated(ConditionsOf(t))
      /\ stakingConditions = [t \in Id |-> stakingConditions[t]]
  BY DEF ConditionNext, TimesInv
<1>2. ASSUME NEW t \in Id, NEW d, NEW rate, SetStakingCondition(t, d, rate),
             d \in TimeUnits \/ d = Last(ConditionsOf(t)).timeUnit,
             rate \in Rewards \/ rate = Last(ConditionsOf(t)).rewardsPerUnitTime
      PROVE  TimesInv' /\ OwedGrows
  <2> DEFINE f == Followed(ConditionsOf(t), now, d, rate)
  <2>1. d \in Divisors /\ rate \in Rates
    BY <1>1, <1>2, LastFields DEF SetStakingCondition
  <2>2. /\ defaultCondition' = defaultCondition
        /\ stakingConditions' = [stakingConditions EXCEPT ![t] = f]
    BY <1>2, SupersededFollowed DEF SetStakingCondition
  <2>3. f # <<>>
    BY <1>1, <2>1, FollowedList, Constants1155
  <2>4. /\ stakingConditions' = [x \in Id |-> stakingConditions'[x]]
        /\ stakingConditions'[t] = f
        /\ \A x \in Id \ {t} : stakingConditions'[x] = stakingConditions[x]
    <3> HIDE DEF f
    <3> QED BY <1>1, <2>2
  <2>5. ConditionsOf(t)' = f
    <3> HIDE DEF f
    <3> QED BY <2>3, <2>4 DEF ConditionsOf
  <2>6. \A x \in Id \ {t} : ConditionsOf(x)' = ConditionsOf(x)
    BY <2>2, <2>4 DEF ConditionsOf
  <2>7. \A x \in Id :
          ConditionsOf(x)' \in {ConditionsOf(x), Followed(ConditionsOf(x), now, d, rate)}
    BY <2>5, <2>6
  <2> HIDE DEF f
  <2> QED BY <1>1, <2>1, <2>2, <2>4, <2>7, ListsStep
<1>3. ASSUME NEW d, NEW rate, SetDefaultStakingCondition(d, rate),
             d \in TimeUnits \/ d = Last(defaultCondition).timeUnit,
             rate \in Rewards \/ rate = Last(defaultCondition).rewardsPerUnitTime
      PROVE  TimesInv' /\ OwedGrows
  <2>1. d \in Divisors /\ rate \in Rates
    BY <1>1, <1>3, LastFields DEF SetDefaultStakingCondition
  <2>2. /\ defaultCondition' = Followed(defaultCondition, now, d, rate)
        /\ stakingConditions' = stakingConditions
    BY <1>3, SupersededFollowed DEF SetDefaultStakingCondition
  <2>3. \A x \in Id :
          ConditionsOf(x)' \in {ConditionsOf(x), Followed(ConditionsOf(x), now, d, rate)}
    BY <2>2 DEF ConditionsOf
  <2>4. stakingConditions' = [x \in Id |-> stakingConditions'[x]]
    BY <1>1, <2>2
  <2> QED BY <1>1, <2>1, <2>2, <2>3, <2>4, ListsStep
<1>4. \/ \E t \in Id, d \in TimeUnits : SetTimeUnit(t, d)
      \/ \E t \in Id, rate \in Rewards : SetRewardsPerUnitTime(t, rate)
      \/ \E d \in TimeUnits : SetDefaultTimeUnit(d)
      \/ \E rate \in Rewards : SetDefaultRewardsPerUnitTime(rate)
  BY DEF ConditionNext
<1>5. CASE \E t \in Id, d \in TimeUnits : SetTimeUnit(t, d)
  BY <1>2, <1>5 DEF SetTimeUnit
<1>6. CASE \E t \in Id, rate \in Rewards : SetRewardsPerUnitTime(t, rate)
  BY <1>2, <1>6 DEF SetRewardsPerUnitTime
<1>7. CASE \E d \in TimeUnits : SetDefaultTimeUnit(d)
  BY <1>3, <1>7 DEF SetDefaultTimeUnit
<1>8. CASE \E rate \in Rewards : SetDefaultRewardsPerUnitTime(rate)
  BY <1>3, <1>8 DEF SetDefaultRewardsPerUnitTime
<1> QED BY <1>4, <1>5, <1>6, <1>7, <1>8

\* Where Staking20 is used, nothing is earned with Staking1155.
LEMMA IdleTimes ==
  ASSUME TimesInv, contract = "Staking20", UNCHANGED <<contract, Only1155>>, Erc20!Next20
  PROVE  TimesInv' /\ OwedGrows
<1>1. UNCHANGED <<conditionVars, stakers, owed>>
  BY DEF Only1155
<1>2. now' = now \/ (now < MaxTime /\ now' = now + 1)
  <2>1. Erc20!Tick => now < MaxTime /\ now' = now + 1
    BY DEF Erc20!Tick
  <2>2. (\E u \in User : Erc20!StakerNext(u)) => now' = now
    BY DEF Erc20!StakerNext, Erc20!Stake, Erc20!Withdraw, Erc20!ClaimRewards,
           Erc20!SendStakingTokens
  <2>3. Erc20!ConditionNext \/ Erc20!RewardsNext => now' = now
    BY DEF Erc20!ConditionNext, Erc20!RewardsNext
  <2> QED BY <2>1, <2>2, <2>3 DEF Erc20!Next20
<1>3. CASE now' = now
  BY <1>1, <1>3, StillStep
<1>4. CASE now < MaxTime /\ now' = now + 1
  <2>1. ASSUME NEW t \in Id, NEW u \in User
        PROVE  PerSecond(t, u) = 0 /\ owed[t][u] \in Nat
    <3> DEFINE c == ConditionsOf(t)
               r == stakers[t][u]
               b == c[Len(c)].rewardsPerUnitTime
               m == SCALE \div c[Len(c)].timeUnit
    <3>1. r.amount = 0 /\ Chained(c, now) /\ owed[t][u] \in Nat
      BY DEF TimesInv
    <3>2. b \in Nat /\ m \in Nat
      BY <3>1, ChainedFacts
    <3>3. PerSecond(t, u) = r.amount * b * m
      BY Meanings DEF RateOf
    <3> HIDE DEF b, m, r
    <3> QED BY <3>1, <3>2, <3>3
  <2>2. owed \in [Id -> [User -> Nat]]
    BY DEF TimesInv
  <2>3. owed = [t \in Id |-> [u \in User |-> owed[t][u] + PerSecond(t, u)]]
    <3>1. \A t \in Id, u \in User : owed[t][u] + PerSecond(t, u) = owed[t][u]
      BY <2>1
    <3> QED BY <2>2, <3>1
  <2> QED BY <1>1, <1>4, <2>3, ClockStep
<1> QED BY <1>2, <1>3, <1>4

\* Every step keeps the lists, records and accounts in order.
LEMMA TimesStep == TimesInv /\ [Next]_vars => TimesInv' /\ OwedGrows
<1>1. SUFFICES ASSUME TimesInv, [Next]_vars PROVE TimesInv' /\ OwedGrows
  OBVIOUS
<1>2. CASE UNCHANGED vars
  BY <1>1, <1>2, StillStep DEF vars, Only1155
<1>3. CASE contract = "Staking20" /\ Erc20!Next20 /\ UNCHANGED Only1155 /\ UNCHANGED contract
  BY <1>1, <1>3, IdleTimes
<1>4. CASE contract = "Staking1155" /\ Next1155 /\ UNCHANGED contract
  <2>1. CASE Tick
    BY <1>1, <1>4, <2>1, ClockStep DEF Tick
  <2>2. CASE \E t \in Id, u \in User : StakerNext(t, u)
    <3>1. PICK t \in Id, u \in User : StakerNext(t, u)
      BY <2>2
    <3>2. CASE \E k \in StakeAmounts : Stake(t, u, k) \/ Withdraw(t, u, k)
      <4>1. PICK k \in StakeAmounts : Stake(t, u, k) \/ Withdraw(t, u, k)
        BY <3>2
      <4>2. k \in Nat
        BY Constants1155
      <4>3. CASE Stake(t, u, k)
        BY <1>1, <1>4, <4>2, <4>3, StakeTimes
      <4>4. CASE Withdraw(t, u, k)
        BY <1>1, <1>4, <4>2, <4>4, WithdrawTimes
      <4> QED BY <4>1, <4>3, <4>4
    <3>3. CASE ClaimRewards(t, u)
      BY <1>1, <1>4, <3>3, ClaimTimes
    <3> QED BY <3>1, <3>2, <3>3 DEF StakerNext
  <2>3. CASE ConditionNext
    BY <1>1, <1>4, <2>3, ConditionTimes
  <2>4. CASE PotNext /\ UNCHANGED <<now, conditionVars, stakeVars, stakers, owed>>
    BY <1>1, <1>4, <2>4, StillStep
  <2> QED BY <1>4, <2>1, <2>2, <2>3, <2>4 DEF Next1155
<1> QED BY <1>1, <1>2, <1>3, <1>4 DEF Next

\* What a view reports is covered.
LEMMA NotOverpaid == TimesInv => PaidByTheSecond
<1>1. SUFFICES ASSUME TimesInv, NEW t \in Id, NEW u \in User
               PROVE  SCALE * AvailableRewards(t, u) <= owed[t][u]
  BY DEF PaidByTheSecond
<1> DEFINE c == ConditionsOf(t)
           r == stakers[t][u]
           o == owed[t][u]
           e == Earned(c, r, now)
           y == SCALE * r.unclaimed
           z == SCALE * Claimable(c, r, now)
<1>2. Chained(c, now) /\ Recorded(c, r, now) /\ o \in Nat /\ y + e <= o
  BY <1>1 DEF TimesInv, Covered
<1>3. e \in Nat /\ y \in Nat /\ z \in Nat /\ z <= y + e
  BY <1>2, Scaled
<1>4. AvailableRewards(t, u) = r.unclaimed \/ AvailableRewards(t, u) = Claimable(c, r, now)
  BY Meanings DEF AvailableRewards, Claimable
<1>5. SCALE * AvailableRewards(t, u) = y \/ SCALE * AvailableRewards(t, u) = z
  BY <1>4, Zenon
<1> HIDE DEF o, e, y, z
<1>6. y <= o /\ z <= o
  BY <1>2, <1>3
<1> QED BY <1>5, <1>6 DEF o
-----------------------------------------------------------------------------
(* The lists of stakers *)

\* Each staker is listed once, and what it staked came out of its holding.
RecordsInv ==
  /\ stakersArray \in [Id -> Seq(User)]
  /\ holding \in [Id -> [User -> Nat]]
  /\ \A t \in Id :
       /\ IsInjective(stakersArray[t])
       /\ ToSet(stakersArray[t]) = {u \in User : stakers[t][u].amount > 0}
       /\ \A u \in User : stakers[t][u].amount + holding[t][u] = InitialHolding[t][u]

\* There are no stakers when the contract is created.
LEMMA RecordsInit == Init => RecordsInv
<1>1. SUFFICES ASSUME Init PROVE RecordsInv
  OBVIOUS
<1>2. /\ stakersArray = [t \in Id |-> <<>>] /\ holding = InitialHolding
      /\ stakers = [t \in Id |-> [u \in User |-> NewStaker]]
      /\ InitialHolding \in [Id -> [User -> Nat]]
  BY <1>1, Staking1155Assumption DEF Init, Init1155
<1>3. \A t \in Id : /\ stakersArray[t] = <<>>
                    /\ \A u \in User : stakers[t][u].amount = 0
  BY <1>2 DEF NewStaker
<1>4. IsInjective(<<>>) /\ ToSet(<<>>) = {} /\ <<>> \in Seq(User)
  BY DEF IsInjective, ToSet
<1>5. ASSUME NEW t \in Id
      PROVE  /\ IsInjective(stakersArray[t])
             /\ ToSet(stakersArray[t]) = {u \in User : stakers[t][u].amount > 0}
             /\ \A u \in User : stakers[t][u].amount + holding[t][u] = InitialHolding[t][u]
  <2>1. {u \in User : stakers[t][u].amount > 0} = {}
    BY <1>3
  <2>2. \A u \in User : stakers[t][u].amount + holding[t][u] = InitialHolding[t][u]
    BY <1>2, <1>3
  <2> QED BY <1>3, <1>4, <2>1, <2>2
<1> QED BY <1>2, <1>4, <1>5 DEF RecordsInv

\* One record, one holding and one list change.
LEMMA RecordsChange ==
  ASSUME TimesInv, RecordsInv, NEW t \in Id, NEW u \in User, NEW s, NEW h \in Nat,
         NEW l \in Seq(User), IsInjective(l),
         s.amount \in Nat, s.amount + h = InitialHolding[t][u],
         ToSet(l) = IF s.amount > 0 THEN ToSet(stakersArray[t]) \cup {u}
                                    ELSE ToSet(stakersArray[t]) \ {u},
         stakers' = [stakers EXCEPT ![t][u] = s], holding' = [holding EXCEPT ![t][u] = h],
         stakersArray' = [stakersArray EXCEPT ![t] = l]
  PROVE  RecordsInv'
<1>1. /\ stakersArray \in [Id -> Seq(User)] /\ holding \in [Id -> [User -> Nat]]
      /\ stakers \in [Id -> [User -> StakerType]]
  BY DEF RecordsInv, TimesInv
<1>2. /\ stakers'[t][u] = s /\ holding'[t][u] = h /\ stakersArray'[t] = l
      /\ \A v \in User \ {u} : stakers'[t][v] = stakers[t][v] /\ holding'[t][v] = holding[t][v]
      /\ \A x \in Id \ {t} : /\ stakers'[x] = stakers[x] /\ holding'[x] = holding[x]
                             /\ stakersArray'[x] = stakersArray[x]
      /\ stakersArray' \in [Id -> Seq(User)] /\ holding' \in [Id -> [User -> Nat]]
  BY <1>1
<1>3. ToSet(l) = {v \in User : stakers'[t][v].amount > 0}
  <2>1. ToSet(stakersArray[t]) = {v \in User : stakers[t][v].amount > 0}
    BY DEF RecordsInv
  <2> QED BY <1>2, <2>1
<1>4. \A v \in User : stakers'[t][v].amount + holding'[t][v] = InitialHolding[t][v]
  BY <1>2 DEF RecordsInv
<1>5. ASSUME NEW x \in Id
      PROVE  /\ IsInjective(stakersArray'[x])
             /\ ToSet(stakersArray'[x]) = {v \in User : stakers'[x][v].amount > 0}
             /\ \A v \in User : stakers'[x][v].amount + holding'[x][v] = InitialHolding[x][v]
  <2>1. CASE x = t
    BY <1>2, <1>3, <1>4, <2>1
  <2>2. CASE x # t
    BY <1>2, <2>2 DEF RecordsInv
  <2> QED BY <2>1, <2>2
<1> QED BY <1>2, <1>5 DEF RecordsInv

\* A settlement keeps the amount.
LEMMA KeptAmount ==
  ASSUME TimesInv, NEW t \in Id, NEW u \in User
  PROVE  /\ Marked(t, stakers[t][u]).amount = stakers[t][u].amount
         /\ Settled(t, u).amount = stakers[t][u].amount
         /\ Marked(t, [stakers[t][u] EXCEPT !.unclaimed = 0]).amount = stakers[t][u].amount
         /\ stakers[t][u].amount \in Nat
<1>1. stakers[t][u] \in StakerType
  BY DEF TimesInv
<1> QED BY <1>1 DEF Marked, Settled, StakerType

\* The list and the holding of a staker before a step.
LEMMA RecordsFacts ==
  ASSUME TimesInv, RecordsInv, NEW t \in Id, NEW u \in User
  PROVE  /\ stakersArray[t] \in Seq(User) /\ IsInjective(stakersArray[t])
         /\ u \in ToSet(stakersArray[t]) <=> stakers[t][u].amount > 0
         /\ stakers[t][u].amount \in Nat /\ holding[t][u] \in Nat
         /\ stakers[t][u].amount + holding[t][u] = InitialHolding[t][u]
         /\ stakersArray = [stakersArray EXCEPT ![t] = stakersArray[t]]
         /\ holding = [holding EXCEPT ![t][u] = holding[t][u]]
<1>1. /\ stakersArray \in [Id -> Seq(User)] /\ holding \in [Id -> [User -> Nat]]
      /\ IsInjective(stakersArray[t])
      /\ ToSet(stakersArray[t]) = {v \in User : stakers[t][v].amount > 0}
      /\ stakers[t][u].amount + holding[t][u] = InitialHolding[t][u]
  BY DEF RecordsInv
<1> QED BY <1>1, KeptAmount

\* stake: a first stake is listed.
LEMMA StakeRecords ==
  ASSUME TimesInv, RecordsInv, NEW t \in Id, NEW u \in User, NEW k \in Nat, Stake(t, u, k)
  PROVE  RecordsInv'
<1> DEFINE r == stakers[t][u]
           first == r.amount = 0
           staker == IF first THEN Marked(t, r) ELSE Settled(t, u)
           s == [staker EXCEPT !.amount = @ + k]
           l == IF first THEN Append(stakersArray[t], u) ELSE stakersArray[t]
           h == holding[t][u] - k
<1>1. /\ k # 0 /\ k <= holding[t][u]
      /\ stakers' = [stakers EXCEPT ![t][u] = s]
      /\ holding' = [holding EXCEPT ![t][u] = h]
  <2>1. holding' = [holding EXCEPT ![t][u] = @ - k]
    BY DEF Stake
  <2> QED BY <2>1 DEF Stake
<1>2. /\ stakersArray[t] \in Seq(User) /\ IsInjective(stakersArray[t])
      /\ u \in ToSet(stakersArray[t]) <=> r.amount > 0
      /\ r.amount \in Nat /\ holding[t][u] \in Nat
      /\ r.amount + holding[t][u] = InitialHolding[t][u]
      /\ stakersArray = [stakersArray EXCEPT ![t] = stakersArray[t]]
  BY RecordsFacts
<1>3. stakersArray' = [stakersArray EXCEPT ![t] = l]
  BY <1>2 DEF Stake
<1>4. s.amount = r.amount + k
  <2>1. staker.amount = r.amount
    BY KeptAmount
  <2>2. "amount" \in DOMAIN staker
    BY DEF Marked, Settled, TimesInv, StakerType
  <2> HIDE DEF staker
  <2> QED BY <2>1, <2>2
<1>5. s.amount \in Nat /\ s.amount > 0 /\ h \in Nat /\ s.amount + h = InitialHolding[t][u]
  <2> DEFINE a == r.amount
             b == holding[t][u]
             i == InitialHolding[t][u]
  <2>1. a \in Nat /\ b \in Nat /\ a + b = i /\ k # 0 /\ k <= b
    BY <1>1, <1>2
  <2>2. s.amount = a + k /\ h = b - k
    BY <1>4
  <2> HIDE DEF s, h, a, b, i
  <2>3. s.amount \in Nat /\ s.amount > 0 /\ h \in Nat /\ s.amount + h = i
    BY <2>1, <2>2
  <2> QED BY <2>3 DEF i
<1>6. l \in Seq(User) /\ IsInjective(l) /\ ToSet(l) = ToSet(stakersArray[t]) \cup {u}
  <2>1. CASE first
    <3>1. u \notin ToSet(stakersArray[t])
      BY <1>2, <2>1
    <3> QED BY <1>2, <2>1, <3>1, PushInjective, AppendSet
  <2>2. CASE ~first
    <3>1. u \in ToSet(stakersArray[t])
      BY <1>2, <2>2
    <3> QED BY <1>2, <2>2, <3>1
  <2> QED BY <2>1, <2>2
<1>7. ToSet(l) = IF s.amount > 0 THEN ToSet(stakersArray[t]) \cup {u}
                                 ELSE ToSet(stakersArray[t]) \ {u}
  BY <1>5, <1>6
<1> HIDE DEF s, l, h
<1> QED BY <1>1, <1>3, <1>5, <1>6, <1>7, RecordsChange

\* withdraw: who withdraws all is taken off the list.
LEMMA WithdrawRecords ==
  ASSUME TimesInv, RecordsInv, NEW t \in Id, NEW u \in User, NEW k \in Nat, Withdraw(t, u, k)
  PROVE  RecordsInv'
<1> DEFINE r == stakers[t][u]
           all == k = r.amount
           s == [Settled(t, u) EXCEPT !.amount = @ - k]
           l == IF all THEN SwapPop(stakersArray[t], u) ELSE stakersArray[t]
           h == holding[t][u] + k
<1>1. /\ k # 0 /\ k <= r.amount
      /\ stakers' = [stakers EXCEPT ![t][u] = s]
      /\ holding' = [holding EXCEPT ![t][u] = h]
  <2>1. holding' = [holding EXCEPT ![t][u] = @ + k]
    BY DEF Withdraw
  <2> QED BY <2>1 DEF Withdraw
<1>2. /\ stakersArray[t] \in Seq(User) /\ IsInjective(stakersArray[t])
      /\ u \in ToSet(stakersArray[t]) <=> r.amount > 0
      /\ r.amount \in Nat /\ holding[t][u] \in Nat
      /\ r.amount + holding[t][u] = InitialHolding[t][u]
      /\ stakersArray = [stakersArray EXCEPT ![t] = stakersArray[t]]
  BY RecordsFacts
<1>3. stakersArray' = [stakersArray EXCEPT ![t] = l]
  BY <1>2 DEF Withdraw
<1>4. s.amount = r.amount - k
  <2>1. Settled(t, u).amount = r.amount
    BY KeptAmount
  <2>2. "amount" \in DOMAIN Settled(t, u)
    BY DEF Marked, Settled, TimesInv, StakerType
  <2> QED BY <2>1, <2>2
<1>5. s.amount \in Nat /\ (s.amount > 0 <=> ~all) /\ h \in Nat
      /\ s.amount + h = InitialHolding[t][u]
  <2> DEFINE a == r.amount
             b == holding[t][u]
             i == InitialHolding[t][u]
  <2>1. a \in Nat /\ b \in Nat /\ a + b = i /\ k <= a
    BY <1>1, <1>2
  <2>2. s.amount = a - k /\ h = b + k /\ (all <=> k = a)
    BY <1>4
  <2> HIDE DEF s, h, a, b, i, all
  <2>3. s.amount \in Nat /\ (s.amount > 0 <=> k # a) /\ h \in Nat /\ s.amount + h = i
    BY <2>1, <2>2
  <2> QED BY <2>2, <2>3 DEF i
<1>6. u \in ToSet(stakersArray[t])
  BY <1>1, <1>2
<1>7. l \in Seq(User) /\ IsInjective(l)
      /\ ToSet(l) = IF all THEN ToSet(stakersArray[t]) \ {u} ELSE ToSet(stakersArray[t]) \cup {u}
  <2>1. CASE all
    BY <1>2, <1>6, <2>1, SwapPopSet
  <2>2. CASE ~all
    BY <1>2, <1>6, <2>2
  <2> QED BY <2>1, <2>2
<1>8. ToSet(l) = IF s.amount > 0 THEN ToSet(stakersArray[t]) \cup {u}
                                 ELSE ToSet(stakersArray[t]) \ {u}
  <2> HIDE DEF s, l, all
  <2> QED BY <1>5, <1>7
<1> HIDE DEF s, l, h
<1> QED BY <1>1, <1>3, <1>5, <1>7, <1>8, RecordsChange

\* claimRewards leaves the stake alone.
LEMMA ClaimRecords ==
  ASSUME TimesInv, RecordsInv, NEW t \in Id, NEW u \in User, ClaimRewards(t, u)
  PROVE  RecordsInv'
<1> DEFINE r == stakers[t][u]
           s == Marked(t, [r EXCEPT !.unclaimed = 0])
           l == stakersArray[t]
           h == holding[t][u]
<1>1. /\ stakersArray[t] \in Seq(User) /\ IsInjective(stakersArray[t])
      /\ u \in ToSet(stakersArray[t]) <=> r.amount > 0
      /\ r.amount \in Nat /\ holding[t][u] \in Nat
      /\ r.amount + holding[t][u] = InitialHolding[t][u]
      /\ stakersArray = [stakersArray EXCEPT ![t] = l] /\ holding = [holding EXCEPT ![t][u] = h]
  BY RecordsFacts
<1>2. /\ stakers' = [stakers EXCEPT ![t][u] = s]
      /\ stakersArray' = [stakersArray EXCEPT ![t] = l] /\ holding' = [holding EXCEPT ![t][u] = h]
  BY <1>1 DEF ClaimRewards, stakeVars
<1>3. s.amount = r.amount
  BY KeptAmount
<1>4. ToSet(l) = IF s.amount > 0 THEN ToSet(stakersArray[t]) \cup {u}
                                 ELSE ToSet(stakersArray[t]) \ {u}
  <2> HIDE DEF s
  <2> QED BY <1>1, <1>3
<1> HIDE DEF s
<1> QED BY <1>1, <1>2, <1>3, <1>4, RecordsChange

\* Every step keeps the lists of stakers.
LEMMA RecordsStep == TimesInv /\ RecordsInv /\ [Next]_vars => RecordsInv'
<1>1. SUFFICES ASSUME TimesInv, RecordsInv, [Next]_vars PROVE RecordsInv'
  OBVIOUS
<1>2. ASSUME UNCHANGED <<stakeVars, stakers>> PROVE RecordsInv'
  BY <1>1, <1>2 DEF RecordsInv, stakeVars
<1>3. CASE UNCHANGED vars \/ UNCHANGED Only1155
  BY <1>2, <1>3 DEF vars, Only1155
<1>4. CASE Next1155
  <2>1. CASE Tick \/ ConditionNext
    BY <1>2, <2>1 DEF Tick, ConditionNext
  <2>2. CASE PotNext /\ UNCHANGED <<now, conditionVars, stakeVars, stakers, owed>>
    BY <1>2, <2>2
  <2>3. CASE \E t \in Id, u \in User : StakerNext(t, u)
    <3>1. PICK t \in Id, u \in User : StakerNext(t, u)
      BY <2>3
    <3>2. CASE \E k \in StakeAmounts : Stake(t, u, k) \/ Withdraw(t, u, k)
      BY <1>1, <3>2, StakeRecords, WithdrawRecords, Constants1155
    <3>3. CASE ClaimRewards(t, u)
      BY <1>1, <3>3, ClaimRecords
    <3> QED BY <3>1, <3>2, <3>3 DEF StakerNext
  <2> QED BY <1>4, <2>1, <2>2, <2>3 DEF Next1155
<1> QED BY <1>1, <1>3, <1>4 DEF Next

\* The list of an id has its stakers, and their records are in range of the
\* conditions it has now.
LEMMA RecordsInOrder == TimesInv /\ RecordsInv => RecordsAgree
<1>1. SUFFICES ASSUME TimesInv, RecordsInv, NEW t \in Id
               PROVE  /\ IsInjective(stakersArray[t])
                      /\ ToSet(stakersArray[t]) = {u \in User : stakers[t][u].amount > 0}
                      /\ \A u \in User : stakers[t][u].conditionId <= Current(t)
  BY DEF RecordsAgree
<1>2. Chained(ConditionsOf(t), now)
      /\ \A u \in User : Recorded(ConditionsOf(t), stakers[t][u], now)
  BY <1>1 DEF TimesInv, Covered
<1>3. \A u \in User : stakers[t][u].conditionId \in 0..(Len(ConditionsOf(t)) - 1)
  BY <1>2, RecordedFacts
<1>4. Len(ConditionsOf(t)) - 1 \in Nat
  BY <1>2, ChainedFacts
<1> QED BY <1>1, <1>3, <1>4 DEF RecordsInv, Current
-----------------------------------------------------------------------------
(* The settlements *)

\* What is owed has been earned, in the time so far, below a ceiling.
FitInv(R) ==
  \A t \in Id, u \in User : owed[t][u] <= now * Ceiling(InitialHolding[t][u], R)

\* There is a bound of the rates that fits every holding.
RewardsFit == \E R : \A t \in Id, u \in User : Fitting(InitialHolding[t][u], R)

\* What a staker has staked is at most what it held at first.
LEMMA AmountBound ==
  ASSUME TimesInv, RecordsInv, NEW t \in Id, NEW u \in User
  PROVE  /\ stakers[t][u].amount <= InitialHolding[t][u] /\ owed[t][u] \in Nat
         /\ Chained(ConditionsOf(t), now) /\ Recorded(ConditionsOf(t), stakers[t][u], now)
         /\ Covered(ConditionsOf(t), stakers[t][u], now, owed[t][u])
         /\ Rated(ConditionsOf(t)) /\ now \in Nat /\ now <= MaxTime
<1>1. /\ stakers[t][u].amount \in Nat /\ holding[t][u] \in Nat
      /\ stakers[t][u].amount + holding[t][u] = InitialHolding[t][u]
  BY RecordsFacts
<1>2. /\ Chained(ConditionsOf(t), now) /\ Recorded(ConditionsOf(t), stakers[t][u], now)
      /\ Covered(ConditionsOf(t), stakers[t][u], now, owed[t][u])
      /\ owed[t][u] \in Nat /\ Rated(ConditionsOf(t)) /\ now \in Nat /\ now <= MaxTime
  BY Constants1155 DEF TimesInv, Covered
<1> QED BY <1>1, <1>2

\* Nothing is owed at first.
LEMMA FitInit ==
  ASSUME NEW R, \A t \in Id, u \in User : Fitting(InitialHolding[t][u], R)
  PROVE  Init => FitInv(R)
<1>1. SUFFICES ASSUME Init, NEW t \in Id, NEW u \in User
               PROVE  owed[t][u] <= now * Ceiling(InitialHolding[t][u], R)
  BY DEF FitInv
<1>2. now = 1 /\ owed[t][u] = 0
  BY <1>1 DEF Init, Init1155
<1>3. Ceiling(InitialHolding[t][u], R) \in Nat
  BY FittingFacts
<1> QED BY <1>2, <1>3

\* What a second adds is below the ceiling.
LEMMA FitStep ==
  ASSUME NEW R, \A t \in Id, u \in User : Fitting(InitialHolding[t][u], R)
  PROVE  TimesInv /\ RecordsInv /\ FitInv(R) /\ [Next]_vars => FitInv(R)'
<1>1. SUFFICES ASSUME TimesInv, RecordsInv, FitInv(R), [Next]_vars, NEW t \in Id, NEW u \in User
               PROVE  owed'[t][u] <= now' * Ceiling(InitialHolding[t][u], R)
  BY DEF FitInv
<1> DEFINE x == Ceiling(InitialHolding[t][u], R)
           y == RateOf(ConditionsOf(t), stakers[t][u])
           o == owed[t][u]
<1>2. x \in Nat /\ o <= now * x
  BY <1>1, FittingFacts DEF FitInv
<1>3. now \in Nat /\ o \in Nat /\ y \in Nat
  BY <1>1, AmountBound, TickEarns
<1>4. y <= x
  BY <1>1, AmountBound, RateBound
<1>5. owed'[t][u] \in Nat
  BY <1>1, TimesStep DEF TimesInv
<1>6. OwedGrows
  BY <1>1, TimesStep
<1>7. now * x \in Nat /\ (now + 1) * x = now * x + x
  <2> HIDE DEF x
  <2> QED BY <1>2, <1>3
<1>8. CASE now' = now /\ owed'[t][u] <= o
  <2> DEFINE z == now * x
  <2>1. z \in Nat /\ o <= z /\ now' * x = z
    BY <1>2, <1>7, <1>8
  <2> HIDE DEF x, o, z
  <2>2. owed'[t][u] <= z
    BY <1>3, <1>5, <1>8, <2>1
  <2> QED BY <2>1, <2>2 DEF x
<1>9. CASE now' = now + 1 /\ owed'[t][u] <= o + y
  <2> DEFINE z == now * x
  <2>1. z \in Nat /\ o <= z /\ now' * x = z + x
    BY <1>2, <1>7, <1>9
  <2> HIDE DEF x, o, y, z
  <2>2. owed'[t][u] <= z + x
    BY <1>2, <1>3, <1>4, <1>5, <1>9, <2>1
  <2> QED BY <2>1, <2>2 DEF x
<1> QED BY <1>6, <1>8, <1>9 DEF OwedGrows

\* Nothing in a settlement is out of range.
LEMMA FitSettles ==
  ASSUME NEW R, \A t \in Id, u \in User : Fitting(InitialHolding[t][u], R)
  PROVE  TimesInv /\ RecordsInv /\ FitInv(R) => SettleableAcrossDefaults
<1>1. SUFFICES ASSUME TimesInv, RecordsInv, FitInv(R), NEW t \in Id, NEW u \in User
               PROVE  Settleable(t, u)
  BY DEF SettleableAcrossDefaults
<1> DEFINE c == ConditionsOf(t)
           r == stakers[t][u]
           A == InitialHolding[t][u]
<1>2. /\ Chained(c, now) /\ Recorded(c, r, now) /\ Covered(c, r, now, owed[t][u])
      /\ Rated(c) /\ now <= MaxTime /\ r.amount <= A /\ Fitting(A, R)
      /\ owed[t][u] <= now * Ceiling(A, R)
  BY <1>1, AmountBound DEF FitInv
<1>3. \A i : Seconds(t, u, i) = Span(c, r, now, i)
  BY Meanings
<1>4. r.unclaimed + CalculateRewards(t, u) = Claimable(c, r, now)
  BY Meanings DEF Claimable
<1>5. Passed(t, u) = r.conditionId..(Len(c) - 1)
  BY DEF Passed, Current
<1> HIDE DEF c, A
<1>6. ASSUME NEW i \in r.conditionId..(Len(c) - 1)
      PROVE  Span(c, r, now, i) >= 0 /\ Span(c, r, now, i) * r.amount <= UINT_MAX
  <2> HIDE DEF r
  <2>1. Span(c, r, now, i) \in Nat
    BY <1>2, <1>6, SpanNat
  <2>2. Span(c, r, now, i) * r.amount <= UINT_MAX
    BY <1>2, <1>6, ProductFits
  <2> QED BY <2>1, <2>2
<1>7. Claimable(c, r, now) <= UINT_MAX
  <2> HIDE DEF r
  <2> QED BY <1>2, ClaimableFits
<1>8. \A i \in Passed(t, u) :
        Seconds(t, u, i) >= 0 /\ Seconds(t, u, i) * stakers[t][u].amount <= UINT_MAX
  <2> TAKE i \in Passed(t, u)
  <2>1. i \in r.conditionId..(Len(c) - 1)
    BY <1>5
  <2> QED BY <1>3, <1>6, <2>1
<1> QED BY <1>4, <1>7, <1>8 DEF Settleable

\* If all that a holding can earn in the time there is fits into a word, no
\* settlement of Staking1155 reverts, so that no stake is locked: neither for
\* a record made under the defaults whose id has left them, nor for one whose
\* id has still to.
THEOREM NoneLockedAcrossDefaults == RewardsFit => (Spec => []SettleableAcrossDefaults)
<1> SUFFICES ASSUME RewardsFit PROVE Spec => []SettleableAcrossDefaults
  OBVIOUS
<1> PICK R : \A t \in Id, u \in User : Fitting(InitialHolding[t][u], R)
  BY DEF RewardsFit
<1>1. Init => TimesInv /\ RecordsInv /\ FitInv(R)
  BY TimesInit, RecordsInit, FitInit
<1>2. TimesInv /\ RecordsInv /\ FitInv(R) /\ [Next]_vars
      => TimesInv' /\ RecordsInv' /\ FitInv(R)'
  BY TimesStep, RecordsStep, FitStep
<1>3. TimesInv /\ RecordsInv /\ FitInv(R) => SettleableAcrossDefaults
  BY FitSettles
<1> QED BY <1>1, <1>2, <1>3, PTL DEF Spec, vars
-----------------------------------------------------------------------------
(* Staking20: what two divisions and a conversion give *)

\* Division by two numbers in turn is division by their product.
LEMMA QuotientTwice ==
  ASSUME NEW x \in Nat, NEW a \in Nat \ {0}, NEW b \in Nat \ {0}
  PROVE  a * b \in Nat \ {0} /\ (x \div a) \div b = x \div (a * b)
<1> DEFINE c == a * b
           y == x \div a
           z == y \div b
           q == x \div c
<1>1. c \in Nat \ {0} /\ \A k \in Nat : a * (b * k) = c * k
  <2>1. a * 1 <= a * b /\ a * b \in Nat
    BY MulMonotone, MulNat
  <2> QED BY <2>1
<1>2. y \in Nat /\ z \in Nat /\ q \in Nat
  BY <1>1, DivNat
<1>3. a * y <= x /\ x < a * (y + 1)
  BY DivBounds
<1>4. b * z <= y /\ y < b * (z + 1)
  <2> HIDE DEF y
  <2> QED BY <1>2, DivBounds
<1>5. c * q <= x /\ x < c * (q + 1)
  <2> HIDE DEF c
  <2> QED BY <1>1, DivBounds
<1> HIDE DEF c, y, z, q
<1>6. /\ b * z \in Nat /\ b * (z + 1) \in Nat /\ b * q \in Nat /\ b * (q + 1) \in Nat
      /\ c * q \in Nat /\ c * (q + 1) \in Nat /\ a * y \in Nat /\ a * (y + 1) \in Nat
  BY <1>1, <1>2, MulNat
<1>7. z <= q
  <2>1. a * (b * z) <= a * y
    BY <1>2, <1>4, <1>6, MulMonotone
  <2>2. a * (b * z) = c * z /\ c * z \in Nat
    BY <1>1, <1>2, MulNat
  <2>3. c * z < c * (q + 1)
    BY <1>3, <1>5, <1>6, <2>1, <2>2
  <2>4. ASSUME q + 1 <= z PROVE FALSE
    <3>1. c * (q + 1) <= c * z
      BY <1>1, <1>2, <2>4, MulMonotone
    <3> QED BY <1>6, <2>2, <2>3, <3>1
  <2> QED BY <1>2, <2>4
<1>8. q <= z
  <2>1. a * (b * q) = c * q
    BY <1>1, <1>2
  <2>2. a * (b * q) < a * (y + 1)
    BY <1>3, <1>5, <1>6, <2>1
  <2>3. ASSUME y + 1 <= b * q PROVE FALSE
    <3>1. a * (y + 1) <= a * (b * q)
      BY <1>2, <1>6, <2>3, MulMonotone
    <3> QED BY <1>6, <2>1, <2>2, <3>1
  <2>4. b * q < b * (z + 1)
    BY <1>2, <1>4, <1>6, <2>3
  <2>5. ASSUME z + 1 <= q PROVE FALSE
    <3>1. b * (z + 1) <= b * q
      BY <1>2, <2>5, MulMonotone
    <3> QED BY <1>6, <2>4, <3>1
  <2> QED BY <1>2, <2>5
<1>9. z = q
  BY <1>2, <1>7, <1>8
<1> QED BY <1>1, <1>9 DEF c, y, z, q

\* The constants of Staking20.
LEMMA Constants20 ==
  /\ IsFiniteSet(User) /\ StakeAmounts \subseteq Nat
  /\ \A k \in StakeAmounts : Received[k] \in Nat /\ (k # 0 => Received[k] # 0)
  /\ TimeUnits \subseteq Nat /\ UINT_MAX \in Nat /\ Ratios \subseteq Nat \X Nat
  /\ REWARD_UNIT \in Nat \ {0} /\ STAKING_UNIT \in Nat \ {0} /\ SCALE \in Nat \ {0}
  /\ SCALE * STAKING_UNIT \in Nat
<1>1. /\ IsFiniteSet(User) /\ StakeAmounts \subseteq Nat
      /\ TimeUnits \subseteq Nat /\ UINT_MAX \in Nat /\ Ratios \subseteq Nat \X Nat
      /\ REWARD_UNIT \in Nat \ {0} /\ STAKING_UNIT \in Nat \ {0} /\ SCALE \in Nat \ {0}
  BY Staking20Assumption, Staking1155Assumption
<1>2. ASSUME NEW k \in StakeAmounts PROVE Received[k] \in Nat /\ (k # 0 => Received[k] # 0)
  BY <1>1, Staking20Assumption
<1>3. SCALE * STAKING_UNIT \in Nat
  BY <1>1, MulNat
<1> QED BY <1>1, <1>2, <1>3

\* The rewards calculated for x units of the staking token, converted.
Converted(x) ==
  IF x * REWARD_UNIT <= UINT_MAX THEN (x * REWARD_UNIT) \div STAKING_UNIT ELSE 0

Claimable20(c, r, n) == r.unclaimed + Converted(Calculated(c, r, n))

\* What is settled, scaled, and earned since is at most what is owed.
Covered20(c, r, n, o) ==
  /\ Recorded(c, r, n) /\ o \in Nat
  /\ SCALE * STAKING_UNIT * r.unclaimed + REWARD_UNIT * Earned(c, r, n) <= o

\* The conversion gives no more than there is.
LEMMA ConvertedBound ==
  ASSUME NEW x \in Nat
  PROVE  Converted(x) \in Nat /\ STAKING_UNIT * Converted(x) <= REWARD_UNIT * x
<1> DEFINE y == x * REWARD_UNIT
           q == y \div STAKING_UNIT
<1>1. /\ REWARD_UNIT \in Nat /\ STAKING_UNIT \in Nat \ {0} /\ y \in Nat
      /\ REWARD_UNIT * x = y /\ STAKING_UNIT * 0 = 0
  BY Constants20, MulNat
<1>2. Converted(x) = q \/ Converted(x) = 0
  BY DEF Converted
<1> HIDE DEF y
<1>3. q \in Nat /\ STAKING_UNIT * q <= y
  BY <1>1, DivNat, DivBounds
<1> HIDE DEF q
<1>4. CASE Converted(x) = q
  BY <1>1, <1>3, <1>4
<1>5. CASE Converted(x) = 0
  BY <1>1, <1>5
<1> QED BY <1>2, <1>4, <1>5

\* What is settled, converted and earned, scaled.
LEMMA Scaled20 ==
  ASSUME NEW c, NEW r, NEW n, Chained(c, n), Recorded(c, r, n)
  PROVE  /\ Claimable20(c, r, n) \in Nat /\ Earned(c, r, n) \in Nat
         /\ REWARD_UNIT * Earned(c, r, n) \in Nat
         /\ SCALE * STAKING_UNIT * r.unclaimed \in Nat
         /\ SCALE * STAKING_UNIT * Claimable20(c, r, n) \in Nat
         /\ SCALE * STAKING_UNIT * Claimable20(c, r, n)
              <= SCALE * STAKING_UNIT * r.unclaimed + REWARD_UNIT * Earned(c, r, n)
<1> DEFINE w == r.unclaimed
           x == Calculated(c, r, n)
           v == Converted(x)
           e == Earned(c, r, n)
           K == SCALE * STAKING_UNIT
<1>1. w \in Nat /\ x \in Nat /\ e \in Nat /\ SCALE * x <= e
  BY Scaled, CalculatedBounds
<1>2. v \in Nat /\ STAKING_UNIT * v <= REWARD_UNIT * x
  <2> HIDE DEF x
  <2> QED BY <1>1, ConvertedBound
<1>3. K \in Nat /\ SCALE \in Nat /\ STAKING_UNIT \in Nat /\ REWARD_UNIT \in Nat
  BY Constants20
<1>4. Claimable20(c, r, n) = w + v
  BY DEF Claimable20
<1>5. K * v = SCALE * (STAKING_UNIT * v)
  <2> HIDE DEF v
  <2> QED BY <1>2, <1>3
<1> HIDE DEF w, x, v, e
<1>6. K * v <= REWARD_UNIT * e
  <2>1. SCALE * (STAKING_UNIT * v) <= SCALE * (REWARD_UNIT * x)
    BY <1>1, <1>2, <1>3, MulNat, MulMonotone
  <2>2. SCALE * (REWARD_UNIT * x) = REWARD_UNIT * (SCALE * x)
    BY <1>1, <1>3
  <2>3. REWARD_UNIT * (SCALE * x) <= REWARD_UNIT * e
    BY <1>1, <1>3, MulNat, MulMonotone
  <2>4. /\ SCALE * (STAKING_UNIT * v) \in Nat /\ REWARD_UNIT * (SCALE * x) \in Nat
        /\ REWARD_UNIT * e \in Nat
    BY <1>1, <1>2, <1>3, MulNat
  <2> QED BY <1>5, <2>1, <2>2, <2>3, <2>4
<1> HIDE DEF K
<1>7. /\ K * w \in Nat /\ K * v \in Nat /\ REWARD_UNIT * e \in Nat /\ w + v \in Nat
      /\ K * (w + v) = K * w + K * v
  <2>1. K * w \in Nat /\ K * v \in Nat /\ REWARD_UNIT * e \in Nat /\ w + v \in Nat
    BY <1>1, <1>2, <1>3, MulNat
  <2> QED BY <1>1, <1>2, <1>3, <2>1
<1>8. K * (w + v) <= K * w + REWARD_UNIT * e
  BY <1>6, <1>7
<1> QED BY <1>1, <1>4, <1>7, <1>8 DEF w, e, K

\* What is owed covers the record a second later.
LEMMA CoveredTick20 ==
  ASSUME NEW c, NEW r, NEW n, NEW o, Chained(c, n), Covered20(c, r, n, o)
  PROVE  /\ REWARD_UNIT * RateOf(c, r) \in Nat
         /\ Covered20(c, r, n + 1, o + REWARD_UNIT * RateOf(c, r))
<1> DEFINE x == SCALE * STAKING_UNIT * r.unclaimed
           e == Earned(c, r, n)
           d == RateOf(c, r)
<1>1. Recorded(c, r, n) /\ o \in Nat /\ x + REWARD_UNIT * e <= o
  BY DEF Covered20
<1>2. Recorded(c, r, n + 1)
  BY <1>1, TickChained
<1>3. d \in Nat /\ e \in Nat /\ Earned(c, r, n + 1) = e + d
  BY <1>1, TickEarns, Scaled20
<1>4. x \in Nat /\ REWARD_UNIT \in Nat
  BY <1>1, Scaled20, Constants20
<1> HIDE DEF x, e, d
<1>5. /\ REWARD_UNIT * e \in Nat /\ REWARD_UNIT * d \in Nat
      /\ REWARD_UNIT * (e + d) = REWARD_UNIT * e + REWARD_UNIT * d
  BY <1>3, <1>4, MulNat
<1>6. x + REWARD_UNIT * (e + d) <= o + REWARD_UNIT * d /\ o + REWARD_UNIT * d \in Nat
  BY <1>1, <1>4, <1>5
<1>7. x + REWARD_UNIT * Earned(c, r, n + 1) <= o + REWARD_UNIT * d
  BY <1>3, <1>6
<1> QED BY <1>2, <1>5, <1>6, <1>7 DEF Covered20, x, d

\* After a new condition.
LEMMA CoveredFollowed20 ==
  ASSUME NEW c, NEW r, NEW n, NEW o, Chained(c, n), Covered20(c, r, n, o),
         NEW d \in Divisors, NEW rate \in Nat
  PROVE  Covered20(Followed(c, n, d, rate), r, n, o)
BY FollowedChained, FollowedEarns DEF Covered20

\* After a settlement that adds no more than what was calculated.
LEMMA CoveredMarked20 ==
  ASSUME NEW c, NEW r, NEW n, NEW o, Chained(c, n), Covered20(c, r, n, o),
         NEW s \in StakerType, s.time = n, s.conditionId = Len(c) - 1,
         s.unclaimed \in {r.unclaimed, Claimable20(c, r, n)}
  PROVE  Covered20(c, s, n, o)
<1> DEFINE K == SCALE * STAKING_UNIT
           x == K * s.unclaimed
           y == K * r.unclaimed
           z == K * Claimable20(c, r, n)
           e == REWARD_UNIT * Earned(c, r, n)
<1>1. Recorded(c, r, n) /\ o \in Nat /\ y + e <= o
  BY DEF Covered20
<1>2. Recorded(c, s, n) /\ Earned(c, s, n) = 0 /\ REWARD_UNIT * 0 = 0
  BY MarkedEarns, Constants20
<1>3. y \in Nat /\ e \in Nat /\ z \in Nat /\ z <= y + e
  BY <1>1, Scaled20
<1>4. x = y \/ x = z
  <2>1. s.unclaimed = r.unclaimed \/ s.unclaimed = Claimable20(c, r, n)
    OBVIOUS
  <2> QED BY <2>1, Zenon
<1> HIDE DEF x, y, z, e
<1>5. x + 0 <= o
  BY <1>1, <1>3, <1>4
<1>6. x + REWARD_UNIT * Earned(c, s, n) <= o
  BY <1>2, <1>5
<1> QED BY <1>1, <1>2, <1>6 DEF Covered20, x

\* After a claim, which takes what it pays from what is owed.
LEMMA CoveredPaid20 ==
  ASSUME NEW c, NEW r, NEW n, NEW o, Chained(c, n), Covered20(c, r, n, o),
         NEW s \in StakerType, s.time = n, s.conditionId = Len(c) - 1, s.unclaimed = 0
  PROVE  /\ Covered20(c, s, n, o - SCALE * STAKING_UNIT * Claimable20(c, r, n))
         /\ o - SCALE * STAKING_UNIT * Claimable20(c, r, n) <= o
<1> DEFINE K == SCALE * STAKING_UNIT
           y == K * r.unclaimed
           z == K * Claimable20(c, r, n)
           e == REWARD_UNIT * Earned(c, r, n)
<1>1. Recorded(c, r, n) /\ o \in Nat /\ y + e <= o
  BY DEF Covered20
<1>2. Recorded(c, s, n) /\ Earned(c, s, n) = 0 /\ REWARD_UNIT * 0 = 0 /\ K * 0 = 0
  BY MarkedEarns, Constants20
<1>3. y \in Nat /\ e \in Nat /\ z \in Nat /\ z <= y + e
  BY <1>1, Scaled20
<1> HIDE DEF y, z, e, K
<1>4. o - z \in Nat /\ 0 + 0 <= o - z /\ o - z <= o
  BY <1>1, <1>3
<1>5. K * s.unclaimed + REWARD_UNIT * Earned(c, s, n) <= o - z
  BY <1>2, <1>4
<1> QED BY <1>2, <1>4, <1>5 DEF Covered20, z, K
-----------------------------------------------------------------------------
(* The conditions, records and accounts of Staking20 *)

Units20  == (TimeUnits \ {0}) \cup {InitialCondition[1]}
Ratios20 == {ratio \in Ratios \cup {InitialCondition[2]} : ratio[2] # 0}

\* A time unit and a ratio that are set together with a time.
Condition20 ==
  {[timeUnit |-> d, numerator |-> ratio[1], denominator |-> ratio[2], startTimestamp |-> from,
    endTimestamp |-> to] : d \in Units20, ratio \in Ratios20, from \in Nat, to \in Nat}

\* The condition c as one of Staking1155, of a single divisor.
Single(c) ==
  [timeUnit |-> c.timeUnit * c.denominator, rewardsPerUnitTime |-> c.numerator,
   startTimestamp |-> c.startTimestamp, endTimestamp |-> c.endTimestamp]

Conditions20 == [i \in 1..Len(conditions20) |-> Single(conditions20[i])]

\* The list of conditions is in order, and what is owed covers every record.
\* Where Staking1155 is used, Staking20 has no stakes.
Times20Inv ==
  /\ conditions20 \in Seq(Condition20) /\ Chained(Conditions20, now)
  /\ stakers20 \in [User -> StakerType]
  /\ owed20 \in [User -> Nat]
  /\ \A u \in User : Covered20(Conditions20, stakers20[u], now, owed20[u])
  /\ contract = "Staking1155" => \A u \in User : stakers20[u].amount = 0

\* The fields of a condition.
LEMMA Condition20Facts ==
  ASSUME NEW c \in Condition20
  PROVE  /\ c.timeUnit \in Units20 /\ c.timeUnit \in Nat \ {0}
         /\ <<c.numerator, c.denominator>> \in Ratios20
         /\ c.numerator \in Nat /\ c.denominator \in Nat \ {0}
         /\ c.startTimestamp \in Nat /\ c.endTimestamp \in Nat
<1>1. PICK d \in Units20, ratio \in Ratios20, from \in Nat, to \in Nat :
        c = [timeUnit |-> d, numerator |-> ratio[1], denominator |-> ratio[2],
             startTimestamp |-> from, endTimestamp |-> to]
  BY DEF Condition20
<1>2. /\ c.timeUnit = d /\ c.numerator = ratio[1] /\ c.denominator = ratio[2]
      /\ c.startTimestamp = from /\ c.endTimestamp = to
  BY <1>1
<1>3. d \in Nat \ {0}
  BY Constants20, Staking20Assumption DEF Units20
<1>4. ratio \in Nat \X Nat /\ ratio[2] # 0
  <2>1. InitialCondition[2] \in Nat \X Nat
    BY Staking20Assumption
  <2> QED BY <2>1, Constants20 DEF Ratios20
<1>5. ratio = <<ratio[1], ratio[2]>> /\ ratio[1] \in Nat /\ ratio[2] \in Nat \ {0}
  BY <1>4
<1> QED BY <1>2, <1>3, <1>5

\* Their product is a divisor of SCALE.
LEMMA DivisorsTwice ==
  ASSUME NEW d \in Units20, NEW ratio \in Ratios20
  PROVE  /\ d * ratio[2] \in Divisors /\ d \in Nat \ {0}
         /\ ratio[1] \in Nat /\ ratio[2] \in Nat \ {0} /\ ratio = <<ratio[1], ratio[2]>>
<1>1. d \in Nat \ {0}
  BY Constants20, Staking20Assumption DEF Units20
<1>2. ratio \in Nat \X Nat /\ ratio[2] # 0
  <2>1. InitialCondition[2] \in Nat \X Nat
    BY Staking20Assumption
  <2> QED BY <2>1, Constants20 DEF Ratios20
<1>3. SCALE % (d * ratio[2]) = 0
  BY <1>2, Staking20Assumption DEF Units20, Ratios20
<1>4. ratio = <<ratio[1], ratio[2]>> /\ ratio[1] \in Nat /\ ratio[2] \in Nat \ {0}
  BY <1>2
<1>5. d * ratio[2] \in Nat \ {0}
  BY <1>1, <1>4, QuotientTwice
<1> QED BY <1>1, <1>3, <1>4, <1>5 DEF Divisors

\* The fields of the condition with a single divisor.
LEMMA SingleFields ==
  ASSUME NEW c
  PROVE  /\ Single(c).timeUnit = c.timeUnit * c.denominator
         /\ Single(c).rewardsPerUnitTime = c.numerator
         /\ Single(c).startTimestamp = c.startTimestamp
         /\ Single(c).endTimestamp = c.endTimestamp
<1> DEFINE d == c.timeUnit * c.denominator
<1>1. Single(c) = [timeUnit |-> d, rewardsPerUnitTime |-> c.numerator,
                   startTimestamp |-> c.startTimestamp, endTimestamp |-> c.endTimestamp]
  BY DEF Single
<1> HIDE DEF d
<1>2. Single(c).timeUnit = d
  BY <1>1
<1> QED BY <1>1, <1>2 DEF d

\* What the operators are called where Staking20 is instantiated.
LEMMA SameOperators ==
  /\ \A f, S : Erc20!SumOver(f, S) = SumOver(f, S)
  /\ \A f, n, max : Erc20!CheckedSum(f, n, max) = CheckedSum(f, n, max)
  /\ \A s : Erc20!Last(s) = Last(s) /\ Erc20!ToSet(s) = ToSet(s)
  /\ \A s : Erc20!IsInjective(s) = IsInjective(s)
  /\ \A s, x : Erc20!SwapPop(s, x) = SwapPop(s, x)
<1>1. \A f, S : Erc20!SumOver(f, S) = SumOver(f, S)
  BY Zenon DEF Erc20!SumOver, Erc20!Units, SumOver, Units, Erc20!Cardinality, Cardinality
<1>2. \A f, n, max : Erc20!CheckedSum(f, n, max) = CheckedSum(f, n, max)
  BY Zenon DEF Erc20!CheckedSum, Erc20!TryAdd, CheckedSum, TryAdd
<1>3. \A s : Erc20!Last(s) = Last(s)
  BY DEF Erc20!Last, Last
<1>4. \A s : Erc20!ToSet(s) = ToSet(s)
  BY DEF Erc20!ToSet, ToSet
<1>5. \A s : Erc20!IsInjective(s) = IsInjective(s)
  BY Zenon DEF Erc20!IsInjective, IsInjective
<1>6. \A s, x : Erc20!SwapPop(s, x) = SwapPop(s, x)
  BY <1>3, Zenon DEF Erc20!SwapPop, SwapPop, Erc20!Front, Front, Erc20!SelectInSeq, SelectInSeq,
     Erc20!Last, Last, Erc20!Min, Min
<1> QED BY <1>1, <1>2, <1>3, <1>4, <1>5, <1>6

\* The list of conditions and the one that it stands for.
LEMMA Conditions20Facts ==
  ASSUME Times20Inv
  PROVE  /\ Len(conditions20) \in Nat \ {0} /\ Len(Conditions20) = Len(conditions20)
         /\ \A i \in 1..Len(conditions20) :
              conditions20[i] \in Condition20 /\ Conditions20[i] = Single(conditions20[i])
<1> DEFINE m == Len(conditions20)
<1>1. conditions20 \in Seq(Condition20) /\ m \in Nat
  BY DEF Times20Inv
<1>2. Len(Conditions20) = m
  BY <1>1 DEF Conditions20
<1>3. m # 0
  BY <1>2, ChainedFacts DEF Times20Inv
<1>4. \A i \in 1..m : conditions20[i] \in Condition20
  <2> HIDE DEF m
  <2> QED BY <1>1 DEF m
<1> QED BY <1>1, <1>2, <1>3, <1>4 DEF Conditions20

\* The functions of the contract, in terms of list, record and time.
LEMMA Meanings20 ==
  ASSUME Times20Inv, NEW u \in User
  PROVE  /\ Erc20!Current = Len(Conditions20) - 1
         /\ \A i \in 0..(Len(Conditions20) - 1) :
              Erc20!Seconds(u, i) = Span(Conditions20, stakers20[u], now, i)
         /\ Erc20!CalculateRewards(u) = Converted(Calculated(Conditions20, stakers20[u], now))
         /\ Erc20!PerSecond(u) = REWARD_UNIT * RateOf(Conditions20, stakers20[u])
         /\ \A r : Erc20!Marked(r) = MarkedAt(Conditions20, r, now)
<1> DEFINE c == Conditions20
           m == Len(c)
           r == stakers20[u]
<1>1. /\ Chained(c, now) /\ Recorded(c, r, now) /\ m \in Nat \ {0} /\ m = Len(conditions20)
      /\ Erc20!Current = m - 1
  BY Conditions20Facts DEF Times20Inv, Covered20, Erc20!Current
<1>2. ASSUME NEW i \in 0..(m - 1)
      PROVE  /\ c[i + 1] = Single(conditions20[i + 1])
             /\ conditions20[i + 1] \in Condition20
             /\ Erc20!Seconds(u, i) = Span(c, r, now, i)
  <2>1. i + 1 \in 1..m
    BY <1>1
  <2>2. c[i + 1] = Single(conditions20[i + 1]) /\ conditions20[i + 1] \in Condition20
    BY <1>1, <2>1, Conditions20Facts
  <2>3. /\ c[i + 1].startTimestamp = conditions20[i + 1].startTimestamp
        /\ c[i + 1].endTimestamp = conditions20[i + 1].endTimestamp
    BY <2>2, SingleFields, Zenon
  <2> HIDE DEF c
  <2> QED BY <2>2, <2>3 DEF Erc20!Seconds, Span, EndOf, StartOf
<1>3. ASSUME NEW i \in 0..(m - 1) PROVE Erc20!Part(u, i) = PartOf(c, r, now, i)
  <2> DEFINE x == Product(c, r, now, i)
             a == conditions20[i + 1].timeUnit
             b == conditions20[i + 1].denominator
  <2>1. a \in Nat \ {0} /\ b \in Nat \ {0}
    BY <1>2, Condition20Facts
  <2>2. c[i + 1].timeUnit = a * b /\ c[i + 1].rewardsPerUnitTime = conditions20[i + 1].numerator
    <3> HIDE DEF c
    <3> QED BY <1>2, SingleFields, Zenon
  <2>3. Erc20!Part(u, i) = IF i >= r.conditionId /\ x <= UINT_MAX THEN (x \div a) \div b ELSE 0
    BY <1>2, <2>2 DEF Erc20!Part, Product
  <2>4. PartOf(c, r, now, i) = IF i >= r.conditionId /\ x <= UINT_MAX THEN x \div (a * b) ELSE 0
    BY <2>2 DEF PartOf
  <2>5. CASE i >= r.conditionId
    <3>1. i \in r.conditionId..(m - 1)
      BY <1>1, <2>5, RecordedFacts
    <3>2. x \in Nat
      <4> HIDE DEF c, r
      <4> QED BY <1>1, <3>1, ProductNat
    <3> HIDE DEF x, a, b
    <3>3. (x \div a) \div b = x \div (a * b)
      BY <2>1, <3>2, QuotientTwice
    <3> QED BY <2>3, <2>4, <3>3
  <2>6. CASE ~(i >= r.conditionId)
    BY <2>3, <2>4, <2>6
  <2> QED BY <2>5, <2>6
<1>4. Erc20!CalculateRewards(u) = Converted(Calculated(c, r, now))
  <2>1. [i \in 0..Erc20!Current |-> Erc20!Part(u, i)] = PartsOf(c, r, now)
    BY <1>1, <1>3 DEF PartsOf
  <2>2. Erc20!Current + 1 = m
    BY <1>1
  <2> QED BY <2>1, <2>2, SameOperators DEF Erc20!CalculateRewards, Calculated, Converted
<1>5. Erc20!PerSecond(u) = REWARD_UNIT * RateOf(c, r)
  <2>1. m \in 1..m /\ Erc20!Last(conditions20) = conditions20[m]
    BY <1>1, SameOperators DEF Last
  <2>2. c[m] = Single(conditions20[m])
    BY <1>1, <2>1, Conditions20Facts
  <2>3. /\ c[m].timeUnit = conditions20[m].timeUnit * conditions20[m].denominator
        /\ c[m].rewardsPerUnitTime = conditions20[m].numerator
    BY <2>2, SingleFields, Zenon
  <2> QED BY <2>1, <2>3, Zenon DEF Erc20!PerSecond, RateOf
<1>6. \A s : Erc20!Marked(s) = MarkedAt(c, s, now)
  BY <1>1 DEF Erc20!Marked, MarkedAt
<1> QED BY <1>1, <1>2, <1>4, <1>5, <1>6

\* A condition of a single divisor is one of the lists of Staking1155.
LEMMA SingleType ==
  ASSUME NEW c \in Condition20, NEW n \in Nat \ {0}, c.startTimestamp \in 1..n,
         c.endTimestamp \in 0..n
  PROVE  Single(c) \in ConditionType(n)
<1> DEFINE d == c.timeUnit * c.denominator
<1>1. d \in Divisors
  BY Condition20Facts, DivisorsTwice
<1>2. c.numerator \in Nat
  BY Condition20Facts
<1> HIDE DEF d
<1> QED BY <1>1, <1>2 DEF Single, ConditionType, d

\* A condition that is set now.
LEMMA NewCondition20 ==
  ASSUME NEW d \in Units20, NEW ratio \in Ratios20, now \in Nat \ {0}
  PROVE  LET c == Erc20!NewCondition(d, ratio) IN
         /\ c \in Condition20 /\ c.startTimestamp = now /\ c.endTimestamp = 0
         /\ Single(c) = [timeUnit |-> d * ratio[2], rewardsPerUnitTime |-> ratio[1],
                         startTimestamp |-> now, endTimestamp |-> 0]
<1> DEFINE c == Erc20!NewCondition(d, ratio)
           e == d * ratio[2]
<1>1. c = [timeUnit |-> d, numerator |-> ratio[1], denominator |-> ratio[2],
           startTimestamp |-> now, endTimestamp |-> 0]
  BY DEF Erc20!NewCondition
<1>2. c \in Condition20
  BY <1>1 DEF Condition20
<1> HIDE DEF c
<1>3. /\ c.timeUnit = d /\ c.numerator = ratio[1] /\ c.denominator = ratio[2]
      /\ c.startTimestamp = now /\ c.endTimestamp = 0
  BY <1>1
<1>4. Single(c) = [timeUnit |-> d * ratio[2], rewardsPerUnitTime |-> ratio[1],
                   startTimestamp |-> now, endTimestamp |-> 0]
  BY <1>3, Zenon DEF Single
<1> QED BY <1>2, <1>3, <1>4 DEF c

\* The list, records and accounts when the contract is created.
LEMMA Times20Init == Init => Times20Inv
<1>1. SUFFICES ASSUME Init PROVE Times20Inv
  OBVIOUS
<1> DEFINE c == Erc20!NewCondition(InitialCondition[1], InitialCondition[2])
           s == <<Single(c)>>
<1>2. /\ now = 1 /\ conditions20 = <<c>>
      /\ stakers20 = [u \in User |-> NewStaker]
      /\ owed20 = [u \in User |-> 0]
  BY <1>1 DEF Init, Init1155, Erc20!Init20, NewStaker
<1>3. InitialCondition[1] \in Units20 /\ InitialCondition[2] \in Ratios20
  BY Staking20Assumption DEF Units20, Ratios20
<1>4. c \in Condition20 /\ c.startTimestamp = 1 /\ c.endTimestamp = 0
  BY <1>2, <1>3, NewCondition20
<1>5. Single(c) \in ConditionType(1) /\ Single(c).endTimestamp = 0
  <2>1. Single(c).endTimestamp = 0
    BY <1>4, SingleFields, Zenon
  <2> HIDE DEF c
  <2> QED BY <1>4, <2>1, SingleType
<1> HIDE DEF c
<1>6. conditions20 \in Seq(Condition20) /\ Conditions20 = s
  <2>1. Len(conditions20) = 1 /\ conditions20[1] = c /\ conditions20 \in Seq(Condition20)
    BY <1>2, <1>4
  <2>2. Conditions20 = [i \in 1..1 |-> Single(c)]
    BY <2>1 DEF Conditions20
  <2> QED BY <2>1, <2>2
<1>7. /\ Chained(s, 1) /\ NewStaker \in StakerType
      /\ Recorded(s, NewStaker, 1) /\ Earned(s, NewStaker, 1) = 0
  BY <1>5, OneCondition
<1>8. Covered20(s, NewStaker, 1, 0)
  <2>1. SCALE * STAKING_UNIT * 0 = 0 /\ REWARD_UNIT * 0 = 0
    BY Constants20
  <2> QED BY <1>7, <2>1 DEF Covered20, NewStaker
<1> HIDE DEF s
<1>9. \A u \in User : stakers20[u] = NewStaker /\ owed20[u] = 0 /\ stakers20[u].amount = 0
  BY <1>2 DEF NewStaker
<1>10. stakers20 \in [User -> StakerType] /\ owed20 \in [User -> Nat]
  BY <1>2, <1>7
<1> QED BY <1>2, <1>6, <1>7, <1>8, <1>9, <1>10 DEF Times20Inv

\* Where neither the clock nor the contract moves.
LEMMA StillStep20 ==
  ASSUME Times20Inv, UNCHANGED <<contract, now, conditions20, stakers20, owed20>>
  PROVE  Times20Inv'
<1>1. Conditions20' = Conditions20
  BY DEF Conditions20
<1> QED BY <1>1 DEF Times20Inv

\* A second passes, and every account grows by what it gives.
LEMMA ClockStep20 ==
  ASSUME Times20Inv, now' = now + 1, UNCHANGED <<contract, conditions20, stakers20>>,
         owed20' = [u \in User |-> owed20[u] + Erc20!PerSecond(u)]
  PROVE  Times20Inv'
<1>1. Conditions20' = Conditions20 /\ conditions20' \in Seq(Condition20)
  BY DEF Conditions20, Times20Inv
<1>2. Chained(Conditions20, now + 1)
  BY TickChained DEF Times20Inv
<1>3. ASSUME NEW u \in User
      PROVE  owed20'[u] \in Nat /\ Covered20(Conditions20, stakers20[u], now + 1, owed20'[u])
  <2> DEFINE c == Conditions20
             r == stakers20[u]
             x == REWARD_UNIT * RateOf(c, r)
  <2>1. Chained(c, now) /\ Covered20(c, r, now, owed20[u]) /\ owed20[u] \in Nat
    BY DEF Times20Inv
  <2>2. x \in Nat /\ Covered20(c, r, now + 1, owed20[u] + x)
    BY <2>1, CoveredTick20
  <2>3. owed20'[u] = owed20[u] + x
    BY Meanings20
  <2> HIDE DEF x
  <2> QED BY <2>1, <2>2, <2>3
<1>4. owed20' \in [User -> Nat]
  <2>1. \A u \in User : owed20[u] + Erc20!PerSecond(u) \in Nat
    BY <1>3
  <2> QED BY <2>1
<1>5. /\ stakers20' \in [User -> StakerType]
      /\ contract' = "Staking1155" => \A u \in User : stakers20'[u].amount = 0
  BY DEF Times20Inv
<1> QED BY <1>1, <1>2, <1>3, <1>4, <1>5 DEF Times20Inv

\* Where Staking1155 is used, nothing is earned with Staking20.
LEMMA IdleTimes20 ==
  ASSUME Times20Inv, contract = "Staking1155", UNCHANGED <<contract, Only20>>, Next1155
  PROVE  Times20Inv'
<1>1. UNCHANGED <<conditions20, stakers20, owed20>>
  BY DEF Only20
<1>2. now' = now \/ now' = now + 1
  <2>1. (\E t \in Id, u \in User : StakerNext(t, u)) => now' = now
    BY DEF StakerNext, Stake, Withdraw, ClaimRewards
  <2> QED BY <2>1 DEF Next1155, Tick, ConditionNext
<1>3. CASE now' = now
  BY <1>1, <1>3, StillStep20
<1>4. CASE now' = now + 1
  <2>1. ASSUME NEW u \in User PROVE owed20[u] \in Nat /\ Erc20!PerSecond(u) = 0
    <3> DEFINE c == Conditions20
               b == c[Len(c)].rewardsPerUnitTime
               m == SCALE \div c[Len(c)].timeUnit
    <3>1. /\ stakers20[u].amount = 0 /\ Chained(c, now) /\ owed20[u] \in Nat
          /\ REWARD_UNIT * 0 = 0
      BY Constants20 DEF Times20Inv
    <3>2. b \in Nat /\ m \in Nat
      BY <3>1, ChainedFacts
    <3>3. Erc20!PerSecond(u) = REWARD_UNIT * (stakers20[u].amount * b * m)
      BY Meanings20 DEF RateOf
    <3> HIDE DEF b, m, c
    <3>4. stakers20[u].amount * b * m = 0
      BY <3>1, <3>2
    <3> QED BY <3>1, <3>3, <3>4
  <2>2. owed20 \in [User -> Nat]
    BY DEF Times20Inv
  <2>3. owed20 = [u \in User |-> owed20[u] + Erc20!PerSecond(u)]
    <3>1. \A u \in User : owed20[u] + Erc20!PerSecond(u) = owed20[u]
      BY <2>1
    <3> QED BY <2>2, <3>1
  <2> QED BY <1>1, <1>4, <2>3, ClockStep20
<1> QED BY <1>2, <1>3, <1>4

\* A record and an account change, the record staying covered.
LEMMA RecordStep20 ==
  ASSUME Times20Inv, NEW u \in User, NEW s, NEW o, contract = "Staking20",
         UNCHANGED <<contract, now, conditions20>>,
         stakers20' = [stakers20 EXCEPT ![u] = s], owed20' = [owed20 EXCEPT ![u] = o],
         Covered20(Conditions20, s, now, o)
  PROVE  Times20Inv'
<1>1. Conditions20' = Conditions20
  BY DEF Conditions20
<1>2. stakers20 \in [User -> StakerType] /\ owed20 \in [User -> Nat]
  BY DEF Times20Inv
<1>3. s \in StakerType /\ o \in Nat
  BY DEF Covered20, Recorded
<1>4. /\ stakers20' \in [User -> StakerType] /\ owed20' \in [User -> Nat]
      /\ stakers20'[u] = s /\ owed20'[u] = o
      /\ \A v \in User : v # u => stakers20'[v] = stakers20[v] /\ owed20'[v] = owed20[v]
  BY <1>2, <1>3
<1>5. \A v \in User : Covered20(Conditions20, stakers20'[v], now, owed20'[v])
  BY <1>4 DEF Times20Inv
<1>6. contract' # "Staking1155"
  OBVIOUS
<1> QED BY <1>1, <1>4, <1>5, <1>6 DEF Times20Inv

\* The same when no account changes.
LEMMA SettledStep20 ==
  ASSUME Times20Inv, NEW u \in User, NEW s \in StakerType, contract = "Staking20",
         UNCHANGED <<contract, now, conditions20, owed20>>,
         stakers20' = [stakers20 EXCEPT ![u] = s],
         s.time = now, s.conditionId = Len(Conditions20) - 1,
         s.unclaimed \in {stakers20[u].unclaimed, Claimable20(Conditions20, stakers20[u], now)}
  PROVE  Times20Inv'
<1>1. /\ Chained(Conditions20, now)
      /\ Covered20(Conditions20, stakers20[u], now, owed20[u])
      /\ owed20 \in [User -> Nat]
  BY DEF Times20Inv
<1>2. Covered20(Conditions20, s, now, owed20[u])
  BY <1>1, CoveredMarked20
<1>3. owed20' = [owed20 EXCEPT ![u] = owed20[u]]
  BY <1>1
<1> QED BY <1>2, <1>3, RecordStep20

\* The record of a staker before a step, and what a settlement makes of it.
LEMMA SettledRecord20 ==
  ASSUME Times20Inv, NEW u \in User
  PROVE  LET c == Conditions20
             r == stakers20[u]
         IN /\ Chained(c, now) /\ Recorded(c, r, now)
            /\ r \in StakerType /\ r.amount \in Nat /\ r.unclaimed \in 0..UINT_MAX
            /\ Claimable20(c, r, now) = r.unclaimed + Erc20!CalculateRewards(u)
            /\ Erc20!Settled(u) = MarkedAt(c, [r EXCEPT !.unclaimed = Claimable20(c, r, now)], now)
            /\ Erc20!Settleable(u) => Claimable20(c, r, now) \in 0..UINT_MAX
<1> DEFINE c == Conditions20
           r == stakers20[u]
<1>1. Chained(c, now) /\ Recorded(c, r, now) /\ r \in StakerType
  BY DEF Times20Inv, Covered20, Recorded
<1>2. Claimable20(c, r, now) = r.unclaimed + Erc20!CalculateRewards(u)
  BY Meanings20 DEF Claimable20
<1>3. r.amount \in Nat /\ r.unclaimed \in 0..UINT_MAX
  BY <1>1, RecordedFacts
<1>4. Erc20!Settled(u) = MarkedAt(c, [r EXCEPT !.unclaimed = Claimable20(c, r, now)], now)
  BY <1>2, Meanings20 DEF Erc20!Settled
<1>5. Erc20!Settleable(u) => Claimable20(c, r, now) \in 0..UINT_MAX
  <2>1. Claimable20(c, r, now) \in Nat /\ UINT_MAX \in Nat
    BY <1>1, Scaled20, Constants20
  <2> QED BY <1>2, <2>1 DEF Erc20!Settleable
<1> QED BY <1>1, <1>2, <1>3, <1>4, <1>5

\* stake: the record of a first stake is as of now, another one is settled.
LEMMA StakeTimes20 ==
  ASSUME Times20Inv, NEW u \in User, NEW k \in StakeAmounts, Erc20!Stake(u, k),
         contract = "Staking20", UNCHANGED contract
  PROVE  Times20Inv'
<1> DEFINE c == Conditions20
           r == stakers20[u]
           first == r.amount = 0
           staker == IF first THEN Erc20!Marked(r) ELSE Erc20!Settled(u)
           w == IF first THEN r.unclaimed ELSE Claimable20(c, r, now)
           g == Received[k]
           s == [staker EXCEPT !.amount = @ + g]
<1>1. /\ UNCHANGED <<now, conditions20, owed20>> /\ (first \/ Erc20!Settleable(u))
      /\ stakers20' = [stakers20 EXCEPT ![u] = s]
  BY DEF Erc20!Stake, Erc20!ActualAmount
<1>2. /\ Chained(c, now) /\ r \in StakerType /\ r.amount \in Nat /\ r.unclaimed \in 0..UINT_MAX
      /\ Recorded(c, r, now) /\ g \in Nat
  BY SettledRecord20, Constants20
<1>3. w \in 0..UINT_MAX /\ staker = MarkedAt(c, [r EXCEPT !.unclaimed = w], now)
  <2>1. CASE first
    <3>1. [r EXCEPT !.unclaimed = r.unclaimed] = r
      BY <1>2 DEF StakerType
    <3> QED BY <1>2, <2>1, <3>1, Meanings20
  <2>2. CASE ~first
    <3>1. Erc20!Settleable(u)
      BY <1>1, <2>2
    <3> QED BY <2>2, <3>1, SettledRecord20
  <2> QED BY <2>1, <2>2
<1> HIDE DEF g
<1>4. staker.amount = r.amount
  <2> HIDE DEF w, staker
  <2> QED BY <1>2, <1>3 DEF MarkedAt, StakerType
<1>5. s = [MarkedAt(c, [r EXCEPT !.unclaimed = w], now) EXCEPT !.amount = r.amount + g]
      /\ r.amount + g \in Nat
  BY <1>2, <1>3, <1>4
<1>6. s \in StakerType /\ s.time = now /\ s.conditionId = Len(c) - 1 /\ s.unclaimed = w
  <2> HIDE DEF w, staker, s, c, r
  <2> QED BY <1>2, <1>3, <1>5, MarkedFields
<1>7. s.unclaimed \in {r.unclaimed, Claimable20(c, r, now)}
  <2>1. w \in {r.unclaimed, Claimable20(c, r, now)}
    OBVIOUS
  <2> HIDE DEF w, s
  <2> QED BY <1>6, <2>1
<1> HIDE DEF s, w, staker, first
<1> QED BY <1>1, <1>6, <1>7, SettledStep20

\* withdraw: the record is settled.
LEMMA WithdrawTimes20 ==
  ASSUME Times20Inv, NEW u \in User, NEW k \in Nat, Erc20!Withdraw(u, k),
         contract = "Staking20", UNCHANGED contract
  PROVE  Times20Inv'
<1> DEFINE c == Conditions20
           r == stakers20[u]
           w == Claimable20(c, r, now)
           s == [Erc20!Settled(u) EXCEPT !.amount = @ - k]
<1>1. /\ UNCHANGED <<now, conditions20, owed20>> /\ Erc20!Settleable(u) /\ k <= r.amount
      /\ stakers20' = [stakers20 EXCEPT ![u] = s]
  BY DEF Erc20!Withdraw
<1>2. /\ Chained(c, now) /\ Recorded(c, r, now) /\ r \in StakerType /\ r.amount \in Nat
      /\ w \in 0..UINT_MAX
      /\ Erc20!Settled(u) = MarkedAt(c, [r EXCEPT !.unclaimed = w], now)
  BY <1>1, SettledRecord20
<1> HIDE DEF w
<1>3. Erc20!Settled(u).amount = r.amount
  BY <1>2 DEF MarkedAt, StakerType
<1>4. s = [MarkedAt(c, [r EXCEPT !.unclaimed = w], now) EXCEPT !.amount = r.amount - k]
      /\ r.amount - k \in Nat
  BY <1>1, <1>2, <1>3
<1>5. s \in StakerType /\ s.time = now /\ s.conditionId = Len(c) - 1 /\ s.unclaimed = w
  <2> HIDE DEF s, c, r
  <2> QED BY <1>2, <1>4, MarkedFields
<1>6. s.unclaimed \in {r.unclaimed, Claimable20(c, r, now)}
  BY <1>5 DEF w
<1> HIDE DEF s
<1> QED BY <1>1, <1>5, <1>6, SettledStep20

\* claimRewards: what is paid is taken from the account.
LEMMA ClaimTimes20 ==
  ASSUME Times20Inv, NEW u \in User, Erc20!ClaimRewards(u),
         contract = "Staking20", UNCHANGED contract
  PROVE  Times20Inv'
<1> DEFINE c == Conditions20
           r == stakers20[u]
           x == Claimable20(c, r, now)
           s == Erc20!Marked([r EXCEPT !.unclaimed = 0])
           o == owed20[u]
<1>1. /\ Chained(c, now) /\ Recorded(c, r, now) /\ r \in StakerType /\ r.amount \in Nat
      /\ x = r.unclaimed + Erc20!CalculateRewards(u)
  BY SettledRecord20
<1>2. Covered20(c, r, now, o) /\ owed20 \in [User -> Nat] /\ stakers20 \in [User -> StakerType]
  BY DEF Times20Inv
<1>3. /\ UNCHANGED <<now, conditions20>>
      /\ stakers20' = [stakers20 EXCEPT ![u] = s]
      /\ owed20' = [owed20 EXCEPT ![u] = o - SCALE * STAKING_UNIT * x]
  BY <1>1, <1>2 DEF Erc20!ClaimRewards
<1>4. s = [MarkedAt(c, [r EXCEPT !.unclaimed = 0], now) EXCEPT !.amount = r.amount]
  <2>1. s = MarkedAt(c, [r EXCEPT !.unclaimed = 0], now)
    BY Meanings20
  <2> HIDE DEF s
  <2> QED BY <1>1, <2>1 DEF MarkedAt, StakerType
<1>5. s \in StakerType /\ s.time = now /\ s.conditionId = Len(c) - 1 /\ s.unclaimed = 0
  <2>1. 0 \in 0..UINT_MAX
    BY Constants20
  <2> HIDE DEF s, c, r
  <2> QED BY <1>1, <1>4, <2>1, MarkedFields
<1>6. Covered20(c, s, now, o - SCALE * STAKING_UNIT * x)
  <2> HIDE DEF s, c, r, o, x
  <2> QED BY <1>1, <1>2, <1>5, CoveredPaid20 DEF x
<1> HIDE DEF s
<1> QED BY <1>3, <1>6, RecordStep20

\* A condition that ends.
LEMMA EndedCondition ==
  ASSUME NEW c \in Condition20, NEW n \in Nat
  PROVE  LET e == [c EXCEPT !.endTimestamp = n] IN
         e \in Condition20 /\ Single(e) = [Single(c) EXCEPT !.endTimestamp = n]
<1> DEFINE e == [c EXCEPT !.endTimestamp = n]
<1>1. PICK d \in Units20, ratio \in Ratios20, from \in Nat, to \in Nat :
        c = [timeUnit |-> d, numerator |-> ratio[1], denominator |-> ratio[2],
             startTimestamp |-> from, endTimestamp |-> to]
  BY DEF Condition20
<1>2. e = [timeUnit |-> d, numerator |-> ratio[1], denominator |-> ratio[2],
           startTimestamp |-> from, endTimestamp |-> n]
  BY <1>1
<1>3. e \in Condition20
  BY <1>2 DEF Condition20
<1> HIDE DEF e
<1>4. /\ e.timeUnit = c.timeUnit /\ e.numerator = c.numerator /\ e.denominator = c.denominator
      /\ e.startTimestamp = c.startTimestamp /\ e.endTimestamp = n
  BY <1>1, <1>2
<1> DEFINE p == c.timeUnit * c.denominator
<1>5. /\ Single(c) = [timeUnit |-> p, rewardsPerUnitTime |-> c.numerator,
                      startTimestamp |-> c.startTimestamp, endTimestamp |-> c.endTimestamp]
      /\ Single(e) = [timeUnit |-> p, rewardsPerUnitTime |-> c.numerator,
                      startTimestamp |-> c.startTimestamp, endTimestamp |-> n]
  BY <1>4, Zenon DEF Single
<1> HIDE DEF p
<1>6. Single(e) = [Single(c) EXCEPT !.endTimestamp = n]
  BY <1>5
<1> QED BY <1>3, <1>6 DEF e

\* The list that another condition follows.
LEMMA Followed20 ==
  ASSUME Times20Inv, NEW d \in Units20, NEW ratio \in Ratios20,
         conditions20' = Append([conditions20 EXCEPT ![Len(conditions20)].endTimestamp = now],
                                Erc20!NewCondition(d, ratio))
  PROVE  /\ conditions20' \in Seq(Condition20)
         /\ Conditions20' = Followed(Conditions20, now, d * ratio[2], ratio[1])
<1> DEFINE m == Len(conditions20)
           e == [conditions20[m] EXCEPT !.endTimestamp = now]
           s == [conditions20 EXCEPT ![m] = e]
           new == Erc20!NewCondition(d, ratio)
           x == [timeUnit |-> d * ratio[2], rewardsPerUnitTime |-> ratio[1],
                 startTimestamp |-> now, endTimestamp |-> 0]
           C == Conditions20
           f == Followed(C, now, d * ratio[2], ratio[1])
<1>1. /\ m \in Nat \ {0} /\ Len(C) = m /\ conditions20 \in Seq(Condition20)
      /\ \A i \in 1..m : conditions20[i] \in Condition20 /\ C[i] = Single(conditions20[i])
      /\ Chained(C, now) /\ now \in Nat \ {0}
  BY Conditions20Facts, ChainedFacts DEF Times20Inv
<1>2. new \in Condition20 /\ Single(new) = x
  BY <1>1, NewCondition20
<1>3. e \in Condition20 /\ Single(e) = [C[m] EXCEPT !.endTimestamp = now]
  <2>1. m \in 1..m /\ conditions20[m] \in Condition20
    BY <1>1
  <2> HIDE DEF m, C
  <2> QED BY <1>1, <2>1, EndedCondition
<1>4. conditions20' = Append(s, new)
  OBVIOUS
<1> HIDE DEF e, new
<1>5. s \in Seq(Condition20) /\ Len(s) = m
      /\ \A i \in 1..m : s[i] = IF i = m THEN e ELSE conditions20[i]
  <2> HIDE DEF m
  <2> QED BY <1>1, <1>3 DEF m
<1> HIDE DEF s
<1>6. /\ conditions20' \in Seq(Condition20) /\ Len(conditions20') = m + 1
      /\ conditions20'[m + 1] = new /\ \A i \in 1..m : conditions20'[i] = s[i]
  <2> DEFINE t == Append(s, new)
  <2> HIDE DEF m
  <2>1. /\ t \in Seq(Condition20) /\ Len(t) = m + 1
        /\ t[m + 1] = new /\ \A i \in 1..m : t[i] = s[i]
    BY <1>1, <1>2, <1>5
  <2> QED BY <1>4, <2>1
<1>7. d * ratio[2] \in Divisors /\ ratio[1] \in Nat
  BY DivisorsTwice
<1>8. f \in Seq(ConditionType(now)) /\ Len(f) = m + 1
      /\ \A i \in 1..m : f[i] = IF i = m THEN [C[i] EXCEPT !.endTimestamp = now] ELSE C[i]
  <2> HIDE DEF C, f
  <2> QED BY <1>1, <1>7, FollowedList DEF f
<1>9. f[m + 1] = x
  <2> DEFINE a == [C EXCEPT ![Len(C)].endTimestamp = now]
  <2>1. f = Append(a, x) /\ Len(a) = m /\ a = [i \in 1..m |-> a[i]]
    <3>1. C = [i \in 1..m |-> C[i]] /\ Len(C) = m
      BY <1>1 DEF Conditions20
    <3> HIDE DEF C, x
    <3>2. a = [i \in 1..m |-> a[i]]
      BY <1>1, <3>1
    <3>3. Len(a) = m
      <4> HIDE DEF a, m
      <4> QED BY <1>1, <3>2
    <3> QED BY <3>2, <3>3 DEF Followed, x
  <2> HIDE DEF a, f, x, m
  <2> QED BY <1>1, <2>1
<1> HIDE DEF x, f, C
<1>10. \A i \in 1..(m + 1) : f[i] = Single(conditions20'[i])
  <2> TAKE i \in 1..(m + 1)
  <2>1. CASE i = m + 1
    BY <1>2, <1>6, <1>9, <2>1
  <2>2. CASE i = m
    BY <1>1, <1>3, <1>5, <1>6, <1>8, <2>2
  <2>3. CASE i # m /\ i # m + 1
    <3>1. i \in 1..m
      BY <1>1, <2>3
    <3> QED BY <1>1, <1>5, <1>6, <1>8, <2>3, <3>1
  <2> QED BY <2>1, <2>2, <2>3
<1>11. Conditions20' = [i \in 1..(m + 1) |-> f[i]]
  <2>1. Conditions20' = [i \in 1..(m + 1) |-> Single(conditions20'[i])]
    BY <1>6 DEF Conditions20
  <2> QED BY <1>10, <2>1, Zenon
<1>12. f = [i \in 1..(m + 1) |-> f[i]]
  <2> HIDE DEF m
  <2> QED BY <1>8
<1> QED BY <1>6, <1>11, <1>12 DEF f, C

\* setTimeUnit and setRewardRatio: the list is superseded.
LEMMA ConditionTimes20 ==
  ASSUME Times20Inv, Erc20!ConditionNext, UNCHANGED contract
  PROVE  Times20Inv'
<1> DEFINE m == Len(conditions20)
           c == conditions20[m]
<1>1. m \in Nat \ {0} /\ c \in Condition20 /\ Erc20!Last(conditions20) = c
  <2>1. m \in 1..m
    BY Conditions20Facts
  <2> QED BY <2>1, Conditions20Facts, SameOperators DEF Last
<1>2. c.timeUnit \in Units20 /\ <<c.numerator, c.denominator>> \in Ratios20
  BY <1>1, Condition20Facts
<1>3. PICK d, ratio :
        /\ Erc20!SetStakingCondition(d, ratio)
        /\ d \in TimeUnits \/ d = c.timeUnit
        /\ ratio \in Ratios \/ ratio = <<c.numerator, c.denominator>>
  BY <1>1, Zenon DEF Erc20!ConditionNext, Erc20!SetTimeUnit, Erc20!SetRewardRatio
<1>4. /\ d # 0 /\ ratio[2] # 0
      /\ conditions20' = Append([conditions20 EXCEPT ![m].endTimestamp = now],
                                Erc20!NewCondition(d, ratio))
  BY <1>3 DEF Erc20!SetStakingCondition
<1>5. d \in Units20 /\ ratio \in Ratios20
  <2> HIDE DEF c
  <2> QED BY <1>2, <1>3, <1>4 DEF Units20, Ratios20
<1> DEFINE f == Followed(Conditions20, now, d * ratio[2], ratio[1])
<1>6. conditions20' \in Seq(Condition20) /\ Conditions20' = f
  BY <1>4, <1>5, Followed20
<1>7. d * ratio[2] \in Divisors /\ ratio[1] \in Nat
  BY <1>5, DivisorsTwice
<1>8. /\ Chained(Conditions20, now) /\ stakers20 \in [User -> StakerType]
      /\ owed20 \in [User -> Nat]
      /\ \A u \in User : Covered20(Conditions20, stakers20[u], now, owed20[u])
      /\ contract = "Staking1155" => \A u \in User : stakers20[u].amount = 0
      /\ UNCHANGED <<now, contract, stakers20, owed20>>
  BY DEF Times20Inv, Erc20!ConditionNext
<1>9. Chained(f, now) /\ \A u \in User : Covered20(f, stakers20[u], now, owed20[u])
  BY <1>7, <1>8, FollowedChained, CoveredFollowed20
<1> HIDE DEF f
<1> QED BY <1>6, <1>8, <1>9 DEF Times20Inv

\* Every step keeps the list, records and accounts in order.
LEMMA Times20Step == Times20Inv /\ [Next]_vars => Times20Inv'
<1>1. SUFFICES ASSUME Times20Inv, [Next]_vars PROVE Times20Inv'
  OBVIOUS
<1>2. CASE UNCHANGED vars
  BY <1>1, <1>2, StillStep20 DEF vars, Only20
<1>3. CASE contract = "Staking1155" /\ Next1155 /\ UNCHANGED Only20 /\ UNCHANGED contract
  BY <1>1, <1>3, IdleTimes20
<1>4. CASE contract = "Staking20" /\ Erc20!Next20 /\ UNCHANGED contract
  <2>1. CASE Erc20!Tick
    BY <1>1, <1>4, <2>1, ClockStep20 DEF Erc20!Tick
  <2>2. CASE \E u \in User : Erc20!StakerNext(u)
    <3>1. PICK u \in User : Erc20!StakerNext(u)
      BY <2>2
    <3>2. CASE \E k \in StakeAmounts :
                 Erc20!Stake(u, k) \/ Erc20!Withdraw(u, k) \/ Erc20!SendStakingTokens(u, k)
      <4>1. PICK k \in StakeAmounts :
              Erc20!Stake(u, k) \/ Erc20!Withdraw(u, k) \/ Erc20!SendStakingTokens(u, k)
        BY <3>2
      <4>2. k \in Nat
        BY Constants20
      <4>3. CASE Erc20!Stake(u, k)
        BY <1>1, <1>4, <4>3, StakeTimes20
      <4>4. CASE Erc20!Withdraw(u, k)
        BY <1>1, <1>4, <4>2, <4>4, WithdrawTimes20
      <4>5. CASE Erc20!SendStakingTokens(u, k)
        BY <1>1, <1>4, <4>5, StillStep20 DEF Erc20!SendStakingTokens
      <4> QED BY <4>1, <4>3, <4>4, <4>5
    <3>3. CASE Erc20!ClaimRewards(u)
      BY <1>1, <1>4, <3>3, ClaimTimes20
    <3> QED BY <3>1, <3>2, <3>3 DEF Erc20!StakerNext
  <2>3. CASE Erc20!ConditionNext
    BY <1>1, <1>4, <2>3, ConditionTimes20
  <2>4. CASE Erc20!RewardsNext
    BY <1>1, <1>4, <2>4, StillStep20 DEF Erc20!RewardsNext
  <2> QED BY <1>4, <2>1, <2>2, <2>3, <2>4 DEF Erc20!Next20
<1> QED BY <1>1, <1>2, <1>3, <1>4 DEF Next

\* What the view of Staking20 reports is covered.
LEMMA NotOverpaid20 == Times20Inv => Erc20!PaidByTheSecond
<1>1. SUFFICES ASSUME Times20Inv, NEW u \in User
               PROVE  SCALE * STAKING_UNIT * Erc20!AvailableRewards(u) <= owed20[u]
  BY DEF Erc20!PaidByTheSecond
<1> DEFINE c == Conditions20
           r == stakers20[u]
           o == owed20[u]
           K == SCALE * STAKING_UNIT
           e == REWARD_UNIT * Earned(c, r, now)
           y == K * r.unclaimed
           z == K * Claimable20(c, r, now)
<1>2. Chained(c, now) /\ Recorded(c, r, now) /\ o \in Nat /\ y + e <= o
  BY <1>1 DEF Times20Inv, Covered20
<1>3. e \in Nat /\ y \in Nat /\ z \in Nat /\ z <= y + e
  BY <1>2, Scaled20
<1>4. Erc20!AvailableRewards(u) \in {r.unclaimed, Claimable20(c, r, now)}
  BY <1>1, SettledRecord20 DEF Erc20!AvailableRewards
<1>5. K * Erc20!AvailableRewards(u) = y \/ K * Erc20!AvailableRewards(u) = z
  <2>1. \/ Erc20!AvailableRewards(u) = r.unclaimed
        \/ Erc20!AvailableRewards(u) = Claimable20(c, r, now)
    BY <1>4
  <2> QED BY <2>1, Zenon
<1> HIDE DEF o, e, y, z, K
<1>6. y <= o /\ z <= o
  BY <1>2, <1>3
<1>7. K * Erc20!AvailableRewards(u) <= o
  BY <1>5, <1>6
<1> QED BY <1>7 DEF o, K

\* No second is paid twice or at a rate that was not in force, for the id or
\* for the token: at any moment, what a staker may claim from Staking1155 is
\* at most the sum, over the seconds since its first stake, of what its amount
\* earned by the condition the id had in that second, less what it was paid;
\* and so it is with Staking20, whose ratios are converted between the
\* decimals of its two tokens.
THEOREM NonePaidTwice == Spec => []RewardsEarned
<1>1. TimesInv /\ [Next]_vars => TimesInv'
  BY TimesStep
<1>2. TimesInv /\ Times20Inv => RewardsEarned
  BY NotOverpaid, NotOverpaid20 DEF RewardsEarned
<1> QED BY <1>1, <1>2, TimesInit, Times20Init, Times20Step, PTL DEF Spec, vars
-----------------------------------------------------------------------------
(* The stakes of Staking20 *)

Staked20 == [u \in User |-> stakers20[u].amount]

\* Each staker is listed once, and the contract holds the stakes it counts.
Records20Inv ==
  /\ stakersArray20 \in Seq(User) /\ IsInjective(stakersArray20)
  /\ ToSet(stakersArray20) = {u \in User : stakers20[u].amount > 0}
  /\ stakingTokenBalance = SumOver(Staked20, User)
  /\ heldStakes \in Nat /\ stakingTokenBalance <= heldStakes

\* There are no stakers when the contract is created.
LEMMA Records20Init == Init => Records20Inv
<1>1. SUFFICES ASSUME Init PROVE Records20Inv
  OBVIOUS
<1>2. /\ stakersArray20 = <<>> /\ stakingTokenBalance = 0 /\ heldStakes = 0
      /\ stakers20 = [u \in User |-> NewStaker]
  BY <1>1 DEF Init, Erc20!Init20, NewStaker
<1>3. \A u \in User : stakers20[u].amount = 0
  BY <1>2 DEF NewStaker
<1>4. IsInjective(<<>>) /\ ToSet(<<>>) = {} /\ <<>> \in Seq(User)
  BY DEF IsInjective, ToSet
<1>5. {u \in User : stakers20[u].amount > 0} = {}
  BY <1>3
<1>6. SumOver(Staked20, User) = 0
  <2>1. Staked20 \in [User -> Nat] /\ \A u \in User : Staked20[u] = 0
    BY <1>3 DEF Staked20
  <2> QED BY <2>1, SumZero
<1> QED BY <1>2, <1>4, <1>5, <1>6 DEF Records20Inv

\* The stakes and the list before a step.
LEMMA Records20Facts ==
  ASSUME Times20Inv, Records20Inv, NEW u \in User
  PROVE  /\ Staked20 \in [User -> Nat] /\ stakers20[u].amount \in Nat
         /\ stakingTokenBalance \in Nat /\ heldStakes \in Nat /\ stakingTokenBalance <= heldStakes
         /\ stakers20[u].amount <= stakingTokenBalance
         /\ stakersArray20 \in Seq(User) /\ IsInjective(stakersArray20)
         /\ u \in ToSet(stakersArray20) <=> stakers20[u].amount > 0
<1>1. stakers20 \in [User -> StakerType] /\ IsFiniteSet(User)
  BY Constants20 DEF Times20Inv
<1>2. Staked20 \in [User -> Nat] /\ stakers20[u].amount \in Nat
      /\ Staked20[u] = stakers20[u].amount
  BY <1>1 DEF StakerType, Staked20
<1>3. SumOver(Staked20, User) \in Nat
  BY <1>1, <1>2, UnitsFinite
<1>4. SumOver(Staked20, User) = Staked20[u] + SumOver(Staked20, User \ {u})
      /\ SumOver(Staked20, User \ {u}) \in Nat
  BY <1>1, <1>2, SumSplit
<1>5. stakers20[u].amount <= SumOver(Staked20, User)
  <2> DEFINE a == stakers20[u].amount
             b == SumOver(Staked20, User \ {u})
             x == SumOver(Staked20, User)
  <2>1. a \in Nat /\ b \in Nat /\ x = a + b
    BY <1>2, <1>4
  <2> HIDE DEF a, b, x
  <2>2. a <= x
    BY <2>1
  <2> QED BY <2>2 DEF a, x
<1> QED BY <1>2, <1>3, <1>5 DEF Records20Inv

\* What one staker adds to a sum over all.
LEMMA UserSum ==
  ASSUME NEW f \in [User -> Nat], NEW g \in [User -> Nat], NEW u \in User,
         \A v \in User \ {u} : g[v] = f[v]
  PROVE  SumOver(g, User) = SumOver(f, User) - f[u] + g[u]
BY Constants20, SumUpdate

\* One record and the list change, and the count of the stakes with them.
LEMMA Records20Change ==
  ASSUME Times20Inv, Records20Inv, NEW u \in User, NEW s, NEW l \in Seq(User),
         IsInjective(l), s.amount \in Nat,
         ToSet(l) = IF s.amount > 0 THEN ToSet(stakersArray20) \cup {u}
                                    ELSE ToSet(stakersArray20) \ {u},
         stakers20' = [stakers20 EXCEPT ![u] = s], stakersArray20' = l,
         stakingTokenBalance' = (stakingTokenBalance - stakers20[u].amount) + s.amount,
         heldStakes' \in Nat, stakingTokenBalance' <= heldStakes'
  PROVE  Records20Inv'
<1> DEFINE f == Staked20
           g == [v \in User |-> stakers20'[v].amount]
<1>1. /\ stakers20 \in [User -> StakerType] /\ f \in [User -> Nat]
      /\ stakingTokenBalance = SumOver(f, User)
      /\ ToSet(stakersArray20) = {v \in User : stakers20[v].amount > 0}
  BY Records20Facts DEF Records20Inv, Times20Inv
<1>2. /\ stakers20'[u] = s
      /\ \A v \in User \ {u} : stakers20'[v] = stakers20[v]
  BY <1>1
<1>3. g \in [User -> Nat]
  <2>1. \A v \in User : stakers20'[v].amount \in Nat
    BY <1>1, <1>2 DEF StakerType
  <2> QED BY <2>1
<1>4. g[u] = s.amount /\ f[u] = stakers20[u].amount /\ \A v \in User \ {u} : g[v] = f[v]
  BY <1>2 DEF Staked20
<1>5. SumOver(g, User) = SumOver(f, User) - f[u] + g[u]
  <2> HIDE DEF f, g
  <2> QED BY <1>1, <1>3, <1>4, UserSum
<1>6. stakingTokenBalance' = SumOver(g, User)
  <2> HIDE DEF f, g
  <2> QED BY <1>1, <1>4, <1>5
<1>7. SumOver(Staked20, User)' = SumOver(g, User)
  BY DEF Staked20
<1>8. ToSet(l) = {v \in User : stakers20'[v].amount > 0}
  BY <1>1, <1>2
<1>9. (ToSet(stakersArray20) = {v \in User : stakers20[v].amount > 0})'
  BY <1>8 DEF ToSet
<1>10. IsInjective(stakersArray20)'
  BY DEF IsInjective
<1> HIDE DEF g
<1> QED BY <1>6, <1>7, <1>9, <1>10 DEF Records20Inv

\* A settlement keeps the amount.
LEMMA KeptAmount20 ==
  ASSUME Times20Inv, NEW u \in User
  PROVE  LET r == stakers20[u] IN
         /\ Erc20!Marked(r).amount = r.amount /\ "amount" \in DOMAIN Erc20!Marked(r)
         /\ Erc20!Settled(u).amount = r.amount /\ "amount" \in DOMAIN Erc20!Settled(u)
         /\ Erc20!Marked([r EXCEPT !.unclaimed = 0]).amount = r.amount
<1>1. stakers20[u] \in StakerType
  BY DEF Times20Inv
<1> QED BY <1>1 DEF Erc20!Marked, Erc20!Settled, StakerType

\* stake: a first stake is listed, and what arrives is counted.
LEMMA StakeRecords20 ==
  ASSUME Times20Inv, Records20Inv, NEW u \in User, NEW k \in StakeAmounts, Erc20!Stake(u, k)
  PROVE  Records20Inv'
<1> DEFINE a == stakers20[u].amount
           first == a = 0
           staker == IF first THEN Erc20!Marked(stakers20[u]) ELSE Erc20!Settled(u)
           g == Received[k]
           s == [staker EXCEPT !.amount = @ + g]
           l == IF first THEN Append(stakersArray20, u) ELSE stakersArray20
<1>1. /\ k # 0 /\ stakers20' = [stakers20 EXCEPT ![u] = s] /\ stakersArray20' = l
      /\ stakingTokenBalance' = stakingTokenBalance + g /\ heldStakes' = heldStakes + g
  BY DEF Erc20!Stake, Erc20!ActualAmount
<1>2. /\ stakersArray20 \in Seq(User) /\ IsInjective(stakersArray20)
      /\ u \in ToSet(stakersArray20) <=> a > 0
      /\ a \in Nat /\ stakingTokenBalance \in Nat /\ heldStakes \in Nat
      /\ stakingTokenBalance <= heldStakes
  BY Records20Facts
<1>3. g \in Nat /\ g # 0
  BY <1>1, Constants20
<1> HIDE DEF g
<1>4. s.amount = a + g
  <2>1. staker.amount = a /\ "amount" \in DOMAIN staker
    BY KeptAmount20
  <2> HIDE DEF staker, a
  <2> QED BY <2>1
<1>5. /\ s.amount \in Nat /\ s.amount > 0 /\ heldStakes' \in Nat
      /\ stakingTokenBalance' = (stakingTokenBalance - a) + s.amount
      /\ stakingTokenBalance' <= heldStakes'
  <2> HIDE DEF s, a, l
  <2> QED BY <1>1, <1>2, <1>3, <1>4
<1>6. l \in Seq(User) /\ IsInjective(l) /\ ToSet(l) = ToSet(stakersArray20) \cup {u}
  <2>1. CASE first
    <3>1. u \notin ToSet(stakersArray20)
      BY <1>2, <2>1
    <3> QED BY <1>2, <2>1, <3>1, PushInjective, AppendSet
  <2>2. CASE ~first
    <3>1. u \in ToSet(stakersArray20)
      BY <1>2, <2>2
    <3> QED BY <1>2, <2>2, <3>1
  <2> QED BY <2>1, <2>2
<1>7. ToSet(l) = IF s.amount > 0 THEN ToSet(stakersArray20) \cup {u}
                                 ELSE ToSet(stakersArray20) \ {u}
  BY <1>5, <1>6
<1> HIDE DEF s, l
<1> QED BY <1>1, <1>5, <1>6, <1>7, Records20Change

\* withdraw: who withdraws all is taken off the list.
LEMMA WithdrawRecords20 ==
  ASSUME Times20Inv, Records20Inv, NEW u \in User, NEW k \in Nat, Erc20!Withdraw(u, k)
  PROVE  Records20Inv'
<1> DEFINE a == stakers20[u].amount
           all == k = a
           s == [Erc20!Settled(u) EXCEPT !.amount = @ - k]
           l == IF all THEN SwapPop(stakersArray20, u) ELSE stakersArray20
<1>1. /\ k # 0 /\ k <= a /\ k <= heldStakes
      /\ stakers20' = [stakers20 EXCEPT ![u] = s] /\ stakersArray20' = l
      /\ stakingTokenBalance' = stakingTokenBalance - k /\ heldStakes' = heldStakes - k
  BY SameOperators DEF Erc20!Withdraw
<1>2. /\ stakersArray20 \in Seq(User) /\ IsInjective(stakersArray20)
      /\ u \in ToSet(stakersArray20) <=> a > 0
      /\ a \in Nat /\ stakingTokenBalance \in Nat /\ heldStakes \in Nat
      /\ stakingTokenBalance <= heldStakes
  BY Records20Facts
<1>3. s.amount = a - k
  <2>1. Erc20!Settled(u).amount = a /\ "amount" \in DOMAIN Erc20!Settled(u)
    BY KeptAmount20
  <2> HIDE DEF a
  <2> QED BY <2>1
<1>4. /\ s.amount \in Nat /\ (s.amount > 0 <=> ~all) /\ heldStakes' \in Nat
      /\ stakingTokenBalance' = (stakingTokenBalance - a) + s.amount
      /\ stakingTokenBalance' <= heldStakes'
  <2> HIDE DEF s, a, l
  <2> QED BY <1>1, <1>2, <1>3
<1>5. u \in ToSet(stakersArray20)
  <2> HIDE DEF a, s, l
  <2> QED BY <1>1, <1>2
<1>6. l \in Seq(User) /\ IsInjective(l)
      /\ ToSet(l) = IF all THEN ToSet(stakersArray20) \ {u} ELSE ToSet(stakersArray20) \cup {u}
  <2>1. CASE all
    BY <1>2, <1>5, <2>1, SwapPopSet
  <2>2. CASE ~all
    BY <1>2, <1>5, <2>2
  <2> QED BY <2>1, <2>2
<1>7. ToSet(l) = IF s.amount > 0 THEN ToSet(stakersArray20) \cup {u}
                                 ELSE ToSet(stakersArray20) \ {u}
  <2> HIDE DEF s, l, all
  <2> QED BY <1>4, <1>6
<1> HIDE DEF s, l
<1> QED BY <1>1, <1>4, <1>6, <1>7, Records20Change

\* claimRewards leaves the stake alone.
LEMMA ClaimRecords20 ==
  ASSUME Times20Inv, Records20Inv, NEW u \in User, Erc20!ClaimRewards(u)
  PROVE  Records20Inv'
<1> DEFINE a == stakers20[u].amount
           s == Erc20!Marked([stakers20[u] EXCEPT !.unclaimed = 0])
           l == stakersArray20
<1>1. /\ stakers20' = [stakers20 EXCEPT ![u] = s]
      /\ UNCHANGED <<stakersArray20, stakingTokenBalance, heldStakes>>
  BY DEF Erc20!ClaimRewards, Erc20!stakeVars
<1>2. /\ l \in Seq(User) /\ IsInjective(l) /\ (u \in ToSet(l) <=> a > 0)
      /\ a \in Nat /\ stakingTokenBalance \in Nat /\ heldStakes \in Nat
      /\ stakingTokenBalance <= heldStakes /\ s.amount = a
  BY Records20Facts, KeptAmount20
<1>3. ToSet(l) = IF s.amount > 0 THEN ToSet(stakersArray20) \cup {u}
                                 ELSE ToSet(stakersArray20) \ {u}
  <2> HIDE DEF s
  <2> QED BY <1>2
<1>4. /\ s.amount \in Nat /\ heldStakes' \in Nat
      /\ stakingTokenBalance' = (stakingTokenBalance - a) + s.amount
      /\ stakingTokenBalance' <= heldStakes'
  <2> HIDE DEF s, a
  <2> QED BY <1>1, <1>2
<1> HIDE DEF s
<1> QED BY <1>1, <1>2, <1>3, <1>4, Records20Change

\* Only the balance changes, by what arrives.
LEMMA HeldStep20 ==
  ASSUME Records20Inv, Times20Inv, NEW g \in Nat, heldStakes' = heldStakes + g,
         UNCHANGED <<stakingTokenBalance, stakersArray20, stakers20>>
  PROVE  Records20Inv'
<1>1. SumOver(Staked20, User)' = SumOver(Staked20, User)
  BY DEF Staked20, SumOver, Units
<1>2. SumOver(Staked20, User) \in Nat
  <2>1. Staked20 \in [User -> Nat] /\ IsFiniteSet(User)
    BY Constants20 DEF Staked20, Times20Inv, StakerType
  <2> QED BY <2>1, UnitsFinite
<1>3. heldStakes' \in Nat /\ stakingTokenBalance' <= heldStakes'
  BY <1>2 DEF Records20Inv
<1> QED BY <1>1, <1>3 DEF Records20Inv, IsInjective, ToSet

\* Every step keeps the list of stakers and the stakes.
LEMMA Records20Step == Times20Inv /\ Records20Inv /\ [Next]_vars => Records20Inv'
<1>1. SUFFICES ASSUME Times20Inv, Records20Inv, [Next]_vars PROVE Records20Inv'
  OBVIOUS
<1>2. ASSUME UNCHANGED <<stakingTokenBalance, stakersArray20, stakers20, heldStakes>>
      PROVE  Records20Inv'
  <2>1. heldStakes' = heldStakes + 0
    BY <1>1, <1>2 DEF Records20Inv
  <2> QED BY <1>1, <1>2, <2>1, HeldStep20
<1>3. CASE UNCHANGED vars \/ UNCHANGED Only20
  BY <1>2, <1>3 DEF vars, Only20
<1>4. CASE Erc20!Next20
  <2>1. CASE Erc20!Tick \/ Erc20!ConditionNext \/ Erc20!RewardsNext
    BY <1>2, <2>1 DEF Erc20!Tick, Erc20!ConditionNext, Erc20!RewardsNext, Erc20!stakeVars
  <2>2. CASE \E u \in User : Erc20!StakerNext(u)
    <3>1. PICK u \in User : Erc20!StakerNext(u)
      BY <2>2
    <3>2. CASE \E k \in StakeAmounts :
                 Erc20!Stake(u, k) \/ Erc20!Withdraw(u, k) \/ Erc20!SendStakingTokens(u, k)
      <4>1. PICK k \in StakeAmounts :
              Erc20!Stake(u, k) \/ Erc20!Withdraw(u, k) \/ Erc20!SendStakingTokens(u, k)
        BY <3>2
      <4>2. k \in Nat /\ Received[k] \in Nat
        BY Constants20
      <4>3. CASE Erc20!Stake(u, k)
        BY <1>1, <4>3, StakeRecords20
      <4>4. CASE Erc20!Withdraw(u, k)
        BY <1>1, <4>2, <4>4, WithdrawRecords20
      <4>5. CASE Erc20!SendStakingTokens(u, k)
        BY <1>1, <4>2, <4>5, HeldStep20 DEF Erc20!SendStakingTokens
      <4> QED BY <4>1, <4>3, <4>4, <4>5
    <3>3. CASE Erc20!ClaimRewards(u)
      BY <1>1, <3>3, ClaimRecords20
    <3> QED BY <3>1, <3>2, <3>3 DEF Erc20!StakerNext
  <2> QED BY <1>4, <2>1, <2>2 DEF Erc20!Next20
<1> QED BY <1>1, <1>3, <1>4 DEF Next

\* The list has its stakers, their records are in range of the conditions and
\* not ahead of one, and the stakes are held.
LEMMA Records20InOrder == Times20Inv /\ Records20Inv => Erc20!RecordsAgree
<1>1. SUFFICES ASSUME Times20Inv, Records20Inv PROVE Erc20!RecordsAgree
  OBVIOUS
<1>2. ASSUME NEW u \in User
      PROVE  /\ stakers20[u].conditionId <= Erc20!Current
             /\ \A i \in stakers20[u].conditionId..Erc20!Current : Erc20!Seconds(u, i) >= 0
  <2> DEFINE c == Conditions20
             r == stakers20[u]
             m == Len(c)
  <2>1. Chained(c, now) /\ Recorded(c, r, now) /\ Erc20!Current = m - 1
    BY <1>1, Meanings20 DEF Times20Inv, Covered20
  <2>2. r.conditionId \in 0..(m - 1) /\ m \in Nat
    BY <2>1, RecordedFacts, ChainedFacts
  <2>3. ASSUME NEW i \in r.conditionId..(m - 1) PROVE Erc20!Seconds(u, i) >= 0
    <3>1. Span(c, r, now, i) \in Nat /\ i \in 0..(m - 1)
      BY <2>1, SpanNat
    <3>2. Erc20!Seconds(u, i) = Span(c, r, now, i)
      BY <1>1, <3>1, Meanings20
    <3> QED BY <3>1, <3>2
  <2> QED BY <2>1, <2>2, <2>3
<1>3. [u \in User |-> stakers20[u].amount] = Staked20
  BY DEF Staked20
<1> QED BY <1>1, <1>2, <1>3, SameOperators DEF Erc20!RecordsAgree, Records20Inv

\* Of every staker of an id, and of every staker of Staking20, there is one
\* entry in the list and none of anyone else, after any sequence of stakes,
\* withdrawals and changes of the conditions, and its record is in range of
\* the conditions there are; Staking20 counts as staked what its records say,
\* and holds it, whatever fee its token keeps and whatever else arrives.
THEOREM NoneUnaccounted == Spec => []StakesAccounted
<1>1. Init => TimesInv /\ RecordsInv /\ Times20Inv /\ Records20Inv
  BY TimesInit, RecordsInit, Times20Init, Records20Init
<1>2. TimesInv /\ RecordsInv /\ Times20Inv /\ Records20Inv /\ [Next]_vars
      => TimesInv' /\ RecordsInv' /\ Times20Inv' /\ Records20Inv'
  BY TimesStep, RecordsStep, Times20Step, Records20Step
<1>3. TimesInv /\ RecordsInv /\ Times20Inv /\ Records20Inv => StakesAccounted
  BY RecordsInOrder, Records20InOrder DEF StakesAccounted
<1> QED BY <1>1, <1>2, <1>3, PTL DEF Spec, vars
=============================================================================
