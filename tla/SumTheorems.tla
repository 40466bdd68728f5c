----------------------------- MODULE SumTheorems -----------------------------
(***************************************************************************)
(* Facts about products and quotients of naturals, which the provers cannot *)
(* find by themselves when the factors are unknown, and about the sums of   *)
(* module Sums and the lists of module Lists, for all lengths and sets.     *)
(***************************************************************************)
EXTENDS Sums, Lists, FiniteSetTheorems, TLAPS

\* Integer division of naturals.
LEMMA DivNat ==
  ASSUME NEW a \in Nat, NEW b \in Nat \ {0}
  PROVE  a \div b \in Nat
OBVIOUS

\* The product of naturals, for the provers that do not multiply unknowns.
LEMMA MulNat ==
  ASSUME NEW a \in Nat, NEW b \in Nat
  PROVE  a * b \in Nat
OBVIOUS

\* Division by the same number keeps the order.
LEMMA DivMonotone ==
  ASSUME NEW a \in Nat, NEW b \in Nat, NEW c \in Nat \ {0}, a <= b
  PROVE  a \div c <= b \div c
<1> DEFINE x == a \div c
           y == b \div c
<1>1. x \in Nat /\ y \in Nat
  BY DivNat
<1>2. c * x <= a /\ b < c * (y + 1)
  OBVIOUS
<1> HIDE DEF x, y
<1>3. ASSUME x > y PROVE FALSE
  <2>1. PICK d \in Nat : x = y + 1 + d
    <3>1. x - (y + 1) \in Nat
      BY <1>1, <1>3
    <3> QED BY <3>1, <1>1
  <2>2. c * x = c * (y + 1) + c * d /\ c * d \in Nat
    BY <2>1, <1>1
  <2>3. c * (y + 1) \in Nat
    BY <1>1
  <2> QED BY <2>2, <2>3, <1>2
<1> QED BY <1>1, <1>3 DEF x, y

\* Multiplication by the same number keeps the order.
LEMMA MulMonotone ==
  ASSUME NEW a \in Nat, NEW b \in Nat, NEW c \in Nat, b <= c
  PROVE  a * b <= a * c
<1>1. PICK d \in Nat : c = b + d
  <2>1. c - b \in Nat
    OBVIOUS
  <2> QED BY <2>1
<1>2. a * c = a * b + a * d /\ a * d \in Nat /\ a * b \in Nat
  BY <1>1
<1> QED BY <1>2

\* A quotient times its divisor is at most the dividend, and less than one
\* divisor below it.
LEMMA DivBounds ==
  ASSUME NEW a \in Nat, NEW c \in Nat \ {0}
  PROVE  c * (a \div c) <= a /\ a < c * (a \div c + 1)
OBVIOUS

\* What is less after multiplication by a positive number was less before.
LEMMA MulCancel ==
  ASSUME NEW a \in Nat \ {0}, NEW b \in Nat, NEW c \in Int, a * b <= a * c
  PROVE  b <= c
<1>1. SUFFICES ASSUME c < b PROVE FALSE
  OBVIOUS
<1>2. PICK d \in Nat \ {0} : b = c + d
  <2>1. b - c \in Nat \ {0}
    BY <1>1
  <2> QED BY <2>1
<1>3. a * b = a * c + a * d /\ a * d > 0 /\ a * c \in Int
  BY <1>2
<1> QED BY <1>3

\* A larger divisor gives no more.
LEMMA DivAntitone ==
  ASSUME NEW a \in Nat, NEW b \in Nat \ {0}, NEW c \in Nat \ {0}, b <= c
  PROVE  a \div c <= a \div b
<1> DEFINE x == a \div c
           y == a \div b
<1>1. x \in Nat /\ y \in Nat /\ c * x <= a /\ a < b * (y + 1)
  BY DivNat, DivBounds
<1> HIDE DEF x, y
<1>2. x * b <= x * c /\ x * b = b * x /\ x * c = c * x
  BY <1>1, MulMonotone
<1>3. b * x \in Nat /\ c * x \in Nat /\ b * (y + 1) \in Nat
  BY <1>1, MulNat
<1>4. ASSUME y < x PROVE FALSE
  <2>1. b * (y + 1) <= b * x
    BY <1>4, <1>1, MulMonotone
  <2> QED BY <2>1, <1>1, <1>2, <1>3
<1> QED BY <1>1, <1>4 DEF x, y

\* A number of units that is a multiple of the divisor loses nothing.
LEMMA ScaleDivides ==
  ASSUME NEW s \in Nat, NEW d \in Nat \ {0}, s % d = 0
  PROVE  s \div d \in Nat /\ s = d * (s \div d)
<1>1. s \div d \in Nat
  BY DivNat
<1>2. s = d * (s \div d) + (s % d)
  BY <1>1
<1> QED BY <1>1, <1>2

\* A division scaled down and up again loses less than one divisor.
LEMMA ScaledQuotient ==
  ASSUME NEW x \in Nat, NEW s \in Nat \ {0}, NEW d \in Nat \ {0}, s % d = 0
  PROVE  /\ s * (x \div d) <= x * (s \div d)
         /\ x % d = 0 => x * (s \div d) = s * (x \div d)
         /\ x * (s \div d) <= s * (x \div d) + (s - 1)
<1> DEFINE m == s \div d
           q == x \div d
           r == x % d
<1>1. m \in Nat /\ s = d * m
  BY ScaleDivides
<1>2. q \in Nat
  BY DivNat
<1>3. x = d * q + r /\ r \in 0..(d - 1)
  BY <1>2
<1>4. m # 0
  <2>1. SUFFICES ASSUME m = 0 PROVE FALSE
    OBVIOUS
  <2> HIDE DEF m
  <2> QED BY <1>1, <2>1
<1> HIDE DEF m, q, r
<1>5. /\ x * m = (d * q + r) * m
      /\ (d * q + r) * m = d * q * m + r * m
      /\ s * q = d * m * q /\ d * m * q = d * q * m
  <2>1. x * m = (d * q + r) * m /\ s * q = d * m * q
    BY <1>1, <1>3, Zenon
  <2>2. (d * q + r) * m = d * q * m + r * m
    BY <1>1, <1>2, <1>3
  <2>3. d * m * q = d * q * m
    BY <1>1, <1>2
  <2> QED BY <2>1, <2>2, <2>3, Zenon
<1>6. r * m <= (d - 1) * m /\ (d - 1) * m = d * m - m /\ r * m \in Nat
  <2>1. r \in Nat /\ d - 1 \in Nat /\ r <= d - 1
    BY <1>3
  <2>2. m * r <= m * (d - 1)
    BY <1>1, <2>1, MulMonotone
  <2>3. m * r = r * m /\ m * (d - 1) = (d - 1) * m /\ (d - 1) * m = d * m - m
    BY <1>1, <2>1
  <2>4. r * m \in Nat
    BY <1>1, <2>1, MulNat
  <2> QED BY <2>2, <2>3, <2>4, Zenon
<1>7. x * m = s * q + r * m
  BY <1>5, Zenon
<1>8. r * m <= s - 1
  <2> DEFINE a == r * m
             b == (d - 1) * m
             c == d * m
  <2>1. a <= b /\ b = c - m /\ a \in Nat /\ s = c
    BY <1>1, <1>6, Zenon
  <2> HIDE DEF a, b, c
  <2>2. a <= s - 1
    BY <1>1, <1>4, <2>1
  <2> QED BY <2>2 DEF a
<1>9. s * q \in Nat
  BY <1>2, MulNat
<1>10. r = 0 => r * m = 0
  BY <1>1
<1>11. /\ s * q <= x * m
       /\ r = 0 => x * m = s * q
       /\ x * m <= s * q + (s - 1)
  <2> DEFINE a == s * q
             b == r * m
             c == x * m
  <2>1. c = a + b /\ a \in Nat /\ b \in Nat /\ b <= s - 1 /\ (r = 0 => b = 0)
    BY <1>6, <1>7, <1>8, <1>9, <1>10, Zenon
  <2>2. a <= c /\ (r = 0 => c = a) /\ c <= a + (s - 1)
    <3> HIDE DEF a, b, c
    <3> QED BY <2>1
  <2> QED BY <2>2
<1> QED BY <1>11 DEF m, q, r

\* A product of factors that are bounded.
LEMMA ProductBound ==
  ASSUME NEW a \in Nat, NEW b \in Nat, NEW c \in Nat, NEW d \in Nat, a <= c, b <= d
  PROVE  a * b \in Nat /\ c * d \in Nat /\ a * b <= c * d
<1>1. a * b \in Nat /\ a * d \in Nat /\ c * d \in Nat
  BY MulNat
<1>2. a * b <= a * d
  BY MulMonotone
<1>3. d * a <= d * c
  BY MulMonotone
<1>4. d * a = a * d /\ d * c = c * d
  OBVIOUS
<1> QED BY <1>1, <1>2, <1>3, <1>4

-----------------------------------------------------------------------------
\* Induction over the naturals for a set in place of a predicate: a
\* counterexample m would give an injection of the failures up to m into a
\* smaller set.
LEMMA SetInduction ==
  ASSUME NEW S, 0 \in S, \A n \in Nat : n \in S => n + 1 \in S
  PROVE  Nat \subseteq S
<1>1. SUFFICES ASSUME NEW m \in Nat, m \notin S PROVE FALSE
  OBVIOUS
<1> DEFINE A == {x \in 0..m : x \notin S}
           B == A \ {m}
           g == [x \in A |-> x - 1]
<1>2. IsFiniteSet(A) /\ IsFiniteSet(B)
  <2>1. IsFiniteSet(0..m)
    BY FS_Interval
  <2>2. IsFiniteSet(A)
    BY <2>1, FS_Subset
  <2> QED BY <2>2, FS_RemoveElement
<1>3. g \in Injection(A, B)
  <2>1. \A x \in A : x - 1 \in B
    OBVIOUS
  <2> QED BY <2>1 DEF Injection, IsInjective
<1>4. Cardinality(A) <= Cardinality(B)
  BY <1>2, <1>3, FS_Injection
<1>5. m \in A
  BY <1>1
<1>6. Cardinality(B) = Cardinality(A) - 1 /\ Cardinality(A) \in Nat
  BY <1>2, <1>5, FS_RemoveElement, FS_CardinalityType
<1> QED BY <1>4, <1>6

\* A set of naturals that is not empty has a least element.
LEMMA LeastNat ==
  ASSUME NEW T, T \subseteq Nat, T # {}
  PROVE  \E m \in T : \A k \in T : m <= k
<1>1. SUFFICES ASSUME \A m \in T : \E k \in T : k < m PROVE FALSE
  OBVIOUS
<1> DEFINE S == {n \in Nat : \A k \in T : n <= k}
<1>2. 0 \in S
  OBVIOUS
<1>3. \A n \in Nat : n \in S => n + 1 \in S
  <2>1. SUFFICES ASSUME NEW n \in Nat, \A k \in T : n <= k, NEW k \in T
                 PROVE  n + 1 <= k
    OBVIOUS
  <2>2. PICK j \in T : j < k
    BY <1>1
  <2> QED BY <2>1, <2>2
<1>4. Nat \subseteq S
  <2> HIDE DEF S
  <2> QED BY <1>2, <1>3, SetInduction
<1>5. PICK t \in T : t \in Nat
  OBVIOUS
<1>6. t + 1 \in S
  BY <1>4, <1>5
<1> QED BY <1>5, <1>6

\* The accumulator of a summing loop: starts at 0, grows by the next term.
LEMMA PartialSumRec ==
  ASSUME NEW n \in Nat, NEW f \in [0..(n - 1) -> Nat]
  PROVE  /\ PartialSum(f, n) \in [0..n -> Nat]
         /\ PartialSum(f, n)[0] = 0
         /\ \A k \in 0..(n - 1) :
              PartialSum(f, n)[k + 1] = PartialSum(f, n)[k] + f[k]
<1> DEFINE Eq(s) == s = [k \in 0..n |-> IF k = 0 THEN 0 ELSE s[k - 1] + f[k - 1]]
           Prefix(m) == \E g \in [0..m -> Nat] :
                          g[0] = 0 /\ \A k \in 1..m : g[k] = g[k - 1] + f[k - 1]
           Good == {m \in Nat : m <= n => Prefix(m)}
<1>1. Prefix(0)
  <2> DEFINE z == [k \in 0..0 |-> 0]
  <2>1. z \in [0..0 -> Nat] /\ z[0] = 0 /\ \A k \in 1..0 : z[k] = z[k - 1] + f[k - 1]
    OBVIOUS
  <2> HIDE DEF z
  <2> QED BY <2>1, Zenon
<1>2. ASSUME NEW m \in Nat, m + 1 <= n, Prefix(m) PROVE Prefix(m + 1)
  <2>2. PICK g \in [0..m -> Nat] :
               g[0] = 0 /\ \A k \in 1..m : g[k] = g[k - 1] + f[k - 1]
    BY <1>2, Zenon
  <2> DEFINE h == [k \in 0..(m + 1) |-> IF k <= m THEN g[k] ELSE g[m] + f[m]]
  <2>3. h \in [0..(m + 1) -> Nat] /\ h[0] = 0
    BY <1>2, <2>2
  <2>4. ASSUME NEW k \in 1..(m + 1) PROVE h[k] = h[k - 1] + f[k - 1]
    <3>1. CASE k <= m
      BY <3>1, <2>2
    <3>2. CASE k = m + 1
      BY <3>2
    <3> QED BY <3>1, <3>2
  <2> HIDE DEF h
  <2> QED BY <2>3, <2>4, Zenon
<1>3. Prefix(n)
  <2> HIDE DEF Prefix
  <2>1. 0 \in Good
    BY <1>1
  <2>2. \A m \in Nat : m \in Good => m + 1 \in Good
    BY <1>2
  <2>3. Nat \subseteq Good
    <3> HIDE DEF Good
    <3> QED BY <2>1, <2>2, SetInduction
  <2> QED BY <2>3
<1>4. PICK g \in [0..n -> Nat] : g[0] = 0 /\ \A k \in 1..n : g[k] = g[k - 1] + f[k - 1]
  BY <1>3, Zenon
<1>5. Eq(g)
  BY <1>4
<1> DEFINE P == PartialSum(f, n)
<1>6. P = CHOOSE s : Eq(s)
  BY Zenon DEF PartialSum
<1>7. Eq(P)
  <2> HIDE DEF Eq, P
  <2> QED BY <1>5, <1>6, Zenon
<1>8. P = [k \in 0..n |-> IF k = 0 THEN 0 ELSE P[k - 1] + f[k - 1]]
  BY <1>7
<1> HIDE DEF P
<1>9. DOMAIN P = 0..n /\ P[0] = 0 /\ \A k \in 1..n : P[k] = P[k - 1] + f[k - 1]
  <2>1. DOMAIN P = 0..n
    BY <1>8, Zenon
  <2>2. \A k \in 0..n : P[k] = IF k = 0 THEN 0 ELSE P[k - 1] + f[k - 1]
    BY <1>8, Zenon
  <2> QED BY <2>1, <2>2
<1>10. \A k \in 0..n : P[k] \in Nat
  <2> DEFINE T == {k \in Nat : k <= n => P[k] \in Nat}
  <2>1. 0 \in T
    BY <1>9
  <2>2. \A k \in Nat : k \in T => k + 1 \in T
    <3>1. SUFFICES ASSUME NEW k \in Nat, k \in T, k + 1 <= n PROVE P[k + 1] \in Nat
      OBVIOUS
    <3>2. P[k + 1] = P[k] + f[k] /\ f[k] \in Nat /\ P[k] \in Nat
      BY <3>1, <1>9
    <3> QED BY <3>2
  <2>3. Nat \subseteq T
    <3> HIDE DEF T
    <3> QED BY <2>1, <2>2, SetInduction
  <2> QED BY <2>3
<1>11. P = [k \in 0..n |-> P[k]]
  BY <1>8, Zenon
<1>12. P \in [0..n -> Nat]
  BY <1>10, <1>11
<1>13. \A k \in 0..(n - 1) : P[k + 1] = P[k] + f[k]
  BY <1>9
<1> QED BY <1>9, <1>12, <1>13 DEF P

\* A running total does not move where its terms are 0.
LEMMA PartialSumFlat ==
  ASSUME NEW n \in Nat, NEW f \in [0..(n - 1) -> Nat], NEW a \in 0..n, NEW b \in 0..n, a <= b,
         \A k \in a..(b - 1) : f[k] = 0
  PROVE  PartialSum(f, n)[b] = PartialSum(f, n)[a]
<1> DEFINE P == PartialSum(f, n)
           Flat == {m \in Nat : a + m <= b => P[a + m] = P[a]}
<1>1. P \in [0..n -> Nat] /\ \A k \in 0..(n - 1) : P[k + 1] = P[k] + f[k]
  BY PartialSumRec
<1> HIDE DEF P
<1>2. 0 \in Flat
  OBVIOUS
<1>3. \A m \in Nat : m \in Flat => m + 1 \in Flat
  <2> SUFFICES ASSUME NEW m \in Nat, m \in Flat, a + (m + 1) <= b PROVE P[a + (m + 1)] = P[a]
    OBVIOUS
  <2>1. a + m \in 0..(n - 1) /\ a + m \in a..(b - 1) /\ a + (m + 1) = (a + m) + 1 /\ a + m <= b
    OBVIOUS
  <2>2. P[(a + m) + 1] = P[a + m] + f[a + m] /\ f[a + m] = 0 /\ P[a + m] = P[a]
    BY <1>1, <2>1
  <2>3. P[a + m] \in Nat
    BY <1>1, <2>1
  <2> QED BY <2>1, <2>2, <2>3
<1>4. Nat \subseteq Flat
  <2> HIDE DEF Flat
  <2> QED BY <1>2, <1>3, SetInduction
<1>5. b - a \in Nat /\ a + (b - a) = b
  OBVIOUS
<1>6. b - a \in Flat
  <2> HIDE DEF Flat
  <2> QED BY <1>4, <1>5
<1>7. P[b] = P[a]
  BY <1>5, <1>6
<1> QED BY <1>7 DEF P
-----------------------------------------------------------------------------
\* The units of a finite set of accounts are finitely many.
LEMMA UnitsFinite ==
  ASSUME NEW S, IsFiniteSet(S), NEW f \in [S -> Nat]
  PROVE  IsFiniteSet(Units(f, S)) /\ SumOver(f, S) \in Nat
<1> DEFINE F == [u \in S |-> {u} \X (1..f[u])]
           R == {{u} \X (1..f[u]) : u \in S}
<1>1. \A u \in S : IsFiniteSet({u} \X (1..f[u]))
  <2> TAKE u \in S
  <2>1. IsFiniteSet({u}) /\ IsFiniteSet(1..f[u])
    <3>1. f[u] \in Int /\ 1 \in Int
      OBVIOUS
    <3>2. IsFiniteSet(1..f[u])
      BY <3>1, FS_Interval
    <3> QED BY <3>2, FS_Singleton
  <2> QED BY <2>1, FS_Product
<1>2. F \in Surjection(S, R)
  BY DEF Surjection
<1>3. IsFiniteSet(R)
  BY <1>2, FS_Surjection
<1>4. \A T \in R : IsFiniteSet(T)
  BY <1>1
<1>5. IsFiniteSet(UNION R)
  <2> HIDE DEF R
  <2> QED BY <1>3, <1>4, FS_UNION
<1> QED BY <1>5, FS_CardinalityType DEF Units, SumOver

\* The total is one member's share plus the total of the others, whatever
\* the mapping gives to that member.
LEMMA SumSplit ==
  ASSUME NEW S, IsFiniteSet(S), NEW f \in [S -> Nat], NEW u \in S
  PROVE  /\ SumOver(f, S) = f[u] + SumOver(f, S \ {u})
         /\ SumOver(f, S \ {u}) \in Nat
<1> DEFINE A == {u} \X (1..f[u])
           B == Units(f, S \ {u})
<1>1. IsFiniteSet(S \ {u}) /\ \A v \in S \ {u} : f[v] \in Nat
  BY FS_RemoveElement
<1>2. IsFiniteSet(B) /\ Cardinality(B) \in Nat
  <2> DEFINE h == [v \in S \ {u} |-> f[v]]
  <2>1. h \in [S \ {u} -> Nat]
    BY <1>1
  <2>2. IsFiniteSet(Units(h, S \ {u}))
    <3> HIDE DEF h
    <3> QED BY <1>1, <2>1, UnitsFinite
  <2>3. Units(h, S \ {u}) = B
    BY DEF Units
  <2> QED BY <2>2, <2>3, FS_CardinalityType
<1>3. IsFiniteSet(A) /\ Cardinality(A) = f[u]
  <2>1. IsFiniteSet({u}) /\ Cardinality({u}) = 1 /\ IsFiniteSet(1..f[u])
        /\ Cardinality(1..f[u]) = f[u]
    <3>1. f[u] \in Nat /\ f[u] \in Int /\ 1 \in Int
      OBVIOUS
    <3>2. IsFiniteSet(1..f[u]) /\ Cardinality(1..f[u]) = IF 1 > f[u] THEN 0 ELSE f[u] - 1 + 1
      BY <3>1, FS_Interval
    <3>3. Cardinality(1..f[u]) = f[u]
      BY <3>1, <3>2
    <3> QED BY <3>2, <3>3, FS_Singleton
  <2>2. IsFiniteSet(A) /\ Cardinality(A) = Cardinality({u}) * Cardinality(1..f[u])
    BY <2>1, FS_Product
  <2> QED BY <2>1, <2>2
<1>4. Units(f, S) = A \cup B /\ A \cap B = {}
  BY DEF Units
<1>5. Cardinality(A \cap B) = 0
  BY <1>4, FS_EmptySet
<1>6. Cardinality(A \cup B) = Cardinality(A) + Cardinality(B) - Cardinality(A \cap B)
  <2> HIDE DEF A, B
  <2> QED BY <1>2, <1>3, FS_Union
<1> QED BY <1>2, <1>3, <1>4, <1>5, <1>6 DEF SumOver

\* Changing one member's share changes the total by the difference.
LEMMA SumUpdate ==
  ASSUME NEW S, IsFiniteSet(S), NEW f \in [S -> Nat], NEW g \in [S -> Nat], NEW u \in S,
         \A v \in S \ {u} : g[v] = f[v]
  PROVE  SumOver(g, S) = SumOver(f, S) - f[u] + g[u]
<1>1. SumOver(g, S \ {u}) = SumOver(f, S \ {u})
  BY DEF SumOver, Units
<1>2. SumOver(g, S) = g[u] + SumOver(g, S \ {u})
  BY SumSplit
<1>3. SumOver(f, S) = f[u] + SumOver(f, S \ {u}) /\ SumOver(f, S \ {u}) \in Nat
  BY SumSplit
<1> QED BY <1>1, <1>2, <1>3

\* A mapping that gives nothing has total 0.
LEMMA SumZero ==
  ASSUME NEW S, NEW f \in [S -> Nat], \A u \in S : f[u] = 0
  PROVE  SumOver(f, S) = 0
<1>1. Units(f, S) = {}
  BY DEF Units
<1> QED BY <1>1, FS_EmptySet DEF SumOver
-----------------------------------------------------------------------------
\* Induction over the parts of a finite set, for a set G of them in place of
\* a predicate.
LEMMA FiniteInduction ==
  ASSUME NEW S, IsFiniteSet(S), NEW G, {} \in G,
         \A U \in SUBSET S : \A u \in U : U \ {u} \in G => U \in G
  PROVE  S \in G
<1> DEFINE Good == {n \in Nat : \A U \in SUBSET S : Cardinality(U) = n => U \in G}
<1>1. \A U \in SUBSET S : IsFiniteSet(U) /\ Cardinality(U) \in Nat
  BY FS_Subset, FS_CardinalityType
<1>2. 0 \in Good
  BY <1>1, FS_EmptySet
<1>3. \A n \in Nat : n \in Good => n + 1 \in Good
  <2>1. SUFFICES ASSUME NEW n \in Nat, n \in Good,
                        NEW U \in SUBSET S, Cardinality(U) = n + 1
                 PROVE  U \in G
    OBVIOUS
  <2>2. PICK u \in U : TRUE
    BY <2>1, FS_EmptySet
  <2>3. Cardinality(U \ {u}) = n
    <3>1. Cardinality(U \ {u}) = Cardinality(U) - 1
      BY <1>1, FS_RemoveElement
    <3> QED BY <2>1, <3>1
  <2> QED BY <2>1, <2>3
<1>4. Nat \subseteq Good
  <2> HIDE DEF Good
  <2> QED BY <1>2, <1>3, SetInduction
<1> QED BY <1>1, <1>4

\* SumSplit for the total over a part of the mapping's domain.
LEMMA SumSplitIn ==
  ASSUME NEW S, IsFiniteSet(S), NEW f \in [S -> Nat], NEW U \in SUBSET S, NEW u \in U
  PROVE  /\ SumOver(f, U) = f[u] + SumOver(f, U \ {u})
         /\ SumOver(f, U \ {u}) \in Nat
<1> DEFINE h == [v \in U |-> f[v]]
<1>1. IsFiniteSet(U) /\ h \in [U -> Nat] /\ h[u] = f[u]
  BY FS_Subset
<1>2. SumOver(h, U) = SumOver(f, U) /\ SumOver(h, U \ {u}) = SumOver(f, U \ {u})
  BY DEF SumOver, Units
<1> HIDE DEF h
<1>3. SumOver(h, U) = h[u] + SumOver(h, U \ {u}) /\ SumOver(h, U \ {u}) \in Nat
  BY <1>1, SumSplit
<1> QED BY <1>1, <1>2, <1>3

\* The total over no member is 0.
LEMMA SumNone ==
  ASSUME NEW f
  PROVE  SumOver(f, {}) = 0
<1>1. Units(f, {}) = {}
  BY DEF Units
<1> QED BY <1>1, FS_EmptySet DEF SumOver

\* A bound on every term, up to factors, bounds the total.
LEMMA SumBound ==
  ASSUME NEW S, IsFiniteSet(S), NEW f \in [S -> Nat], NEW g \in [S -> Nat],
         NEW c \in Nat, NEW d \in Nat, \A u \in S : c * f[u] <= d * g[u]
  PROVE  c * SumOver(f, S) <= d * SumOver(g, S)
<1> DEFINE G == {U \in SUBSET S : c * SumOver(f, U) <= d * SumOver(g, U)}
<1>1. {} \in G
  BY SumNone
<1>2. ASSUME NEW U \in SUBSET S, NEW u \in U, U \ {u} \in G PROVE U \in G
  <2> DEFINE x == SumOver(f, U \ {u})
             y == SumOver(g, U \ {u})
  <2>1. SumOver(f, U) = f[u] + x /\ x \in Nat
    BY SumSplitIn
  <2>2. SumOver(g, U) = g[u] + y /\ y \in Nat
    BY SumSplitIn
  <2>3. c * x <= d * y
    BY <1>2
  <2> HIDE DEF x, y
  <2>4. /\ c * (f[u] + x) = c * f[u] + c * x
        /\ d * (g[u] + y) = d * g[u] + d * y
        /\ c * f[u] \in Nat /\ c * x \in Nat /\ d * g[u] \in Nat /\ d * y \in Nat
    <3>1. f[u] \in Nat /\ g[u] \in Nat
      OBVIOUS
    <3> QED BY <2>1, <2>2, <3>1
  <2>5. c * f[u] <= d * g[u]
    OBVIOUS
  <2>6. c * (f[u] + x) <= d * (g[u] + y)
    BY <2>3, <2>4, <2>5
  <2> QED BY <2>1, <2>2, <2>6
<1>3. S \in G
  <2> HIDE DEF G
  <2> QED BY <1>1, <1>2, FiniteInduction
<1> QED BY <1>3

\* The total of the sums is the sum of the totals.
LEMMA SumAdd ==
  ASSUME NEW S, IsFiniteSet(S), NEW f \in [S -> Nat], NEW g \in [S -> Nat],
         NEW h \in [S -> Nat], \A u \in S : h[u] = f[u] + g[u]
  PROVE  SumOver(h, S) = SumOver(f, S) + SumOver(g, S)
<1> DEFINE G == {U \in SUBSET S : SumOver(h, U) = SumOver(f, U) + SumOver(g, U)}
<1>1. {} \in G
  BY SumNone
<1>2. ASSUME NEW U \in SUBSET S, NEW u \in U, U \ {u} \in G PROVE U \in G
  <2>1. SumOver(f, U) = f[u] + SumOver(f, U \ {u}) /\ SumOver(f, U \ {u}) \in Nat
    BY SumSplitIn
  <2>2. SumOver(g, U) = g[u] + SumOver(g, U \ {u}) /\ SumOver(g, U \ {u}) \in Nat
    BY SumSplitIn
  <2>3. SumOver(h, U) = h[u] + SumOver(h, U \ {u}) /\ SumOver(h, U \ {u}) \in Nat
    BY SumSplitIn
  <2>4. f[u] \in Nat /\ g[u] \in Nat /\ h[u] = f[u] + g[u]
    OBVIOUS
  <2>5. SumOver(h, U \ {u}) = SumOver(f, U \ {u}) + SumOver(g, U \ {u})
    BY <1>2
  <2> QED BY <2>1, <2>2, <2>3, <2>4, <2>5
<1>3. S \in G
  <2> HIDE DEF G
  <2> QED BY <1>1, <1>2, FiniteInduction
<1> QED BY <1>3

\* A factor of every term is one of the total.
LEMMA SumScaled ==
  ASSUME NEW S, IsFiniteSet(S), NEW f \in [S -> Nat], NEW g \in [S -> Nat], NEW c \in Nat,
         \A u \in S : g[u] = f[u] * c
  PROVE  SumOver(g, S) = SumOver(f, S) * c
<1>1. SumOver(f, S) \in Nat /\ SumOver(g, S) \in Nat
  BY UnitsFinite
<1>2. \A u \in S : 1 * g[u] <= c * f[u] /\ c * f[u] <= 1 * g[u]
  <2> TAKE u \in S
  <2>1. f[u] \in Nat /\ g[u] \in Nat /\ g[u] = f[u] * c
    OBVIOUS
  <2>2. f[u] * c = c * f[u] /\ f[u] * c \in Nat
    BY <2>1, MulNat
  <2> QED BY <2>1, <2>2
<1>3. 1 * SumOver(g, S) <= c * SumOver(f, S)
  BY <1>2, SumBound
<1>4. c * SumOver(f, S) <= 1 * SumOver(g, S)
  BY <1>2, SumBound
<1>5. c * SumOver(f, S) = SumOver(f, S) * c /\ c * SumOver(f, S) \in Nat
  BY <1>1, MulNat
<1> QED BY <1>1, <1>3, <1>4, <1>5

\* Moving one member's share to a member that had none keeps the total.
LEMMA SumMoved ==
  ASSUME NEW S, IsFiniteSet(S), NEW f \in [S -> Nat], NEW g \in [S -> Nat],
         NEW u \in S, NEW v \in S, u # v, f[v] = 0, g[v] = f[u], g[u] = 0,
         \A w \in S \ {u, v} : g[w] = f[w]
  PROVE  SumOver(g, S) = SumOver(f, S)
<1> DEFINE h == [f EXCEPT ![v] = f[u]]
<1>1. h \in [S -> Nat] /\ f[u] \in Nat
  OBVIOUS
<1>2. h[v] = f[u] /\ h[u] = f[u]
      /\ (\A w \in S \ {v} : h[w] = f[w]) /\ (\A w \in S \ {u} : g[w] = h[w])
  OBVIOUS
<1> HIDE DEF h
<1>3. SumOver(h, S) = SumOver(f, S) - f[v] + h[v]
  BY <1>1, <1>2, SumUpdate
<1>4. SumOver(g, S) = SumOver(h, S) - h[u] + g[u]
  BY <1>1, <1>2, SumUpdate
<1>5. SumOver(f, S) \in Nat
  BY UnitsFinite
<1> QED BY <1>1, <1>2, <1>3, <1>4, <1>5

\* A loop whose rounds each add at least as much as the rounds of two others
\* ends with at least their two totals.
LEMMA PartialSumAddLe ==
  ASSUME NEW n \in Nat, NEW f \in [0..(n - 1) -> Nat], NEW g \in [0..(n - 1) -> Nat],
         NEW h \in [0..(n - 1) -> Nat], \A k \in 0..(n - 1) : f[k] + g[k] <= h[k]
  PROVE  PartialSum(f, n)[n] + PartialSum(g, n)[n] <= PartialSum(h, n)[n]
<1> DEFINE F == PartialSum(f, n)
           G == PartialSum(g, n)
           H == PartialSum(h, n)
           T == {k \in Nat : k <= n => F[k] + G[k] <= H[k]}
<1>1. F \in [0..n -> Nat] /\ F[0] = 0 /\ \A k \in 0..(n - 1) : F[k + 1] = F[k] + f[k]
  BY PartialSumRec
<1>2. G \in [0..n -> Nat] /\ G[0] = 0 /\ \A k \in 0..(n - 1) : G[k + 1] = G[k] + g[k]
  BY PartialSumRec
<1>3. H \in [0..n -> Nat] /\ H[0] = 0 /\ \A k \in 0..(n - 1) : H[k + 1] = H[k] + h[k]
  BY PartialSumRec
<1> HIDE DEF F, G, H
<1>4. 0 \in T
  BY <1>1, <1>2, <1>3
<1>5. \A k \in Nat : k \in T => k + 1 \in T
  <2>1. SUFFICES ASSUME NEW k \in Nat, k \in T, k + 1 <= n PROVE F[k + 1] + G[k + 1] <= H[k + 1]
    OBVIOUS
  <2>2. k \in 0..(n - 1) /\ k \in 0..n
    BY <2>1
  <2>3. F[k] + G[k] <= H[k] /\ f[k] + g[k] <= h[k]
    BY <2>1, <2>2
  <2>4. F[k] \in Nat /\ G[k] \in Nat /\ H[k] \in Nat /\ f[k] \in Nat /\ g[k] \in Nat /\ h[k] \in Nat
    BY <1>1, <1>2, <1>3, <2>2
  <2>5. F[k + 1] = F[k] + f[k] /\ G[k + 1] = G[k] + g[k] /\ H[k + 1] = H[k] + h[k]
    BY <1>1, <1>2, <1>3, <2>2
  <2>6. F[k + 1] \in Nat /\ G[k + 1] \in Nat /\ H[k + 1] \in Nat
    <3>1. k + 1 \in 0..n
      BY <2>1
    <3> QED BY <3>1, <1>1, <1>2, <1>3
  <2>7. \A a, b, c, d, e, i \in Nat : a + b <= c /\ d + e <= i => (a + d) + (b + e) <= c + i
    OBVIOUS
  <2>8. (F[k] + f[k]) + (G[k] + g[k]) <= H[k] + h[k]
    BY <2>3, <2>4, <2>7
  <2> QED BY <2>5, <2>8, Zenon
<1>6. n \in T
  <2> HIDE DEF T
  <2> QED BY <1>4, <1>5, SetInduction
<1> QED BY <1>6 DEF F, G, H

\* A loop with one round that adds x more ends with x more.
LEMMA PartialSumChange ==
  ASSUME NEW n \in Nat, NEW f \in [0..(n - 1) -> Nat], NEW g \in [0..(n - 1) -> Nat],
         NEW j \in 0..(n - 1), NEW x \in Nat, g[j] = f[j] + x,
         \A k \in 0..(n - 1) : k # j => g[k] = f[k]
  PROVE  PartialSum(g, n)[n] = PartialSum(f, n)[n] + x
<1> DEFINE F == PartialSum(f, n)
           G == PartialSum(g, n)
           T == {k \in Nat : k <= n => G[k] = F[k] + (IF k > j THEN x ELSE 0)}
<1>1. F \in [0..n -> Nat] /\ F[0] = 0 /\ \A k \in 0..(n - 1) : F[k + 1] = F[k] + f[k]
  BY PartialSumRec
<1>2. G \in [0..n -> Nat] /\ G[0] = 0 /\ \A k \in 0..(n - 1) : G[k + 1] = G[k] + g[k]
  BY PartialSumRec
<1> HIDE DEF F, G
<1>4. 0 \in T
  BY <1>1, <1>2
<1>5. \A k \in Nat : k \in T => k + 1 \in T
  <2>1. SUFFICES ASSUME NEW k \in Nat, k \in T, k + 1 <= n
                 PROVE  G[k + 1] = F[k + 1] + (IF k + 1 > j THEN x ELSE 0)
    OBVIOUS
  <2>2. k \in 0..(n - 1) /\ k \in 0..n
    BY <2>1
  <2>3. G[k] = F[k] + (IF k > j THEN x ELSE 0)
    BY <2>1, <2>2
  <2>4. F[k] \in Nat /\ f[k] \in Nat /\ F[k + 1] = F[k] + f[k] /\ G[k + 1] = G[k] + g[k]
    BY <1>1, <1>2, <2>2
  <2>5. g[k] = f[k] + (IF k = j THEN x ELSE 0)
    BY <2>2, <2>4
  <2> QED BY <2>2, <2>3, <2>4, <2>5
<1>6. n \in T
  <2> HIDE DEF T
  <2> QED BY <1>4, <1>5, SetInduction
<1> QED BY <1>6 DEF F, G
-----------------------------------------------------------------------------
\* The accumulator of a loop that skips what does not fit: it starts at 0,
\* stays in range, and each round adds the next term or nothing.
LEMMA CheckedSumRec ==
  ASSUME NEW n \in Nat, NEW f \in [0..(n - 1) -> Nat], NEW max \in Nat
  PROVE  /\ CheckedSum(f, n, max) \in [0..n -> 0..max]
         /\ CheckedSum(f, n, max)[0] = 0
         /\ \A k \in 0..(n - 1) :
              CheckedSum(f, n, max)[k + 1] = TryAdd(CheckedSum(f, n, max)[k], f[k], max)
<1> DEFINE Eq(s) == s = [k \in 0..n |-> IF k = 0 THEN 0 ELSE TryAdd(s[k - 1], f[k - 1], max)]
           Prefix(m) == \E g \in [0..m -> 0..max] :
                          g[0] = 0 /\ \A k \in 1..m : g[k] = TryAdd(g[k - 1], f[k - 1], max)
           Good == {m \in Nat : m <= n => Prefix(m)}
<1>0. \A a \in 0..max, b \in Nat : TryAdd(a, b, max) \in 0..max
  BY DEF TryAdd
<1>1. Prefix(0)
  <2> DEFINE z == [k \in 0..0 |-> 0]
  <2>1. z \in [0..0 -> 0..max] /\ z[0] = 0
        /\ \A k \in 1..0 : z[k] = TryAdd(z[k - 1], f[k - 1], max)
    OBVIOUS
  <2> HIDE DEF z
  <2> QED BY <2>1, Zenon
<1>2. ASSUME NEW m \in Nat, m + 1 <= n, Prefix(m) PROVE Prefix(m + 1)
  <2>2. PICK g \in [0..m -> 0..max] :
               g[0] = 0 /\ \A k \in 1..m : g[k] = TryAdd(g[k - 1], f[k - 1], max)
    BY <1>2, Zenon
  <2> DEFINE h == [k \in 0..(m + 1) |-> IF k <= m THEN g[k] ELSE TryAdd(g[m], f[m], max)]
  <2>1. TryAdd(g[m], f[m], max) \in 0..max
    <3>1. g[m] \in 0..max /\ f[m] \in Nat
      BY <1>2, <2>2
    <3> QED BY <3>1, <1>0
  <2>3. h \in [0..(m + 1) -> 0..max] /\ h[0] = 0
    BY <1>2, <2>1, <2>2
  <2>4. ASSUME NEW k \in 1..(m + 1) PROVE h[k] = TryAdd(h[k - 1], f[k - 1], max)
    <3>1. CASE k <= m
      BY <3>1, <2>2
    <3>2. CASE k = m + 1
      BY <3>2
    <3> QED BY <3>1, <3>2
  <2> HIDE DEF h
  <2> QED BY <2>3, <2>4, Zenon
<1>3. Prefix(n)
  <2> HIDE DEF Prefix
  <2>1. 0 \in Good
    BY <1>1
  <2>2. \A m \in Nat : m \in Good => m + 1 \in Good
    BY <1>2
  <2>3. Nat \subseteq Good
    <3> HIDE DEF Good
    <3> QED BY <2>1, <2>2, SetInduction
  <2> QED BY <2>3
<1>4. PICK g \in [0..n -> 0..max] :
             g[0] = 0 /\ \A k \in 1..n : g[k] = TryAdd(g[k - 1], f[k - 1], max)
  BY <1>3, Zenon
<1>5. Eq(g)
  BY <1>4
<1> DEFINE P == CheckedSum(f, n, max)
<1>6. P = CHOOSE s : Eq(s)
  BY Zenon DEF CheckedSum
<1>7. Eq(P)
  <2> HIDE DEF Eq, P
  <2> QED BY <1>5, <1>6, Zenon
<1>8. P = [k \in 0..n |-> IF k = 0 THEN 0 ELSE TryAdd(P[k - 1], f[k - 1], max)]
  BY <1>7
<1> HIDE DEF P
<1>9. DOMAIN P = 0..n /\ P[0] = 0 /\ \A k \in 1..n : P[k] = TryAdd(P[k - 1], f[k - 1], max)
  <2>1. DOMAIN P = 0..n
    BY <1>8, Zenon
  <2>2. \A k \in 0..n : P[k] = IF k = 0 THEN 0 ELSE TryAdd(P[k - 1], f[k - 1], max)
    BY <1>8, Zenon
  <2> QED BY <2>1, <2>2
<1>10. \A k \in 0..n : P[k] \in 0..max
  <2> DEFINE T == {k \in Nat : k <= n => P[k] \in 0..max}
  <2>1. 0 \in T
    BY <1>9
  <2>2. \A k \in Nat : k \in T => k + 1 \in T
    <3>1. SUFFICES ASSUME NEW k \in Nat, k \in T, k + 1 <= n PROVE P[k + 1] \in 0..max
      OBVIOUS
    <3>2. P[k + 1] = TryAdd(P[k], f[k], max) /\ f[k] \in Nat /\ P[k] \in 0..max
      BY <3>1, <1>9
    <3> QED BY <3>2, <1>0
  <2>3. Nat \subseteq T
    <3> HIDE DEF T
    <3> QED BY <2>1, <2>2, SetInduction
  <2> QED BY <2>3
<1>11. P = [k \in 0..n |-> P[k]]
  BY <1>8, Zenon
<1>12. P \in [0..n -> 0..max]
  BY <1>10, <1>11
<1>13. \A k \in 0..(n - 1) : P[k + 1] = TryAdd(P[k], f[k], max)
  BY <1>9
<1> QED BY <1>9, <1>12, <1>13 DEF P

\* A sum of two terms, each below a bound.
LEMMA SumsLe ==
  ASSUME NEW x \in Nat, NEW y \in Nat, NEW p \in Nat, NEW q \in Nat, x <= p, y <= q
  PROVE  x <= p + q /\ x + y <= p + q
OBVIOUS

\* Skipping terms only lowers the sum: what is collected, up to a factor, is
\* at most a total whose terms are at least as large, up to that factor.
LEMMA CheckedSumLe ==
  ASSUME NEW n \in Nat, NEW f \in [0..(n - 1) -> Nat], NEW max \in Nat, NEW c \in Nat,
         NEW g \in [0..(n - 1) -> Nat], \A k \in 0..(n - 1) : c * f[k] <= g[k]
  PROVE  c * CheckedSum(f, n, max)[n] <= PartialSum(g, n)[n]
<1> DEFINE C == CheckedSum(f, n, max)
           P == PartialSum(g, n)
           T == {k \in Nat : k <= n => c * C[k] <= P[k]}
<1>1. /\ C \in [0..n -> 0..max] /\ C[0] = 0
      /\ \A k \in 0..(n - 1) : C[k + 1] = TryAdd(C[k], f[k], max)
  BY CheckedSumRec
<1>2. /\ P \in [0..n -> Nat] /\ P[0] = 0
      /\ \A k \in 0..(n - 1) : P[k + 1] = P[k] + g[k]
  BY PartialSumRec
<1> HIDE DEF C, P
<1>3. 0 \in T
  BY <1>1, <1>2
<1>4. \A k \in Nat : k \in T => k + 1 \in T
  <2>1. SUFFICES ASSUME NEW k \in Nat, k + 1 <= n, c * C[k] <= P[k]
                 PROVE  c * C[k + 1] <= P[k + 1]
    OBVIOUS
  <2>2. /\ C[k] \in Nat /\ P[k] \in Nat /\ f[k] \in Nat /\ g[k] \in Nat
        /\ C[k + 1] = TryAdd(C[k], f[k], max) /\ P[k + 1] = P[k] + g[k]
    BY <2>1, <1>1, <1>2
  <2>3. c * f[k] <= g[k] /\ c * f[k] \in Nat /\ c * C[k] \in Nat
    BY <2>1, <2>2, MulNat
  <2>4. C[k + 1] = C[k] \/ C[k + 1] = C[k] + f[k]
    BY <2>2 DEF TryAdd
  <2>5. \A a, b, x \in Nat : x = a + b => c * x = c * a + c * b
    OBVIOUS
  <2>6. CASE C[k + 1] = C[k]
    <3> DEFINE x == c * C[k]
    <3>1. c * C[k + 1] = x /\ x <= P[k] /\ x \in Nat
      BY <2>1, <2>3, <2>6
    <3> HIDE DEF x
    <3> QED BY <3>1, <2>2
  <2>7. CASE C[k + 1] = C[k] + f[k]
    <3> DEFINE x == c * C[k]
               y == c * f[k]
    <3>1. c * C[k + 1] = x + y
      BY <2>2, <2>5, <2>7
    <3>2. x <= P[k] /\ y <= g[k] /\ x \in Nat /\ y \in Nat
      BY <2>1, <2>3
    <3> HIDE DEF x, y
    <3>3. x + y <= P[k] + g[k]
      BY <3>2, <2>2, SumsLe, Zenon
    <3> QED BY <3>1, <3>3, <2>2, Zenon
  <2> QED BY <2>4, <2>6, <2>7
<1>5. Nat \subseteq T
  <2> HIDE DEF T
  <2> QED BY <1>3, <1>4, SetInduction
<1> QED BY <1>5 DEF C, P

\* Nothing is skipped if everything fits.
LEMMA CheckedSumExact ==
  ASSUME NEW n \in Nat, NEW f \in [0..(n - 1) -> Nat], NEW max \in Nat,
         PartialSum(f, n)[n] <= max
  PROVE  CheckedSum(f, n, max)[n] = PartialSum(f, n)[n]
<1> DEFINE C == CheckedSum(f, n, max)
           P == PartialSum(f, n)
           T == {k \in Nat : k <= n => C[k] = P[k]}
           U == {k \in Nat : k <= n => P[n - k] <= max}
<1>1. /\ C \in [0..n -> 0..max] /\ C[0] = 0
      /\ \A k \in 0..(n - 1) : C[k + 1] = TryAdd(C[k], f[k], max)
  BY CheckedSumRec
<1>2. /\ P \in [0..n -> Nat] /\ P[0] = 0
      /\ \A k \in 0..(n - 1) : P[k + 1] = P[k] + f[k]
  BY PartialSumRec
<1>3. P[n] <= max
  OBVIOUS
<1> HIDE DEF C, P
<1>4. \A k \in 0..n : P[k] <= max
  <2>1. 0 \in U
    BY <1>3
  <2>2. \A k \in Nat : k \in U => k + 1 \in U
    <3>1. SUFFICES ASSUME NEW k \in Nat, k + 1 <= n, P[n - k] <= max
                   PROVE  P[n - (k + 1)] <= max
      OBVIOUS
    <3>2. n - (k + 1) \in 0..(n - 1) /\ (n - (k + 1)) + 1 = n - k
      BY <3>1
    <3>3. P[n - k] = P[n - (k + 1)] + f[n - (k + 1)]
      BY <3>2, <1>2
    <3>4. P[n - (k + 1)] \in Nat /\ f[n - (k + 1)] \in Nat
      BY <3>2, <1>2
    <3> QED BY <3>1, <3>3, <3>4
  <2>3. Nat \subseteq U
    <3> HIDE DEF U
    <3> QED BY <2>1, <2>2, SetInduction
  <2>4. SUFFICES ASSUME NEW k \in 0..n PROVE P[k] <= max
    OBVIOUS
  <2>5. n - k \in Nat /\ n - (n - k) = k /\ n - k <= n
    OBVIOUS
  <2> QED BY <2>3, <2>5
<1>5. 0 \in T
  BY <1>1, <1>2
<1>6. \A k \in Nat : k \in T => k + 1 \in T
  <2>1. SUFFICES ASSUME NEW k \in Nat, k + 1 <= n, C[k] = P[k] PROVE C[k + 1] = P[k + 1]
    OBVIOUS
  <2>2. /\ C[k + 1] = TryAdd(C[k], f[k], max) /\ P[k + 1] = P[k] + f[k]
        /\ P[k + 1] <= max
    BY <2>1, <1>1, <1>2, <1>4
  <2> QED BY <2>1, <2>2 DEF TryAdd
<1>7. Nat \subseteq T
  <2> HIDE DEF T
  <2> QED BY <1>5, <1>6, SetInduction
<1> QED BY <1>7 DEF C, P
\* A running total depends on the terms before it alone.
LEMMA PartialSumPrefix ==
  ASSUME NEW n \in Nat, NEW m \in Nat, n <= m,
         NEW f \in [0..(n - 1) -> Nat], NEW g \in [0..(m - 1) -> Nat],
         \A k \in 0..(n - 1) : g[k] = f[k]
  PROVE  PartialSum(g, m)[n] = PartialSum(f, n)[n]
<1> DEFINE F == PartialSum(f, n)
           G == PartialSum(g, m)
           T == {k \in Nat : k <= n => G[k] = F[k]}
<1>1. F[0] = 0 /\ \A k \in 0..(n - 1) : F[k + 1] = F[k] + f[k]
  BY PartialSumRec
<1>2. G[0] = 0 /\ \A k \in 0..(m - 1) : G[k + 1] = G[k] + g[k]
  BY PartialSumRec
<1> HIDE DEF F, G
<1>3. 0 \in T
  BY <1>1, <1>2
<1>4. \A k \in Nat : k \in T => k + 1 \in T
  BY <1>1, <1>2
<1>5. Nat \subseteq T
  <2> HIDE DEF T
  <2> QED BY <1>3, <1>4, SetInduction
<1> QED BY <1>5 DEF F, G

\* A bound on every term by a combination of two others bounds the totals.
LEMMA PartialSumCombined ==
  ASSUME NEW n \in Nat, NEW e \in [0..(n - 1) -> Nat], NEW f \in [0..(n - 1) -> Nat],
         NEW g \in [0..(n - 1) -> Nat], NEW c \in Nat, NEW d \in Nat
  PROVE  (\A k \in 0..(n - 1) : e[k] <= c * f[k] + d * g[k])
         => PartialSum(e, n)[n] <= c * PartialSum(f, n)[n] + d * PartialSum(g, n)[n]
<1>0. SUFFICES ASSUME \A k \in 0..(n - 1) : e[k] <= c * f[k] + d * g[k]
               PROVE  PartialSum(e, n)[n] <= c * PartialSum(f, n)[n] + d * PartialSum(g, n)[n]
  OBVIOUS
<1> DEFINE E == PartialSum(e, n)
           F == PartialSum(f, n)
           G == PartialSum(g, n)
           T == {k \in Nat : k <= n => E[k] <= c * F[k] + d * G[k]}
<1>1. E \in [0..n -> Nat] /\ E[0] = 0 /\ \A k \in 0..(n - 1) : E[k + 1] = E[k] + e[k]
  BY PartialSumRec
<1>2. F \in [0..n -> Nat] /\ F[0] = 0 /\ \A k \in 0..(n - 1) : F[k + 1] = F[k] + f[k]
  BY PartialSumRec
<1>3. G \in [0..n -> Nat] /\ G[0] = 0 /\ \A k \in 0..(n - 1) : G[k + 1] = G[k] + g[k]
  BY PartialSumRec
<1> HIDE DEF E, F, G
<1>4. 0 \in T
  BY <1>1, <1>2, <1>3
<1>5. \A k \in Nat : k \in T => k + 1 \in T
  <2>1. SUFFICES ASSUME NEW k \in Nat, k + 1 <= n, E[k] <= c * F[k] + d * G[k]
                 PROVE  E[k + 1] <= c * F[k + 1] + d * G[k + 1]
    OBVIOUS
  <2>2. /\ E[k] \in Nat /\ F[k] \in Nat /\ G[k] \in Nat
        /\ e[k] \in Nat /\ f[k] \in Nat /\ g[k] \in Nat
        /\ E[k + 1] = E[k] + e[k] /\ F[k + 1] = F[k] + f[k] /\ G[k + 1] = G[k] + g[k]
    BY <2>1, <1>1, <1>2, <1>3
  <2>a. e[k] <= c * f[k] + d * g[k]
    BY <2>1, <1>0
  <2>3. \A x, a, b \in Nat : x * (a + b) = x * a + x * b
    OBVIOUS
  <2>4. F[k + 1] \in Nat /\ G[k + 1] \in Nat
    <3>1. k + 1 \in 0..n
      BY <2>1
    <3> QED BY <3>1, <1>2, <1>3, Zenon
  <2>5. c * F[k + 1] = c * F[k] + c * f[k] /\ d * G[k + 1] = d * G[k] + d * g[k]
    <3>1. c * F[k + 1] = c * (F[k] + f[k]) /\ d * G[k + 1] = d * (G[k] + g[k])
      BY <2>2, Zenon
    <3>2. c * (F[k] + f[k]) = c * F[k] + c * f[k]
      BY <2>2, <2>3
    <3>3. d * (G[k] + g[k]) = d * G[k] + d * g[k]
      BY <2>2, <2>3
    <3> QED BY <3>1, <3>2, <3>3, Zenon
  <2>6. c * F[k] \in Nat /\ c * f[k] \in Nat /\ d * G[k] \in Nat /\ d * g[k] \in Nat
    BY <2>2, MulNat
  <2> DEFINE cF == c * F[k]
             cf == c * f[k]
             dG == d * G[k]
             dg == d * g[k]
             cN == c * F[k + 1]
             dN == d * G[k + 1]
  <2>7. E[k] <= cF + dG /\ e[k] <= cf + dg /\ cN = cF + cf /\ dN = dG + dg
    BY <2>1, <2>a, <2>5
  <2>8. cF \in Nat /\ cf \in Nat /\ dG \in Nat /\ dg \in Nat
    BY <2>6
  <2>9. E[k + 1] <= cN + dN
    <3>1. \A x, y, x1, x2, y1, y2 \in Nat :
            x <= x1 + y1 /\ y <= x2 + y2 => x + y <= (x1 + x2) + (y1 + y2)
      OBVIOUS
    <3>2. E[k] + e[k] <= (cF + cf) + (dG + dg)
      <4> HIDE DEF cF, cf, dG, dg, cN, dN
      <4> QED BY <3>1, <2>2, <2>7, <2>8, Zenon
    <3> HIDE DEF cF, cf, dG, dg, cN, dN
    <3> QED BY <3>2, <2>2, <2>7, Zenon
  <2> QED BY <2>9
<1>6. Nat \subseteq T
  <2> HIDE DEF T
  <2> QED BY <1>4, <1>5, SetInduction
<1> QED BY <1>6 DEF E, F, G

\* A total of ones and zeros counts the ones.
LEMMA PartialSumCounts ==
  ASSUME NEW n \in Nat, NEW f \in [0..(n - 1) -> 0..1]
  PROVE  PartialSum(f, n)[n] = Cardinality({k \in 0..(n - 1) : f[k] = 1})
<1> DEFINE F == PartialSum(f, n)
           Ones(m) == {k \in 0..(m - 1) : f[k] = 1}
           T == {m \in Nat : m <= n => IsFiniteSet(Ones(m)) /\ F[m] = Cardinality(Ones(m))}
<1>0. f \in [0..(n - 1) -> Nat]
  OBVIOUS
<1>1. F[0] = 0 /\ \A k \in 0..(n - 1) : F[k + 1] = F[k] + f[k]
  BY <1>0, PartialSumRec
<1> HIDE DEF F
<1>2. 0 \in T
  <2>1. Ones(0) = {}
    OBVIOUS
  <2> QED BY <2>1, <1>1, FS_EmptySet
<1>3. \A m \in Nat : m \in T => m + 1 \in T
  <2>1. SUFFICES ASSUME NEW m \in Nat, m + 1 <= n,
                        IsFiniteSet(Ones(m)), F[m] = Cardinality(Ones(m))
                 PROVE  IsFiniteSet(Ones(m + 1)) /\ F[m + 1] = Cardinality(Ones(m + 1))
    OBVIOUS
  <2>2. F[m + 1] = F[m] + f[m] /\ f[m] \in 0..1
    BY <2>1, <1>1
  <2>3. CASE f[m] = 0
    <3>1. Ones(m + 1) = Ones(m)
      BY <2>1, <2>3
    <3>2. F[m] \in Nat
      BY <2>1, FS_CardinalityType
    <3> HIDE DEF Ones
    <3> QED BY <2>1, <2>2, <2>3, <3>1, <3>2
  <2>4. CASE f[m] = 1
    <3>1. Ones(m + 1) = Ones(m) \cup {m} /\ m \notin Ones(m)
      BY <2>1, <2>4
    <3> HIDE DEF Ones
    <3>2. IsFiniteSet(Ones(m + 1)) /\ Cardinality(Ones(m + 1)) = Cardinality(Ones(m)) + 1
      BY <2>1, <3>1, FS_AddElement
    <3> QED BY <2>1, <2>2, <2>4, <3>2
  <2> QED BY <2>2, <2>3, <2>4
<1>4. Nat \subseteq T
  <2> HIDE DEF T
  <2> QED BY <1>2, <1>3, SetInduction
<1>5. n \in T
  BY <1>4
<1>6. F[n] = Cardinality(Ones(n))
  <2> HIDE DEF Ones
  <2> QED BY <1>5
<1> QED BY <1>6 DEF F
-----------------------------------------------------------------------------
(* Lists *)

\* The rounds of the loop that filters a list.
FilterLoop(r, s, S) ==
  /\ r[0] = <<>>
  /\ \A k \in 1..Len(s) : r[k] = IF s[k] \in S THEN Append(r[k - 1], s[k]) ELSE r[k - 1]

\* The filtered list is what the loop has after its last round.
LEMMA FilteredRec ==
  ASSUME NEW T, NEW s \in Seq(T), NEW S
  PROVE  \E r \in [0..Len(s) -> Seq(T)] :
           FilterLoop(r, s, S) /\ Filtered(s, S) = r[Len(s)]
<1> DEFINE Step(g, k) == IF s[k] \in S THEN Append(g[k - 1], s[k]) ELSE g[k - 1]
           Eq(r) == r = [k \in 0..Len(s) |-> IF k = 0 THEN <<>> ELSE Step(r, k)]
           Prefix(m) == \E g \in [0..m -> Seq(T)] :
                          g[0] = <<>> /\ \A k \in 1..m : g[k] = Step(g, k)
           Good == {m \in Nat : m <= Len(s) => Prefix(m)}
<1>1. Prefix(0)
  <2> DEFINE z == [k \in 0..0 |-> <<>>]
  <2>1. z \in [0..0 -> Seq(T)] /\ z[0] = <<>> /\ \A k \in 1..0 : z[k] = Step(z, k)
    OBVIOUS
  <2> HIDE DEF z, Step
  <2> QED BY <2>1, Zenon
<1>2. ASSUME NEW m \in Nat, m + 1 <= Len(s), Prefix(m) PROVE Prefix(m + 1)
  <2>2. PICK g \in [0..m -> Seq(T)] : g[0] = <<>> /\ \A k \in 1..m : g[k] = Step(g, k)
    <3> HIDE DEF Step
    <3> QED BY <1>2, Zenon
  <2> DEFINE new == IF s[m + 1] \in S THEN Append(g[m], s[m + 1]) ELSE g[m]
             h == [k \in 0..(m + 1) |-> IF k <= m THEN g[k] ELSE new]
  <2>1. new \in Seq(T)
    <3>1. g[m] \in Seq(T) /\ s[m + 1] \in T
      BY <1>2, <2>2
    <3> QED BY <3>1
  <2>3. h \in [0..(m + 1) -> Seq(T)] /\ h[0] = <<>>
    <3> HIDE DEF new
    <3> QED BY <1>2, <2>1, <2>2
  <2>4. ASSUME NEW k \in 1..(m + 1) PROVE h[k] = Step(h, k)
    <3>1. CASE k <= m
      <4>1. h[k] = g[k] /\ h[k - 1] = g[k - 1]
        BY <3>1
      <4> HIDE DEF h
      <4> QED BY <3>1, <4>1, <2>2
    <3>2. CASE k = m + 1
      <4>1. h[k] = new /\ h[k - 1] = g[m]
        BY <3>2
      <4> HIDE DEF h
      <4> QED BY <3>2, <4>1
    <3> QED BY <3>1, <3>2
  <2> HIDE DEF h, Step
  <2> QED BY <2>3, <2>4, Zenon
<1>3. Prefix(Len(s))
  <2> HIDE DEF Prefix
  <2>1. 0 \in Good
    BY <1>1
  <2>2. \A m \in Nat : m \in Good => m + 1 \in Good
    BY <1>2
  <2>3. Nat \subseteq Good
    <3> HIDE DEF Good
    <3> QED BY <2>1, <2>2, SetInduction
  <2>4. Len(s) \in Nat
    OBVIOUS
  <2> QED BY <2>3, <2>4
<1>4. PICK g \in [0..Len(s) -> Seq(T)] :
             g[0] = <<>> /\ \A k \in 1..Len(s) : g[k] = Step(g, k)
  <2> HIDE DEF Step
  <2> QED BY <1>3, Zenon
<1>5. g = [k \in 0..Len(s) |-> IF k = 0 THEN <<>> ELSE Step(g, k)]
  <2>1. \A k \in 0..Len(s) : g[k] = IF k = 0 THEN <<>> ELSE Step(g, k)
    <3> HIDE DEF Step
    <3> QED BY <1>4
  <2>2. g = [k \in 0..Len(s) |-> g[k]]
    BY <1>4
  <2> HIDE DEF Step
  <2> QED BY <2>1, <2>2, Zenon
<1> DEFINE R == CHOOSE r : Eq(r)
<1>6. Filtered(s, S) = R[Len(s)]
  BY Zenon DEF Filtered
<1>7. Eq(R)
  <2>1. Eq(g)
    BY <1>5, Zenon
  <2> HIDE DEF Eq
  <2> QED BY <2>1, Zenon
<1>8. R = g
  <2> DEFINE M == {k \in Nat : k <= Len(s) => R[k] = g[k]}
  <2>1. R = [k \in 0..Len(s) |-> IF k = 0 THEN <<>> ELSE Step(R, k)]
    BY <1>7, Zenon
  <2> HIDE DEF R
  <2>2. \A k \in 0..Len(s) : R[k] = IF k = 0 THEN <<>> ELSE Step(R, k)
    <3> HIDE DEF Step
    <3> QED BY <2>1, Zenon
  <2>3. 0 \in M
    BY <2>2, <1>4
  <2>4. \A k \in Nat : k \in M => k + 1 \in M
    <3>1. SUFFICES ASSUME NEW k \in Nat, k + 1 <= Len(s), R[k] = g[k] PROVE R[k + 1] = g[k + 1]
      OBVIOUS
    <3>2. R[k + 1] = Step(R, k + 1) /\ g[k + 1] = Step(g, k + 1)
      <4> HIDE DEF Step
      <4> QED BY <3>1, <2>2, <1>4
    <3> QED BY <3>1, <3>2
  <2>5. Nat \subseteq M
    <3> HIDE DEF M
    <3> QED BY <2>3, <2>4, SetInduction
  <2>6. \A k \in 0..Len(s) : R[k] = g[k]
    BY <2>5
  <2>7. R = [k \in 0..Len(s) |-> R[k]] /\ g = [k \in 0..Len(s) |-> g[k]]
    <3>1. R = [k \in 0..Len(s) |-> R[k]]
      <4> HIDE DEF Step
      <4> QED BY <2>1
    <3> QED BY <3>1, <1>4
  <2> QED BY <2>6, <2>7
<1>9. Filtered(s, S) = g[Len(s)]
  BY <1>6, <1>8, Zenon
<1>10. FilterLoop(g, s, S)
  BY <1>4, Zenon DEF FilterLoop
<1> QED BY <1>9, <1>10, Zenon

\* What is pushed onto a list is one more member of it.
LEMMA AppendSet ==
  ASSUME NEW T, NEW s \in Seq(T), NEW x \in T
  PROVE  ToSet(Append(s, x)) = ToSet(s) \cup {x}
<1> DEFINE a == Append(s, x)
<1>1. /\ DOMAIN a = 1..(Len(s) + 1) /\ DOMAIN s = 1..Len(s) /\ Len(s) \in Nat
      /\ a[Len(s) + 1] = x /\ \A i \in 1..Len(s) : a[i] = s[i]
  OBVIOUS
<1> HIDE DEF a
<1>2. ToSet(a) = ToSet(s) \cup {x}
  BY <1>1 DEF ToSet
<1> QED BY <1>2 DEF a

\* Two lists without repetitions and nothing in common make one.
LEMMA ConcatSet ==
  ASSUME NEW T, NEW s \in Seq(T), NEW t \in Seq(T)
  PROVE  /\ ToSet(s \o t) = ToSet(s) \cup ToSet(t)
         /\ IsInjective(s) /\ IsInjective(t) /\ ToSet(s) \cap ToSet(t) = {}
            => IsInjective(s \o t)
<1> DEFINE c == s \o t
<1>1. /\ DOMAIN c = 1..(Len(s) + Len(t)) /\ DOMAIN s = 1..Len(s) /\ DOMAIN t = 1..Len(t)
      /\ Len(s) \in Nat /\ Len(t) \in Nat
      /\ \A i \in 1..Len(s) : c[i] = s[i]
      /\ \A i \in 1..Len(t) : c[Len(s) + i] = t[i]
  OBVIOUS
<1> HIDE DEF c
<1>2. \A i \in DOMAIN c : i \in 1..Len(s) \/ (i - Len(s) \in 1..Len(t) /\ c[i] = t[i - Len(s)])
  <2>1. \A i \in DOMAIN c : i \notin 1..Len(s) =>
          i - Len(s) \in 1..Len(t) /\ Len(s) + (i - Len(s)) = i
    BY <1>1
  <2> QED BY <2>1, <1>1
<1>3. ToSet(c) = ToSet(s) \cup ToSet(t)
  <2>1. ToSet(c) \subseteq ToSet(s) \cup ToSet(t)
    BY <1>1, <1>2 DEF ToSet
  <2>2. \A i \in 1..Len(t) : Len(s) + i \in DOMAIN c
    BY <1>1
  <2>4. \A i \in 1..Len(s) : i \in DOMAIN c
    BY <1>1
  <2>5. ToSet(t) \subseteq ToSet(c)
    BY <1>1, <2>2 DEF ToSet
  <2>6. ToSet(s) \subseteq ToSet(c)
    BY <1>1, <2>4 DEF ToSet
  <2>3. ToSet(s) \cup ToSet(t) \subseteq ToSet(c)
    BY <2>5, <2>6
  <2> QED BY <2>1, <2>3
<1>4. ASSUME IsInjective(s), IsInjective(t), ToSet(s) \cap ToSet(t) = {}
      PROVE  IsInjective(c)
  <2>1. \A i \in 1..Len(s), j \in 1..Len(t) : s[i] # t[j]
    BY <1>1, <1>4 DEF ToSet
  <2>2. SUFFICES ASSUME NEW i \in DOMAIN c, NEW j \in DOMAIN c, c[i] = c[j] PROVE i = j
    BY DEF IsInjective
  <2>3. CASE i \in 1..Len(s) /\ j \in 1..Len(s)
    BY <2>2, <2>3, <1>1, <1>4 DEF IsInjective
  <2>4. CASE i \in 1..Len(s) /\ j \notin 1..Len(s)
    BY <2>1, <2>2, <2>4, <1>1, <1>2
  <2>5. CASE i \notin 1..Len(s) /\ j \in 1..Len(s)
    BY <2>1, <2>2, <2>5, <1>1, <1>2
  <2>6. CASE i \notin 1..Len(s) /\ j \notin 1..Len(s)
    <3>1. i - Len(s) = j - Len(s)
      BY <2>2, <2>6, <1>1, <1>2, <1>4 DEF IsInjective
    <3> QED BY <3>1, <1>1
  <2> QED BY <2>3, <2>4, <2>5, <2>6
<1> QED BY <1>3, <1>4 DEF c

\* A list without repetitions stays one when something new is pushed.
LEMMA PushInjective ==
  ASSUME NEW T, NEW s \in Seq(T), NEW x \in T, IsInjective(s), x \notin ToSet(s)
  PROVE  IsInjective(Append(s, x))
BY DEF IsInjective, ToSet

\* The filtered list has the members of the list that pass, each as often.
LEMMA FilteredSet ==
  ASSUME NEW T, NEW s \in Seq(T), NEW S
  PROVE  /\ Filtered(s, S) \in Seq(T)
         /\ ToSet(Filtered(s, S)) = ToSet(s) \cap S
         /\ IsInjective(s) => IsInjective(Filtered(s, S))
<1>1. PICK r \in [0..Len(s) -> Seq(T)] :
             FilterLoop(r, s, S) /\ Filtered(s, S) = r[Len(s)]
  BY FilteredRec, Zenon
<1>a. /\ r[0] = <<>>
      /\ \A k \in 1..Len(s) :
           r[k] = IF s[k] \in S THEN Append(r[k - 1], s[k]) ELSE r[k - 1]
  BY <1>1, Zenon DEF FilterLoop
<1>2. Len(s) \in Nat /\ DOMAIN s = 1..Len(s) /\ \A i \in 1..Len(s) : s[i] \in T
  OBVIOUS
<1> DEFINE Before(k) == {s[i] : i \in 1..k} \cap S
           Fits(k) == /\ ToSet(r[k]) = Before(k)
                      /\ IsInjective(s) => IsInjective(r[k])
           M == {k \in Nat : k <= Len(s) => Fits(k)}
<1>3. 0 \in M
  <2>1. ToSet(<<>>) = {} /\ IsInjective(<<>>)
    BY DEF ToSet, IsInjective
  <2>2. Before(0) = {}
    OBVIOUS
  <2> HIDE DEF Before
  <2> QED BY <1>a, <2>1, <2>2
<1>4. \A k \in Nat : k \in M => k + 1 \in M
  <2>1. SUFFICES ASSUME NEW k \in Nat, k + 1 <= Len(s), Fits(k) PROVE Fits(k + 1)
    <3> HIDE DEF Fits
    <3> QED OBVIOUS
  <2>2. /\ r[k] \in Seq(T) /\ s[k + 1] \in T
        /\ r[k + 1] = IF s[k + 1] \in S THEN Append(r[k], s[k + 1]) ELSE r[k]
    BY <2>1, <1>1, <1>a, <1>2
  <2>3. Before(k + 1) = Before(k) \cup ({s[k + 1]} \cap S)
    <3>1. 1..(k + 1) = 1..k \cup {k + 1}
      BY <2>1
    <3> QED BY <3>1
  <2>4. CASE s[k + 1] \notin S
    <3>1. Before(k + 1) = Before(k) /\ r[k + 1] = r[k]
      BY <2>2, <2>3, <2>4
    <3> HIDE DEF Before
    <3> QED BY <2>1, <3>1
  <2>5. CASE s[k + 1] \in S
    <3>1. Before(k + 1) = Before(k) \cup {s[k + 1]}
      <4> HIDE DEF Before
      <4> QED BY <2>3, <2>5
    <3>2. ToSet(r[k + 1]) = Before(k + 1)
      <4>1. r[k + 1] = Append(r[k], s[k + 1])
        BY <2>2, <2>5, Zenon
      <4>2. ToSet(r[k + 1]) = ToSet(r[k]) \cup {s[k + 1]}
        BY <2>2, <4>1, AppendSet
      <4> HIDE DEF Before
      <4> QED BY <2>1, <3>1, <4>2
    <3>3. ASSUME IsInjective(s) PROVE IsInjective(r[k + 1])
      <4>1. s[k + 1] \notin Before(k)
        BY <2>1, <1>2, <3>3 DEF IsInjective
      <4>2. s[k + 1] \notin ToSet(r[k])
        <5> HIDE DEF Before
        <5> QED BY <2>1, <4>1
      <4> QED BY <2>1, <2>2, <2>5, <3>3, <4>2, PushInjective
    <3> QED BY <3>2, <3>3
  <2> QED BY <2>4, <2>5
<1>5. Nat \subseteq M
  <2> HIDE DEF M
  <2> QED BY <1>3, <1>4, SetInduction
<1>6. Fits(Len(s))
  <2> HIDE DEF Fits
  <2> QED BY <1>2, <1>5
<1>7. Before(Len(s)) = ToSet(s) \cap S
  BY <1>2 DEF ToSet
<1>8. r[Len(s)] \in Seq(T)
  BY <1>1, <1>2
<1> HIDE DEF Before
<1> QED BY <1>1, <1>6, <1>7, <1>8

\* A list without repetitions is as long as it has members.
LEMMA InjectiveLen ==
  ASSUME NEW T, NEW s \in Seq(T), IsInjective(s)
  PROVE  IsFiniteSet(ToSet(s)) /\ Cardinality(ToSet(s)) = Len(s)
<1>1. Len(s) \in Nat /\ DOMAIN s = 1..Len(s)
  OBVIOUS
<1>2. s \in Bijection(1..Len(s), ToSet(s))
  <2>1. s \in [1..Len(s) -> ToSet(s)]
    BY <1>1 DEF ToSet
  <2>2. \A y \in ToSet(s) : \E x \in 1..Len(s) : s[x] = y
    BY <1>1 DEF ToSet
  <2>3. \A a, b \in 1..Len(s) : s[a] = s[b] => a = b
    BY <1>1 DEF IsInjective
  <2> QED BY <2>1, <2>2, <2>3 DEF Bijection, Injection, Surjection, IsInjective
<1>3. IsFiniteSet(1..Len(s)) /\ Cardinality(1..Len(s)) = Len(s)
  BY <1>1, FS_Interval
<1>4. ExistsBijection(1..Len(s), ToSet(s))
  BY <1>2 DEF ExistsBijection
<1> QED BY <1>3, <1>4, FS_Bijection

\* A member that leaves a list without repetitions by an overwrite and a pop
\* leaves the others in it, each once.
LEMMA SwapPopSet ==
  ASSUME NEW T, NEW s \in Seq(T), NEW x \in ToSet(s), IsInjective(s)
  PROVE  /\ SwapPop(s, x) \in Seq(T)
         /\ ToSet(SwapPop(s, x)) = ToSet(s) \ {x}
         /\ IsInjective(SwapPop(s, x))
<1>1. Len(s) \in Nat /\ DOMAIN s = 1..Len(s) /\ \A i \in 1..Len(s) : s[i] \in T
  OBVIOUS
<1>2. \A i, j \in 1..Len(s) : s[i] = s[j] => i = j
  BY <1>1 DEF IsInjective
<1> DEFINE n == Len(s)
           I == {i \in 1..n : s[i] = x}
           at == SelectInSeq(s, LAMBDA y : y = x)
<1>3. at = IF I # {} THEN Min(I) ELSE 0
  BY DEF SelectInSeq
<1>4. at \in 1..n /\ s[at] = x
  <2>1. I # {} /\ I \subseteq Nat
    BY <1>1 DEF ToSet
  <2>2. \E m \in I : \A k \in I : m <= k
    <3> HIDE DEF I
    <3> QED BY <2>1, LeastNat
  <2>3. Min(I) \in I
    <3> HIDE DEF I
    <3> QED BY <2>2 DEF Min
  <2>4. at \in I
    <3> HIDE DEF I, at
    <3> QED BY <1>3, <2>1, <2>3
  <2> HIDE DEF at
  <2> QED BY <2>4
<1> HIDE DEF at
<1> DEFINE e == [s EXCEPT ![at] = s[n]]
           p == SubSeq(e, 1, n - 1)
<1>5. e \in Seq(T) /\ Len(e) = n /\ \A i \in 1..n : e[i] = IF i = at THEN s[n] ELSE s[i]
  <2>1. s[n] \in T
    BY <1>1, <1>4
  <2> QED BY <1>1, <1>4, <2>1
<1>6. SwapPop(s, x) = p
  BY <1>5 DEF SwapPop, Front, Last, at
<1>7. p \in Seq(T) /\ Len(p) = n - 1 /\ DOMAIN p = 1..(n - 1)
      /\ \A i \in 1..(n - 1) : p[i] = IF i = at THEN s[n] ELSE s[i]
  <2> HIDE DEF e
  <2> QED BY <1>1, <1>4, <1>5
<1> HIDE DEF p, e
<1>a. \A i, m \in Nat : i \in 1..(m - 1) => i \in 1..m /\ m \in 1..m /\ i # m
  OBVIOUS
<1>b. \A i, m \in Nat : i \in 1..m /\ i # m => i \in 1..(m - 1)
  OBVIOUS
<1>c. n \in Nat /\ \A i \in 1..n : i \in Nat
  BY <1>1
<1>d. \A i \in 1..(n - 1) : i \in Nat
  OBVIOUS
<1>e. \A i \in 1..(n - 1) : i \in 1..n /\ n \in 1..n /\ i # n
  BY <1>a, <1>c, <1>d, Zenon
<1>f. \A i \in 1..n : i # n => i \in 1..(n - 1)
  BY <1>b, <1>c, Zenon
<1>g. \A i \in 1..(n - 1) : p[i] = IF i = at THEN s[n] ELSE s[i]
  BY <1>7
<1>h. DOMAIN p = 1..(n - 1)
  BY <1>7
<1>8. ToSet(p) \subseteq ToSet(s) \ {x}
  <2>1. SUFFICES ASSUME NEW i \in 1..(n - 1) PROVE p[i] \in ToSet(s) /\ p[i] # x
    BY <1>7 DEF ToSet
  <2>2. CASE i = at
    <3>1. p[i] = s[n] /\ n \in 1..n /\ at # n
      BY <1>e, <1>g, <2>1, <2>2, Zenon
    <3> QED BY <3>1, <1>1, <1>2, <1>4 DEF ToSet
  <2>3. CASE i # at
    <3>1. p[i] = s[i] /\ i \in 1..n
      BY <1>e, <1>g, <2>1, <2>3, Zenon
    <3> QED BY <2>3, <3>1, <1>1, <1>2, <1>4 DEF ToSet
  <2> QED BY <2>2, <2>3
<1>9. ToSet(s) \ {x} \subseteq ToSet(p)
  <2>1. SUFFICES ASSUME NEW i \in 1..n, s[i] # x PROVE s[i] \in ToSet(p)
    BY <1>1 DEF ToSet
  <2>2. CASE i = n
    <3>1. at \in 1..(n - 1) /\ p[at] = s[i]
      BY <1>4, <1>f, <1>g, <2>1, <2>2, Zenon
    <3> QED BY <3>1, <1>7 DEF ToSet
  <2>3. CASE i # n
    <3>1. i \in 1..(n - 1) /\ p[i] = s[i]
      BY <1>4, <1>f, <1>g, <2>1, <2>3, Zenon
    <3> QED BY <3>1, <1>7 DEF ToSet
  <2> QED BY <2>2, <2>3
<1>10. IsInjective(p)
  <2>1. SUFFICES ASSUME NEW i \in 1..(n - 1), NEW j \in 1..(n - 1), p[i] = p[j] PROVE i = j
    BY <1>7 DEF IsInjective
  <2>2. i \in 1..n /\ j \in 1..n /\ n \in 1..n /\ i # n /\ j # n
    BY <1>e, Zenon
  <2>3. CASE i = at
    BY <2>1, <2>2, <2>3, <1>2, <1>7
  <2>4. CASE j = at
    BY <2>1, <2>2, <2>4, <1>2, <1>7
  <2>5. CASE i # at /\ j # at
    BY <2>1, <2>2, <2>5, <1>2, <1>7
  <2> QED BY <2>3, <2>4, <2>5
<1> QED BY <1>6, <1>7, <1>8, <1>9, <1>10
=============================================================================
