--------------------------- MODULE MCPricing_proofs ---------------------------
(***************************************************************************)
(* The properties of a bill, for inputs of any size and int64s of any      *)
(* width.  There is one step, so the invariant says what the step left;    *)
(* what is to be proved is about the arithmetic, for each input.           *)
(***************************************************************************)
EXTENDS MCPricing, Pricing_proofs, SequenceTheorems

-----------------------------------------------------------------------------
(* A plan without gaps *)

\* A plan of n tiers, each beginning where the one before ends, the last open.
Chain(ts, n) ==
    /\ n \in Nat \ {0} /\ DOMAIN ts = 1 .. n
    /\ \A i \in 1 .. n : ts[i].from \in Nat /\ ts[i].price \in Nat
    /\ \A i \in 1 .. n : i < n => /\ ts[i].to \in Nat /\ ts[i].from < ts[i].to
                                  /\ ts[i].to = ts[i + 1].from
    /\ ts[1].from = 0
    /\ ts[n].to = NoLimit

\* The u-th unit falls in tier t.
FallsIn(u, t) == t.from < u /\ (t.to = NoLimit \/ u <= t.to)

\* An earlier tier ends before a later one begins.
LEMMA TiersApart ==
  ASSUME NEW ts, NEW n, Chain(ts, n), NEW i \in 1 .. n, NEW j \in 1 .. n, i < j
  PROVE  ts[i].to \in Nat /\ ts[i].from < ts[i].to /\ ts[i].to <= ts[j].from
<1>1. i < n /\ ts[i].to \in Nat /\ ts[i].from < ts[i].to
  BY DEF Chain
<1> DEFINE T == {k \in Nat : i < k /\ k <= n /\ ~ (ts[i].to <= ts[k].from)}
<1>2. SUFFICES ASSUME T # {} PROVE FALSE
  <2>1. j \in Nat /\ j <= n
    BY DEF Chain
  <2>2. QED
    BY <1>1, <2>1
<1>3. PICK k \in T : \A m \in T : k <= m
  <2>1. T \in SUBSET Nat
    OBVIOUS
  <2> HIDE DEF T
  <2>2. QED
    BY <1>2, <2>1, Least
<1> DEFINE p == k - 1
<1>4. n \in Nat /\ k \in Nat /\ i \in Nat /\ i < k /\ k <= n /\ ~ (ts[i].to <= ts[k].from)
  BY <1>3 DEF Chain
<1>5. p \in 1 .. n /\ p < n /\ p + 1 = k /\ p < k /\ i <= p /\ p \in Nat /\ k \in 1 .. n
  BY <1>4
<1>6. ts[p].to = ts[k].from /\ ts[p].from < ts[p].to /\ ts[p].to \in Nat /\ ts[p].from \in Nat
  <2> HIDE DEF p, T
  <2>1. ts[p].to = ts[p + 1].from
    BY <1>5 DEF Chain
  <2>2. QED
    BY <1>5, <2>1 DEF Chain
<1>7. CASE p = i
  BY <1>4, <1>6, <1>7
<1>8. CASE p # i
  <2>1. p \notin T
    <3> HIDE DEF T
    <3>1. QED
      BY <1>3, <1>5
  <2>2. ts[i].to <= ts[p].from
    <3> HIDE DEF p
    <3>1. i < p /\ p <= n
      BY <1>4, <1>5, <1>8
    <3>2. QED
      BY <1>5, <2>1, <3>1
  <2>3. QED
    BY <1>1, <1>4, <1>6, <2>2
<1>9. QED
  BY <1>7, <1>8

\* Every unit falls in one tier.
LEMMA TierOfUnit ==
  ASSUME NEW ts, NEW n, Chain(ts, n), NEW u \in Nat \ {0}
  PROVE  \E i \in 1 .. n : /\ FallsIn(u, ts[i])
                           /\ \A j \in 1 .. n : FallsIn(u, ts[j]) => j = i
<1> DEFINE T == {k \in Nat : k \in 1 .. n /\ (ts[k].to = NoLimit \/ u <= ts[k].to)}
<1>1. n \in T
  BY DEF Chain
<1>2. PICK i \in T : \A m \in T : i <= m
  <2>1. T \in SUBSET Nat /\ T # {}
    BY <1>1
  <2> HIDE DEF T
  <2>2. QED
    BY <2>1, Least
<1>3. i \in 1 .. n /\ i \in Nat /\ (ts[i].to = NoLimit \/ u <= ts[i].to)
  BY <1>2
<1>4. ts[i].from < u
  <2>1. CASE i = 1
    BY <2>1 DEF Chain
  <2>2. CASE i # 1
    <3> DEFINE p == i - 1
    <3>1. p \in 1 .. n /\ p \in Nat /\ p < i /\ p < n /\ p + 1 = i
      BY <1>3, <2>2 DEF Chain
    <3>2. p \notin T
      <4> HIDE DEF T
      <4>1. QED
        BY <1>2, <1>3, <3>1
    <3>3. ~ (u <= ts[p].to)
      <4> HIDE DEF p
      <4>1. QED
        BY <3>1, <3>2
    <3>4. ts[p].to = ts[i].from /\ ts[p].to \in Nat
      <4> HIDE DEF p, T
      <4>1. ts[p].to = ts[p + 1].from /\ ts[p].to \in Nat
        BY <3>1 DEF Chain
      <4>2. QED
        BY <3>1, <4>1
    <3>5. QED
      BY <3>3, <3>4
  <2>3. QED
    BY <2>1, <2>2
<1>5. ASSUME NEW j \in 1 .. n, FallsIn(u, ts[j]), j # i
      PROVE  FALSE
  <2>1. n \in Nat /\ j \in Nat /\ ts[j].from \in Nat /\ ts[i].from \in Nat
    BY <1>3 DEF Chain
  <2>2. CASE j < i
    <3>1. ts[j].to \in Nat /\ ts[j].to <= ts[i].from
      BY <1>3, <2>2, TiersApart
    <3>2. QED
      BY <1>4, <1>5, <2>1, <3>1 DEF FallsIn, NoLimit
  <2>3. CASE i < j
    <3>1. ts[i].to \in Nat /\ ts[i].to <= ts[j].from
      BY <1>3, <2>3, TiersApart
    <3>2. QED
      BY <1>3, <1>5, <2>1, <3>1 DEF FallsIn, NoLimit
  <2>4. QED
    BY <1>3, <1>5, <2>1, <2>2, <2>3
<1>6. FallsIn(u, ts[i])
  BY <1>3, <1>4 DEF FallsIn
<1>7. QED
  BY <1>3, <1>5, <1>6

\* How many of the first m units fall in tier t.
PartOf(m, t) == IF t.from < m
                THEN (IF t.to # NoLimit /\ t.to < m THEN t.to ELSE m) - t.from
                ELSE 0

\* One more unit is one more in the tier it falls in.
LEMMA PartGrows ==
  ASSUME NEW ts, NEW n, Chain(ts, n), NEW i \in 1 .. n, NEW m \in Nat
  PROVE  /\ PartOf(m, ts[i]) \in Int
         /\ PartOf(m + 1, ts[i]) =
               PartOf(m, ts[i]) + (IF FallsIn(m + 1, ts[i]) THEN 1 ELSE 0)
<1> DEFINE t == ts[i]
<1>1. t.from \in Nat /\ (t.to = NoLimit \/ (t.to \in Nat /\ t.from < t.to))
  <2>1. i = n \/ i < n
    BY DEF Chain
  <2>2. t.from \in Nat
    BY DEF Chain
  <2>3. CASE i = n
    <3>1. ts[n].to = NoLimit
      BY DEF Chain
    <3>2. QED
      BY <2>2, <2>3, <3>1 DEF t
  <2>4. CASE i < n
    BY <2>2, <2>4 DEF Chain
  <2>5. QED
    BY <2>1, <2>3, <2>4
<1> HIDE DEF t
<1>2. PartOf(m, t) \in Int
  BY <1>1 DEF PartOf
<1>3. PartOf(m + 1, t) = PartOf(m, t) + (IF FallsIn(m + 1, t) THEN 1 ELSE 0)
  BY <1>1 DEF PartOf, FallsIn, NoLimit
<1>4. QED
  BY <1>2, <1>3 DEF t
-----------------------------------------------------------------------------
(* Tiers and units *)

\* What the u-th unit costs.
PriceOf(ts, u) == LET i == CHOOSE i \in DOMAIN ts : FallsIn(u, ts[i])
                  IN  ts[i].price

\* What the first m units cost, by tier.
Costs(ts, n, m) == [i \in 1 .. n |-> PartOf(m, ts[i]) * ts[i].price]

\* They are finitely many integers.
LEMMA CostTyped ==
  ASSUME NEW ts, NEW n, Chain(ts, n), NEW m \in Nat
  PROVE  /\ IsFiniteSet(1 .. n)
         /\ \A i \in 1 .. n : Costs(ts, n, m)[i] \in Int
<1>1. n \in Int
  BY DEF Chain
<1>2. ASSUME NEW i \in 1 .. n
      PROVE  Costs(ts, n, m)[i] \in Int
  <2>1. PartOf(m, ts[i]) \in Int /\ ts[i].price \in Int
    <3>1. ts[i].price \in Nat
      BY DEF Chain
    <3>2. PartOf(m, ts[i]) \in Int
      BY PartGrows
    <3>3. QED
      BY <3>1, <3>2
  <2>2. PartOf(m, ts[i]) * ts[i].price \in Int
    BY <2>1
  <2>3. QED
    BY <2>2 DEF Costs
<1>3. QED
  BY <1>1, <1>2, FS_Interval

\* One unit more costs what its tier charges.
LEMMA CostGrows ==
  ASSUME NEW ts, NEW n, Chain(ts, n), NEW m \in Nat
  PROVE  /\ PriceOf(ts, m + 1) \in Int
         /\ SumOver(Costs(ts, n, m + 1), 1 .. n)
               = SumOver(Costs(ts, n, m), 1 .. n) + PriceOf(ts, m + 1)
<1> DEFINE f == Costs(ts, n, m)
           g == Costs(ts, n, m + 1)
<1>1. m + 1 \in Nat \ {0} /\ DOMAIN ts = 1 .. n
  BY DEF Chain
<1>2. PICK i \in 1 .. n : /\ FallsIn(m + 1, ts[i])
                          /\ \A j \in 1 .. n : FallsIn(m + 1, ts[j]) => j = i
  BY <1>1, TierOfUnit
<1>3. PriceOf(ts, m + 1) = ts[i].price /\ ts[i].price \in Int
  <2> DEFINE c == CHOOSE j \in DOMAIN ts : FallsIn(m + 1, ts[j])
  <2>1. c = i
    BY <1>1, <1>2
  <2>2. ts[i].price \in Nat
    BY DEF Chain
  <2>3. PriceOf(ts, m + 1) = ts[c].price
    BY DEF PriceOf
  <2> HIDE DEF c
  <2>4. QED
    BY <2>1, <2>2, <2>3
<1>4. \A j \in 1 .. n : f[j] \in Int /\ g[j] \in Int
  BY <1>1, CostTyped
<1>5. \A j \in (1 .. n) \ {i} : f[j] = g[j]
  <2> SUFFICES ASSUME NEW j \in 1 .. n, j # i
               PROVE  f[j] = g[j]
    OBVIOUS
  <2>1. PartOf(m + 1, ts[j]) = PartOf(m, ts[j]) + 0 /\ PartOf(m, ts[j]) \in Int
    BY <1>2, PartGrows
  <2>2. PartOf(m + 1, ts[j]) = PartOf(m, ts[j])
    BY <2>1
  <2>3. QED
    BY <2>2 DEF Costs
<1>6. g[i] = f[i] + ts[i].price
  <2> DEFINE q == PartOf(m, ts[i])
             p == ts[i].price
  <2>1. PartOf(m + 1, ts[i]) = q + 1 /\ q \in Int
    BY <1>2, PartGrows
  <2>2. g[i] = PartOf(m + 1, ts[i]) * p /\ f[i] = q * p
    BY DEF Costs
  <2>3. p \in Int
    BY <1>3
  <2> HIDE DEF q, p, f, g
  <2>4. (q + 1) * p = q * p + p
    BY <2>1, <2>3
  <2>5. g[i] = f[i] + p
    BY <2>1, <2>2, <2>4
  <2>6. QED
    BY <2>5 DEF p
<1> HIDE DEF f, g
<1>7. SumOver(g, 1 .. n) = SumOver(f, 1 .. n) + g[i] - f[i]
  <2> DEFINE S == 1 .. n
  <2>1. IsFiniteSet(S)
    BY CostTyped
  <2>2. i \in S /\ (\A y \in S : f[y] \in Int /\ g[y] \in Int) /\ \A y \in S \ {i} : f[y] = g[y]
    BY <1>4, <1>5
  <2> HIDE DEF S
  <2>3. SumOver(g, S) = SumOver(f, S) + g[i] - f[i]
    BY <2>1, <2>2, SumChange
  <2>4. QED
    BY <2>3 DEF S
<1>8. SumOver(f, 1 .. n) \in Int
  BY <1>4, CostTyped, SumType
<1>9. f[i] \in Int /\ g[i] \in Int
  BY <1>4
<1>10. SumOver(g, 1 .. n) = SumOver(f, 1 .. n) + PriceOf(ts, m + 1)
  BY <1>3, <1>6, <1>7, <1>8, <1>9
<1>11. QED
  BY <1>3, <1>10 DEF f, g

\* Tier by tier the units cost what they cost one by one.
LEMMA CostByUnit ==
  ASSUME NEW ts, NEW n, Chain(ts, n), NEW used \in Nat,
         NEW h, \A u \in 1 .. used : h[u] = PriceOf(ts, u)
  PROVE  SumOver(Costs(ts, n, used), 1 .. n) = SumOver(h, 1 .. used)
<1> DEFINE Same(m) == SumOver(Costs(ts, n, m), 1 .. n) = SumOver(h, 1 .. m)
           T == {m \in Nat : m <= used /\ ~ Same(m)}
<1>1. SUFFICES ASSUME T # {} PROVE FALSE
  <2> HIDE DEF Same
  <2>1. Same(used)
    BY <1>1
  <2>2. QED
    BY <2>1 DEF Same
<1>2. PICK m \in T : \A k \in T : m <= k
  <2>1. T \in SUBSET Nat
    OBVIOUS
  <2> HIDE DEF T
  <2>2. QED
    BY <1>1, <2>1, Least
<1>3. m \in Nat /\ m <= used /\ ~ Same(m)
  <2> HIDE DEF Same
  <2>1. QED
    BY <1>2
<1>4. CASE m = 0
  <2>1. \A i \in 1 .. n : Costs(ts, n, 0)[i] = 0
    <3> SUFFICES ASSUME NEW i \in 1 .. n
                 PROVE  Costs(ts, n, 0)[i] = 0
      OBVIOUS
    <3>1. ts[i].from \in Nat /\ ts[i].price \in Nat
      BY DEF Chain
    <3>2. PartOf(0, ts[i]) = 0
      BY <3>1 DEF PartOf
    <3>3. QED
      BY <3>1, <3>2 DEF Costs
  <2>2. IsFiniteSet(1 .. n)
    BY CostTyped
  <2>3. SumOver(Costs(ts, n, 0), 1 .. n) = 0
    BY <2>1, <2>2, SumZero
  <2>4. 1 .. 0 = {}
    OBVIOUS
  <2>5. SumOver(h, 1 .. 0) = 0
    BY <2>4, SumEmpty
  <2>6. QED
    BY <1>3, <1>4, <2>3, <2>5
<1>5. CASE m # 0
  <2> DEFINE k == m - 1
  <2>1. k \in Nat /\ k + 1 = m /\ k <= used /\ k < m
    BY <1>3, <1>5
  <2>2. Same(k)
    <3> HIDE DEF Same, k
    <3>1. ~ (m <= k)
      BY <1>3, <2>1
    <3>2. k \notin T
      <4> HIDE DEF T
      <4>1. QED
        BY <1>2, <3>1
    <3>3. QED
      BY <2>1, <3>2
  <2>3. SumOver(Costs(ts, n, m), 1 .. n) = SumOver(Costs(ts, n, k), 1 .. n) + PriceOf(ts, m)
        /\ PriceOf(ts, m) \in Int
    <3> HIDE DEF k
    <3>1. /\ SumOver(Costs(ts, n, k + 1), 1 .. n)
                = SumOver(Costs(ts, n, k), 1 .. n) + PriceOf(ts, k + 1)
          /\ PriceOf(ts, k + 1) \in Int
      BY <2>1, CostGrows
    <3>2. QED
      BY <2>1, <3>1
  <2>4. \A u \in 1 .. m : h[u] \in Int
    <3> SUFFICES ASSUME NEW u \in 1 .. m
                 PROVE  h[u] \in Int
      OBVIOUS
    <3> DEFINE v == u - 1
    <3>1. v \in Nat /\ v + 1 = u /\ u \in 1 .. used
      BY <1>3
    <3> HIDE DEF v
    <3>2. PriceOf(ts, v + 1) \in Int
      BY <3>1, CostGrows
    <3>3. QED
      BY <3>1, <3>2
  <2>5. SumOver(h, 1 .. m) = h[m] + SumOver(h, 1 .. k)
    <3> DEFINE S == 1 .. m
    <3>1. S \ {m} = 1 .. k /\ m \in S
      BY <1>3, <2>1
    <3>2. IsFiniteSet(S)
      BY <1>3, FS_Interval
    <3>3. \A u \in S : h[u] \in Int
      BY <2>4
    <3> HIDE DEF S, k
    <3>4. SumOver(h, S) = h[m] + SumOver(h, S \ {m})
      BY <3>1, <3>2, <3>3, SumRemove
    <3>5. QED
      BY <3>1, <3>4 DEF S
  <2>6. h[m] = PriceOf(ts, m)
    BY <1>3, <1>5
  <2>7. SumOver(h, 1 .. k) \in Int
    <3>1. IsFiniteSet(1 .. k)
      BY <2>1, FS_Interval
    <3>2. \A u \in 1 .. k : h[u] \in Int
      BY <1>3, <2>1, <2>4
    <3> HIDE DEF k
    <3>3. QED
      BY <3>1, <3>2, SumType
  <2>8. SumOver(Costs(ts, n, m), 1 .. n) = SumOver(h, 1 .. m)
    <3>1. SumOver(Costs(ts, n, k), 1 .. n) = SumOver(h, 1 .. k)
      BY <2>2
    <3> HIDE DEF k, Same, T
    <3>2. QED
      BY <2>3, <2>5, <2>6, <2>7, <3>1
  <2>9. QED
    BY <1>3, <2>8
<1>6. QED
  BY <1>4, <1>5
\* Under a plan without gaps the tiers with a line are those that begin below the
\* units, and a line's quantity is the part of the units that falls in its tier.
LEMMA BilledParts ==
  ASSUME NEW ts, NEW n, Chain(ts, n), NEW used \in Nat, NEW i \in 1 .. n
  PROVE  /\ i \in BilledTiers(used, ts) =>
               Quantity(used, ts[i]) = PartOf(used, ts[i])
         /\ i \notin BilledTiers(used, ts) => PartOf(used, ts[i]) = 0
<1>1. n \in Nat /\ i \in Nat /\ DOMAIN ts = 1 .. n /\ \A j \in 1 .. n : ts[j].from \in Nat
  BY DEF Chain
<1>2. ts[i].to = NoLimit \/ (ts[i].to \in Nat /\ ts[i].from < ts[i].to)
  <2>1. CASE i = n
    <3>1. ts[n].to = NoLimit
      BY DEF Chain
    <3>2. QED
      BY <2>1, <3>1
  <2>2. CASE i # n
    <3>1. i < n
      BY <1>1, <2>2
    <3>2. QED
      BY <3>1 DEF Chain
  <2>3. QED
    BY <2>1, <2>2
<1>3. CASE ts[i].from < used
  <2>1. \A j \in 1 .. i : used > ts[j].from
    <3> SUFFICES ASSUME NEW j \in 1 .. i
                 PROVE  used > ts[j].from
      OBVIOUS
    <3>1. j \in 1 .. n /\ (j = i \/ j < i)
      BY <1>1
    <3>2. CASE j = i
      BY <1>1, <1>3, <3>2
    <3>3. CASE j < i
      <4>1. ts[j].to \in Nat /\ ts[j].from < ts[j].to /\ ts[j].to <= ts[i].from
        BY <3>1, <3>3, TiersApart
      <4>2. QED
        BY <1>1, <1>3, <3>1, <4>1
    <3>4. QED
      BY <3>1, <3>2, <3>3
  <2>2. i \in Reached(used, ts)
    BY <1>1, <2>1 DEF Reached
  <2>3. Quantity(used, ts[i]) = PartOf(used, ts[i]) /\ Quantity(used, ts[i]) > 0
    BY <1>1, <1>2, <1>3 DEF Quantity, PartOf
  <2>4. QED
    BY <2>2, <2>3 DEF BilledTiers
<1>4. CASE ~ (ts[i].from < used)
  <2>1. PartOf(used, ts[i]) = 0
    BY <1>4 DEF PartOf
  <2>2. ~ (used > ts[i].from) /\ i \in 1 .. i
    BY <1>1, <1>4
  <2>3. i \notin BilledTiers(used, ts)
    BY <2>2 DEF BilledTiers, Reached
  <2>4. QED
    BY <2>1, <2>3
<1>5. QED
  BY <1>3, <1>4

\* So the lines cost what the units cost.
LEMMA BilledCost ==
  ASSUME NEW ts, NEW n, Chain(ts, n), NEW used \in Nat,
         NEW cost, \A i \in BilledTiers(used, ts) :
                      cost[i] = Quantity(used, ts[i]) * ts[i].price
  PROVE  SumOver(cost, BilledTiers(used, ts)) = SumOver(Costs(ts, n, used), 1 .. n)
<1> DEFINE B == BilledTiers(used, ts)
           S == 1 .. n
           R == S \ B
           f == Costs(ts, n, used)
<1>1. B \subseteq S
  BY DEF Chain, BilledTiers, Reached
<1>2. \A i \in B : cost[i] = f[i]
  <2> SUFFICES ASSUME NEW i \in B
               PROVE  cost[i] = f[i]
    OBVIOUS
  <2>1. i \in 1 .. n
    BY <1>1
  <2>2. Quantity(used, ts[i]) = PartOf(used, ts[i])
    BY <2>1, BilledParts
  <2>3. f[i] = PartOf(used, ts[i]) * ts[i].price
    BY <2>1 DEF Costs
  <2>4. cost[i] = Quantity(used, ts[i]) * ts[i].price
    OBVIOUS
  <2> HIDE DEF f
  <2>5. QED
    BY <2>2, <2>3, <2>4
<1>3. \A i \in R : f[i] = 0
  <2> SUFFICES ASSUME NEW i \in R
               PROVE  f[i] = 0
    OBVIOUS
  <2>1. PartOf(used, ts[i]) = 0
    BY BilledParts
  <2>2. ts[i].price \in Nat
    BY DEF Chain
  <2>3. QED
    BY <2>1, <2>2 DEF Costs
<1>4. IsFiniteSet(S) /\ \A i \in S : f[i] \in Int
  BY CostTyped
<1> HIDE DEF B, S, f
<1>5. IsFiniteSet(B) /\ IsFiniteSet(R) /\ B \cap R = {} /\ S = B \cup R
  BY <1>1, <1>4, FS_Subset
<1>6. SumOver(cost, B) = SumOver(f, B)
  BY <1>2, <1>5, SumSame
<1> HIDE DEF R
<1>7. SumOver(f, R) = 0
  BY <1>3, <1>5, SumZero
<1>8. SumOver(f, S) = SumOver(f, B) + SumOver(f, R)
  BY <1>4, <1>5, SumUnion
<1>9. SumOver(f, B) \in Int
  BY <1>4, <1>5, SumType
<1>10. QED
  BY <1>6, <1>7, <1>8, <1>9 DEF B, S, f

-----------------------------------------------------------------------------
(* The step *)

\* The inputs are what they were, and there is a bill only of them.
Inv == /\ units \in 1 .. MaxUnits
       /\ tiers \in Plans
       /\ grants \in Grants
       /\ bill = NoBill \/ bill = Bill(units, tiers, grants)

\* Every usage, plan and list of grants is one the arithmetic is defined for.
LEMMA InputTyped ==
  ASSUME Inv
  PROVE  /\ units \in Nat
         /\ tiers \in Tiers /\ tiers \in Seq(Tier)
         /\ Open(grants) /\ Fitting(grants)
         /\ \A i \in DOMAIN grants : grants[i] \in Nat
<1>1. units \in Nat
  BY SizeAssumption DEF Inv
<1>2. Tier \subseteq [from : Nat, to : Nat \cup {NoLimit}, price : Nat]
  BY SizeAssumption DEF Tier
<1>3. PICK k \in Nat : tiers \in [1 .. k -> Tier]
  <2>1. PICK n \in 1 .. MaxTiers : tiers \in [1 .. n -> Tier]
    BY DEF Inv, Plans
  <2>2. n \in Nat
    BY SizeAssumption
  <2>3. QED
    BY <2>1, <2>2
<1>4. tiers \in Seq(Tier) /\ tiers \in Tiers
  <2> DEFINE R == [from : Nat, to : Nat \cup {NoLimit}, price : Nat]
  <2> HIDE DEF R
  <2>1. Tier \subseteq R
    BY <1>2 DEF R
  <2>2. tiers \in [1 .. k -> R]
    BY <1>3, <2>1
  <2>3. tiers \in Seq(R) /\ tiers \in Seq(Tier)
    BY <1>3, <2>2, SeqDef
  <2>4. QED
    BY <2>3 DEF R, Tiers
<1>5. PICK g \in 0 .. MaxGrants : grants \in [1 .. g -> 1 .. MaxGrant]
  BY DEF Inv, Grants
<1>6. DOMAIN grants = 1 .. g /\ g \in Nat /\ \A i \in 1 .. g : grants[i] \in 1 .. MaxGrant
  BY <1>5, SizeAssumption
<1>7. MaxGrant \in Nat /\ MaxGrant <= MaxInt
  BY SizeAssumption, HalfAssumption DEF MaxInt
<1>8. IsFiniteSet(DOMAIN grants)
  BY <1>6, FS_Interval
<1>9. Open(grants) /\ Fitting(grants) /\ \A i \in DOMAIN grants : grants[i] \in Nat
  <2>1. \A i \in DOMAIN grants : grants[i] \in Nat /\ grants[i] <= MaxGrant
    BY <1>6, <1>7
  <2>2. MaxInt \in Int
    BY HalfAssumption DEF MaxInt
  <2>3. \A i \in DOMAIN grants : grants[i] <= MaxInt
    BY <1>7, <2>1, <2>2
  <2>4. DOMAIN grants \in SUBSET (Nat \ {0})
    BY <1>6
  <2>5. QED
    BY <1>8, <2>1, <2>3, <2>4 DEF Open, Fitting
<1>10. QED
  BY <1>1, <1>4, <1>9

\* A plan of the run without gaps is a chain.
LEMMA PlanChain ==
  ASSUME Inv, Contiguous(tiers)
  PROVE  Chain(tiers, Len(tiers))
<1> DEFINE n == Len(tiers)
<1>1. tiers \in Seq(Tier)
  BY InputTyped
<1>2. n \in Nat /\ DOMAIN tiers = 1 .. n /\ \A i \in 1 .. n : tiers[i] \in Tier
  BY <1>1, LenProperties
<1>3. \A t \in Tier : /\ t.from \in Nat /\ t.price \in Nat
                      /\ t.to = NoLimit \/ (t.to \in Nat /\ t.from < t.to)
  BY SizeAssumption DEF Tier
<1>4. n \in Nat \ {0} /\ tiers[1].from = 0 /\ tiers[n].to = NoLimit
  BY <1>2 DEF Contiguous
<1>5. ASSUME NEW i \in 1 .. n, i < n
      PROVE  /\ tiers[i].to \in Nat /\ tiers[i].from < tiers[i].to
             /\ tiers[i].to = tiers[i + 1].from
  <2>1. i \in 1 .. n - 1 /\ i + 1 \in 1 .. n
    BY <1>2, <1>5
  <2>2. tiers[i].to = tiers[i + 1].from
    BY <2>1 DEF Contiguous
  <2>3. tiers[i + 1].from \in Nat
    BY <1>2, <1>3, <2>1
  <2>4. tiers[i].to # NoLimit
    BY <2>2, <2>3 DEF NoLimit
  <2>5. QED
    BY <1>2, <1>3, <2>2, <2>4
<1>6. \A i \in 1 .. n : tiers[i].from \in Nat /\ tiers[i].price \in Nat
  BY <1>2, <1>3
<1>7. QED
  BY <1>2, <1>4, <1>5, <1>6 DEF Chain

\* The one step leaves the bill of its inputs.
LEMMA InvHolds == Spec => []Inv
<1>1. Init => Inv
  BY DEF Init, Inv
<1>2. Inv /\ [Next]_vars => Inv'
  BY DEF Inv, Next, Price, vars
<1>3. QED
  BY <1>1, <1>2, PTL DEF Spec
-----------------------------------------------------------------------------
(* The properties *)

\* Under a plan without gaps the bill charges every unit once, at the price of
\* the tier it falls in (PriceUnits), up to the width of an integer.
THEOREM TiersCharge == Spec => []TierSumIsUnitSum
<1>1. ASSUME Inv
      PROVE  TierSumIsUnitSum
  <2> SUFFICES ASSUME Billed, Contiguous(tiers)
               PROVE  bill.subtotal =
                         Wrap(SumOver([u \in 1 .. units |-> UnitPrice(u)], 1 .. units))
    BY DEF TierSumIsUnitSum
  <2> DEFINE n == Len(tiers)
             B == BilledTiers(units, tiers)
             cost == [i \in B |-> Quantity(units, tiers[i]) * tiers[i].price]
             h == [u \in 1 .. units |-> UnitPrice(u)]
  <2>1. Chain(tiers, n) /\ units \in Nat /\ tiers \in Tiers
    BY <1>1, InputTyped, PlanChain
  <2>2. bill.subtotal = SumAmounts(PriceUnits(units, tiers))
    BY <1>1 DEF Inv, Billed, Bill
  <2>3. \A u \in 1 .. units : h[u] = PriceOf(tiers, u)
    BY DEF UnitPrice, PriceOf, FallsIn
  <2>4. \A i \in B : cost[i] = Quantity(units, tiers[i]) * tiers[i].price
    OBVIOUS
  <2> HIDE DEF cost, h, n
  <2>5. SumAmounts(PriceUnits(units, tiers)) = Wrap(SumOver(cost, B))
    BY <2>1, <2>4, TierAmounts
  <2>6. SumOver(cost, B) = SumOver(Costs(tiers, n, units), 1 .. n)
    BY <2>1, <2>4, BilledCost
  <2>7. SumOver(Costs(tiers, n, units), 1 .. n) = SumOver(h, 1 .. units)
    BY <2>1, <2>3, CostByUnit
  <2>8. bill.subtotal = Wrap(SumOver(h, 1 .. units))
    BY <2>2, <2>5, <2>6, <2>7
  <2>9. QED
    BY <2>8 DEF h
<1>2. QED
  BY <1>1, InvHolds, PTL

\* The credits applied to a subtotal that fits are the smaller of the subtotal
\* and of what the grants have (ApplyCredits).
THEOREM CreditsCover == Spec => []CreditsCoverWhatTheyCan
<1>1. ASSUME Inv
      PROVE  CreditsCoverWhatTheyCan
  <2> SUFFICES ASSUME Billed, bill.subtotal >= 0
               PROVE  bill.credit = Smaller(Available, bill.subtotal)
    BY DEF CreditsCoverWhatTheyCan
  <2> DEFINE b == Bill(units, tiers, grants)
  <2>1. bill = b /\ b.subtotal >= 0
    BY <1>1 DEF Inv, Billed
  <2>2. b.subtotal \in 0 .. MaxInt
        /\ b.credit = SumOver(Takes(b.subtotal, grants), DOMAIN grants)
    BY <1>1, <2>1, InputTyped, BillFits
  <2> DEFINE s == b.subtotal
  <2> HIDE DEF b
  <2>3. s \in Nat
    BY <2>2
  <2> HIDE DEF s
  <2>4. SumOver(Takes(s, grants), DOMAIN grants) = Smaller(SumOver(grants, DOMAIN grants), s)
    BY <1>1, <2>3, InputTyped, TakenIsSmaller
  <2>5. QED
    BY <2>1, <2>2, <2>4 DEF s, Available
<1>2. QED
  BY <1>1, InvHolds, PTL

\* What a grant loses is what the bill takes in credit, and no grant is touched
\* while an older one has something left (ApplyCredits' loop, oldest first).
THEOREM OldestFirstTaken == Spec => []OldestGrantFirst
<1>1. ASSUME Inv
      PROVE  OldestGrantFirst
  <2> SUFFICES ASSUME Billed, bill.subtotal >= 0
               PROVE  /\ \A i \in DOMAIN grants : bill.left[i] \in 0 .. grants[i]
                      /\ \A i, j \in DOMAIN grants :
                            i < j /\ bill.left[j] < grants[j] => bill.left[i] = 0
                      /\ bill.credit = Available - SumOver(bill.left, DOMAIN grants)
    BY DEF OldestGrantFirst
  <2> DEFINE s == bill.subtotal
             left == bill.left
             take == Takes(s, grants)
             D == DOMAIN grants
  <2>1. bill = Bill(units, tiers, grants)
    BY <1>1 DEF Inv, Billed
  <2>2. /\ units \in Nat /\ tiers \in Tiers /\ Open(grants) /\ Fitting(grants)
        /\ Bill(units, tiers, grants).subtotal >= 0
    BY <1>1, <2>1, InputTyped
  <2>3. /\ s \in 0 .. MaxInt
        /\ bill.credit = SumOver(take, D)
        /\ \A i \in D : left[i] = grants[i] - Take(s, grants, i) /\ left[i] \in 0 .. grants[i]
    <3>1. LET b == Bill(units, tiers, grants)
          IN  /\ b.subtotal \in 0 .. MaxInt
              /\ b.credit = SumOver(Takes(b.subtotal, grants), DOMAIN grants)
              /\ \A i \in DOMAIN grants : /\ b.left[i] = grants[i] - Take(b.subtotal, grants, i)
                                          /\ b.left[i] \in 0 .. grants[i]
      BY <2>2, BillFits
    <3>2. QED
      BY <2>1, <3>1
  <2>4. s \in Nat
    BY <2>3
  <2> HIDE DEF s
  <2>5. \A i \in D : take[i] = Take(s, grants, i) /\ take[i] \in 0 .. grants[i] /\ grants[i] \in Nat
    BY <2>2, <2>4, TakeNat DEF Takes, Open
  <2>6. ASSUME NEW i \in D, NEW j \in D, i < j, left[j] < grants[j]
        PROVE  left[i] = 0
    <3>1. Take(s, grants, j) # 0
      BY <2>3, <2>5, <2>6
    <3>2. Take(s, grants, i) = grants[i]
      BY <2>2, <2>4, <2>6, <3>1, OldestFirst
    <3>3. QED
      BY <2>3, <2>5, <3>2
  <2>7. SumOver(grants, D) = SumOver(left, D) + SumOver(take, D)
    <3>1. \A i \in D : /\ left[i] \in Int /\ take[i] \in Int
                       /\ grants[i] = left[i] + take[i]
      BY <2>3, <2>5
    <3>2. IsFiniteSet(D)
      BY <2>2 DEF Open
    <3> HIDE DEF left, take, D
    <3>3. QED
      BY <3>1, <3>2, SumPlus
  <2>8. SumOver(left, D) \in Int /\ SumOver(take, D) \in Int
    <3>1. \A i \in D : left[i] \in Int /\ take[i] \in Int
      BY <2>3, <2>5
    <3>2. IsFiniteSet(D)
      BY <2>2 DEF Open
    <3> HIDE DEF left, take, D
    <3>3. QED
      BY <3>1, <3>2, SumType
  <2>9. bill.credit = Available - SumOver(left, D)
    <3>1. Available = SumOver(grants, D)
      BY DEF Available
    <3> HIDE DEF left, take, D
    <3>2. QED
      BY <2>3, <2>7, <2>8, <3>1
  <2>10. QED
    BY <2>3, <2>6, <2>9
<1>2. QED
  BY <1>1, InvHolds, PTL

\* The lines of a bill add up to its total and are numbered without a gap, and
\* the CHECKs of the schema refuse it only when its subtotal wrapped below zero
\* (issueOne, PriceUnits, ApplyCredits).
THEOREM LinesAddToTotal == Spec => []LinesAddUp
<1>1. ASSUME Inv
      PROVE  LinesAddUp
  <2> SUFFICES ASSUME Billed
               PROVE  /\ SumAmounts(bill.lines) = bill.total
                      /\ Storable(bill) = (bill.subtotal >= 0)
                      /\ {l.position : l \in bill.lines} = 1 .. Cardinality(bill.lines)
    BY DEF LinesAddUp
  <2>1. bill = Bill(units, tiers, grants)
    BY <1>1 DEF Inv, Billed
  <2>2. units \in Nat /\ tiers \in Tiers /\ Open(grants) /\ Fitting(grants)
    BY <1>1, InputTyped
  <2>3. /\ SumAmounts(bill.lines) = bill.total
        /\ {l.position : l \in bill.lines} = 1 .. Cardinality(bill.lines)
    BY <2>1, <2>2, BillAddsUp
  <2>4. ASSUME bill.subtotal >= 0
        PROVE  Storable(bill)
    <3>1. LET b == Bill(units, tiers, grants)
          IN  /\ b.subtotal \in 0 .. MaxInt
              /\ b.credit \in 0 .. b.subtotal
              /\ b.total = b.subtotal - b.credit
              /\ DOMAIN b.left = DOMAIN grants
              /\ \A i \in DOMAIN grants : b.left[i] \in 0 .. grants[i]
      BY <2>1, <2>2, <2>4, BillFits
    <3>2. /\ bill.subtotal \in 0 .. MaxInt
          /\ bill.credit \in 0 .. bill.subtotal
          /\ bill.total = bill.subtotal - bill.credit
          /\ DOMAIN bill.left = DOMAIN grants
          /\ \A i \in DOMAIN grants : bill.left[i] \in 0 .. grants[i]
      BY <2>1, <3>1
    <3>3. bill.subtotal >= 0 /\ bill.credit >= 0 /\ bill.total >= 0
      BY <3>2
    <3>4. \A i \in DOMAIN bill.left : bill.left[i] >= 0
      BY <2>2, <3>2 DEF Open
    <3>5. QED
      BY <3>3, <3>4 DEF Storable
  <2>5. Storable(bill) => bill.subtotal >= 0
    BY DEF Storable
  <2>6. Storable(bill) \in BOOLEAN /\ (bill.subtotal >= 0) \in BOOLEAN
    BY DEF Storable
  <2>7. Storable(bill) = (bill.subtotal >= 0)
    BY <2>4, <2>5, <2>6
  <2>8. QED
    BY <2>3, <2>7
<1>2. QED
  BY <1>1, InvHolds, PTL
==============================================================================
