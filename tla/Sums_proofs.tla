----------------------------- MODULE Sums_proofs -----------------------------
(***************************************************************************)
(* What a sum over a finite set is worth, proved from its recursive        *)
(* definition.  Induction runs over the subsets of the set: among those    *)
(* for which a claim fails there would be a smallest one (SmallestSubset). *)
(***************************************************************************)
EXTENDS Sums, FiniteSetTheorems, WellFoundedInduction, TLAPS

\* A set of subsets of a finite set has a smallest member.
LEMMA SmallestSubset ==
  ASSUME NEW S, IsFiniteSet(S), NEW T, T \subseteq SUBSET S, T # {}
  PROVE  \E s \in T : \A t \in T : t \subseteq s => t = s
<1>1. FiniteSubsetsOf(S) = SUBSET S
  BY FS_FiniteSubsetsOfFinite
<1>2. IsWellFoundedOn(StrictSubsetOrdering(S), SUBSET S)
  BY <1>1, FS_StrictSubsetOrderingWellFounded
<1>3. PICK s \in T : \A t \in T : ~ (<<t, s>> \in StrictSubsetOrdering(S))
  BY <1>2, WFMin
<1>4. ASSUME NEW t \in T, t \subseteq s
      PROVE  t = s
  BY <1>3, <1>4 DEF StrictSubsetOrdering
<1>5. QED
  BY <1>4

\* The element a fold takes next.
Pick(s) == CHOOSE x \in s : TRUE

\* g adds up f over every subset of S, by the equation of the fold.
Adds(g, f, S) == g = [s \in SUBSET S |->
                        IF s = {} THEN 0 ELSE f[Pick(s)] + g[s \ {Pick(s)}]]

\* The fold's own definition.
LEMMA SumIsSum ==
  ASSUME NEW f, NEW S
  PROVE  SumOver(f, S) = (CHOOSE g : Adds(g, f, S))[S]
BY DEF SumOver, MapThenSumSet, MapThenFoldSet, Adds, Pick

\* The element it takes is one of the set.
LEMMA PickIn == \A s : s # {} => Pick(s) \in s
BY DEF Pick

\* There is one such function, on whatever sets two of them share.
LEMMA AddsAgree ==
  ASSUME NEW f, NEW S, IsFiniteSet(S), NEW g, Adds(g, f, S),
         NEW R, R \subseteq S, NEW h, Adds(h, f, R)
  PROVE  \A s \in SUBSET R : g[s] = h[s]
<1> DEFINE T == {s \in SUBSET R : g[s] # h[s]}
<1>1. SUFFICES ASSUME T # {} PROVE FALSE
  OBVIOUS
<1>2. T \subseteq SUBSET S
  OBVIOUS
<1>3. PICK s \in T : \A t \in T : t \subseteq s => t = s
  <2> HIDE DEF T
  <2> QED BY <1>1, <1>2, SmallestSubset
<1>4. /\ g[s] = IF s = {} THEN 0 ELSE f[Pick(s)] + g[s \ {Pick(s)}]
      /\ h[s] = IF s = {} THEN 0 ELSE f[Pick(s)] + h[s \ {Pick(s)}]
  BY <1>2, <1>3 DEF Adds
<1>5. s # {}
  BY <1>3, <1>4
<1>6. s \ {Pick(s)} \subseteq s /\ s \ {Pick(s)} # s
  BY <1>5, PickIn
<1>7. g[s \ {Pick(s)}] = h[s \ {Pick(s)}]
  BY <1>3, <1>6
<1>8. QED
  BY <1>3, <1>4, <1>7

\* There is one: on a smallest set without one, the sums of its proper subsets
\* make one.
LEMMA AddsExists ==
  ASSUME NEW f, NEW S, IsFiniteSet(S)
  PROVE  \E g : Adds(g, f, S)
<1> DEFINE T == {s \in SUBSET S : ~ \E g : Adds(g, f, s)}
<1>1. SUFFICES ASSUME T # {} PROVE FALSE
  OBVIOUS
<1>2. PICK s \in T : \A t \in T : t \subseteq s => t = s
  <2>1. T \subseteq SUBSET S
    OBVIOUS
  <2> HIDE DEF T
  <2>2. QED
    BY <1>1, <2>1, SmallestSubset
<1> DEFINE Rest(t) == t \ {Pick(t)}
           g == [t \in SUBSET s |-> IF t = {} THEN 0 ELSE f[Pick(t)] + SumOver(f, Rest(t))]
<1>3. ASSUME NEW u \in SUBSET s, u # s
      PROVE  g[u] = SumOver(f, u)
  <2>1. IsFiniteSet(u)
    BY FS_Subset
  <2> DEFINE h == CHOOSE h : Adds(h, f, u)
  <2>2. Adds(h, f, u)
    BY <1>2, <1>3
  <2>3. h[u] = IF u = {} THEN 0 ELSE f[Pick(u)] + h[Rest(u)]
    BY <2>2 DEF Adds
  <2>4. SumOver(f, u) = h[u]
    BY SumIsSum
  <2>5. CASE u = {}
    BY <2>3, <2>4, <2>5
  <2>6. CASE u # {}
    <3>1. Rest(u) \subseteq u /\ Rest(u) # s
      BY <1>3, <2>6, PickIn
    <3> DEFINE k == CHOOSE k : Adds(k, f, Rest(u))
    <3>2. Adds(k, f, Rest(u))
      BY <1>2, <1>3, <3>1
    <3>3. SumOver(f, Rest(u)) = k[Rest(u)]
      BY SumIsSum
    <3>4. h[Rest(u)] = k[Rest(u)]
      <4> HIDE DEF h, k, Rest, T, g
      <4>1. QED
        BY <2>1, <2>2, <3>1, <3>2, AddsAgree
    <3>5. QED
      BY <2>3, <2>4, <2>6, <3>3, <3>4
  <2>7. QED
    BY <2>5, <2>6
<1>4. ASSUME NEW t \in SUBSET s
      PROVE  g[t] = IF t = {} THEN 0 ELSE f[Pick(t)] + g[Rest(t)]
  <2>1. CASE t = {}
    BY <2>1
  <2>2. CASE t # {}
    <3>1. Rest(t) \in SUBSET s /\ Rest(t) # s
      BY <2>2, PickIn
    <3>2. g[Rest(t)] = SumOver(f, Rest(t))
      BY <1>3, <3>1
    <3>3. QED
      BY <2>2, <3>2
  <2>3. QED
    BY <2>1, <2>2
<1>5. Adds(g, f, s)
  BY <1>4 DEF Adds
<1>6. QED
  BY <1>2, <1>5

\* Nothing adds up to 0.
LEMMA SumEmpty == ASSUME NEW f PROVE SumOver(f, {}) = 0
<1>1. Adds(CHOOSE g : Adds(g, f, {}), f, {})
  BY AddsExists, FS_EmptySet
<1>2. QED
  BY <1>1, SumIsSum DEF Adds

\* The equation of the fold holds of sums.
LEMMA SumPick ==
  ASSUME NEW f, NEW S, IsFiniteSet(S), S # {}
  PROVE  SumOver(f, S) = f[Pick(S)] + SumOver(f, S \ {Pick(S)})
<1> DEFINE R == S \ {Pick(S)}
           g == CHOOSE g : Adds(g, f, S)
           h == CHOOSE h : Adds(h, f, R)
<1>1. Adds(g, f, S) /\ SumOver(f, S) = g[S]
  BY AddsExists, SumIsSum
<1>2. IsFiniteSet(R) /\ R \subseteq S
  BY FS_Subset
<1>3. Adds(h, f, R) /\ SumOver(f, R) = h[R]
  BY <1>2, AddsExists, SumIsSum
<1>4. g[R] = h[R]
  <2> HIDE DEF g, h
  <2>1. QED
    BY <1>1, <1>2, <1>3, AddsAgree
<1>5. g[S] = f[Pick(S)] + g[R]
  BY <1>1 DEF Adds
<1>6. QED
  BY <1>1, <1>3, <1>4, <1>5

\* Integers add up to an integer.
LEMMA SumType ==
  ASSUME NEW f, NEW S, IsFiniteSet(S), \A x \in S : f[x] \in Int
  PROVE  SumOver(f, S) \in Int
<1> DEFINE T == {s \in SUBSET S : SumOver(f, s) \notin Int}
<1>1. SUFFICES ASSUME T # {} PROVE FALSE
  OBVIOUS
<1>2. PICK s \in T : \A t \in T : t \subseteq s => t = s
  <2>1. T \subseteq SUBSET S
    OBVIOUS
  <2> HIDE DEF T
  <2>2. QED
    BY <1>1, <2>1, SmallestSubset
<1>3. CASE s = {}
  BY <1>2, <1>3, SumEmpty
<1>4. CASE s # {}
  <2>1. Pick(s) \in s /\ IsFiniteSet(s)
    BY <1>4, PickIn, FS_Subset
  <2>2. SumOver(f, s \ {Pick(s)}) \in Int
    BY <1>2, <2>1
  <2>3. QED
    BY <1>2, <1>4, <2>1, <2>2, SumPick
<1>5. QED
  BY <1>3, <1>4

\* Any element may be taken first: the order of the fold does not matter.
LEMMA SumRemove ==
  ASSUME NEW f, NEW S, IsFiniteSet(S), \A y \in S : f[y] \in Int, NEW x \in S
  PROVE  SumOver(f, S) = f[x] + SumOver(f, S \ {x})
<1> DEFINE T == {s \in SUBSET S :
                   \E y \in s : SumOver(f, s) # f[y] + SumOver(f, s \ {y})}
<1>1. SUFFICES ASSUME T # {} PROVE FALSE
  OBVIOUS
<1>2. PICK s \in T : \A t \in T : t \subseteq s => t = s
  <2>1. T \subseteq SUBSET S
    OBVIOUS
  <2> HIDE DEF T
  <2>2. QED
    BY <1>1, <2>1, SmallestSubset
<1>3. PICK y \in s : SumOver(f, s) # f[y] + SumOver(f, s \ {y})
  BY <1>2
<1> DEFINE z == Pick(s)
           r == s \ {y, z}
<1>4. z \in s /\ s \subseteq S /\ IsFiniteSet(s) /\ IsFiniteSet(r)
  BY <1>2, <1>3, PickIn, FS_Subset
<1>5. SumOver(f, s) = f[z] + SumOver(f, s \ {z})
  BY <1>3, <1>4, SumPick
<1>6. y # z
  BY <1>3, <1>5
<1>7. s \ {z} \notin T /\ s \ {y} \notin T
  BY <1>2, <1>3, <1>4
<1>8. (s \ {z}) \ {y} = r /\ (s \ {y}) \ {z} = r
  OBVIOUS
<1>9. SumOver(f, s \ {z}) = f[y] + SumOver(f, r)
  BY <1>3, <1>4, <1>6, <1>7, <1>8
<1>10. SumOver(f, s \ {y}) = f[z] + SumOver(f, r)
  BY <1>3, <1>4, <1>6, <1>7, <1>8
<1>11. f[y] \in Int /\ f[z] \in Int /\ SumOver(f, r) \in Int
  BY <1>3, <1>4, SumType
<1>12. QED
  <2> HIDE DEF z, r, T
  <2> QED BY <1>3, <1>5, <1>9, <1>10, <1>11

\* A sum depends on the values it adds up only.
LEMMA SumSame ==
  ASSUME NEW f, NEW g, NEW S, IsFiniteSet(S), \A x \in S : f[x] = g[x]
  PROVE  SumOver(f, S) = SumOver(g, S)
<1> DEFINE T == {s \in SUBSET S : SumOver(f, s) # SumOver(g, s)}
<1>1. SUFFICES ASSUME T # {} PROVE FALSE
  OBVIOUS
<1>2. PICK s \in T : \A t \in T : t \subseteq s => t = s
  <2>1. T \subseteq SUBSET S
    OBVIOUS
  <2> HIDE DEF T
  <2>2. QED
    BY <1>1, <2>1, SmallestSubset
<1>3. s # {}
  BY <1>2, SumEmpty
<1>4. Pick(s) \in s /\ IsFiniteSet(s)
  BY <1>2, <1>3, PickIn, FS_Subset
<1>5. SumOver(f, s \ {Pick(s)}) = SumOver(g, s \ {Pick(s)})
  BY <1>2, <1>4
<1>6. QED
  BY <1>2, <1>3, <1>4, <1>5, SumPick

\* Larger values give a larger sum.
LEMMA SumMonotone ==
  ASSUME NEW f, NEW g, NEW S, IsFiniteSet(S),
         \A x \in S : f[x] \in Int /\ g[x] \in Int /\ f[x] <= g[x]
  PROVE  SumOver(f, S) <= SumOver(g, S)
<1> DEFINE T == {s \in SUBSET S : ~ (SumOver(f, s) <= SumOver(g, s))}
<1>1. SUFFICES ASSUME T # {} PROVE FALSE
  OBVIOUS
<1>2. PICK s \in T : \A t \in T : t \subseteq s => t = s
  <2>1. T \subseteq SUBSET S
    OBVIOUS
  <2> HIDE DEF T
  <2>2. QED
    BY <1>1, <2>1, SmallestSubset
<1>3. s # {}
  <2>1. SumOver(f, {}) = 0 /\ SumOver(g, {}) = 0
    BY SumEmpty
  <2>2. SumOver(f, {}) <= SumOver(g, {})
    BY <2>1
  <2>3. QED
    BY <1>2, <2>2
<1> DEFINE x == Pick(s)
           r == s \ {x}
<1>4. x \in s /\ s \subseteq S /\ IsFiniteSet(s) /\ IsFiniteSet(r)
  BY <1>2, <1>3, PickIn, FS_Subset
<1>5. SumOver(f, r) <= SumOver(g, r)
  BY <1>2, <1>4
<1>6. /\ SumOver(f, s) = f[x] + SumOver(f, r)
      /\ SumOver(g, s) = g[x] + SumOver(g, r)
  BY <1>3, <1>4, SumPick
<1>7. /\ SumOver(f, r) \in Int /\ SumOver(g, r) \in Int
      /\ f[x] \in Int /\ g[x] \in Int /\ f[x] <= g[x]
  BY <1>4, SumType
<1>8. ~ (SumOver(f, s) <= SumOver(g, s))
  BY <1>2
<1>9. QED
  <2> HIDE DEF x, r, T
  <2> QED BY <1>5, <1>6, <1>7, <1>8

\* Naturals add up to a natural.
LEMMA SumNat ==
  ASSUME NEW f, NEW S, IsFiniteSet(S), \A x \in S : f[x] \in Nat
  PROVE  SumOver(f, S) \in Nat
<1> DEFINE T == {s \in SUBSET S : SumOver(f, s) \notin Nat}
<1>1. SUFFICES ASSUME T # {} PROVE FALSE
  OBVIOUS
<1>2. PICK s \in T : \A t \in T : t \subseteq s => t = s
  <2>1. T \subseteq SUBSET S
    OBVIOUS
  <2> HIDE DEF T
  <2>2. QED
    BY <1>1, <2>1, SmallestSubset
<1>3. CASE s = {}
  BY <1>2, <1>3, SumEmpty
<1>4. CASE s # {}
  <2>1. Pick(s) \in s /\ IsFiniteSet(s)
    BY <1>4, PickIn, FS_Subset
  <2>2. SumOver(f, s \ {Pick(s)}) \in Nat
    BY <1>2, <2>1
  <2>3. QED
    BY <1>2, <1>4, <2>1, <2>2, SumPick
<1>5. QED
  BY <1>3, <1>4

\* What one element's change makes of a sum.
LEMMA SumChange ==
  ASSUME NEW f, NEW g, NEW S, IsFiniteSet(S), NEW x \in S,
         \A y \in S : f[y] \in Int /\ g[y] \in Int,
         \A y \in S \ {x} : f[y] = g[y]
  PROVE  SumOver(g, S) = SumOver(f, S) + g[x] - f[x]
<1> DEFINE r == S \ {x}
<1>1. IsFiniteSet(r)
  BY FS_Subset
<1>2. SumOver(f, r) = SumOver(g, r) /\ SumOver(f, r) \in Int
  BY <1>1, SumSame, SumType
<1>3. SumOver(f, S) = f[x] + SumOver(f, r) /\ SumOver(g, S) = g[x] + SumOver(g, r)
  BY SumRemove
<1>4. QED
  BY <1>2, <1>3

\* A sum of what is not positive is not positive.
LEMMA SumNegative ==
  ASSUME NEW f, NEW S, IsFiniteSet(S), \A x \in S : f[x] \in Int /\ f[x] <= 0
  PROVE  SumOver(f, S) \in Int /\ SumOver(f, S) <= 0
<1> DEFINE T == {s \in SUBSET S : ~ (SumOver(f, s) <= 0)}
<1>1. SumOver(f, S) \in Int
  BY SumType
<1>2. SUFFICES ASSUME T # {} PROVE FALSE
  BY <1>1
<1>3. PICK s \in T : \A t \in T : t \subseteq s => t = s
  <2>1. T \subseteq SUBSET S
    OBVIOUS
  <2> HIDE DEF T
  <2>2. QED
    BY <1>2, <2>1, SmallestSubset
<1>4. s # {}
  <2>1. SumOver(f, {}) = 0
    BY SumEmpty
  <2>2. SumOver(f, {}) <= 0
    BY <2>1
  <2>3. QED
    BY <1>3, <2>2
<1> DEFINE r == s \ {Pick(s)}
<1>5. Pick(s) \in s /\ s \subseteq S /\ IsFiniteSet(s) /\ IsFiniteSet(r)
  BY <1>3, <1>4, PickIn, FS_Subset
<1>6. SumOver(f, s) = f[Pick(s)] + SumOver(f, r)
  BY <1>4, <1>5, SumPick
<1>7. SumOver(f, r) <= 0 /\ SumOver(f, r) \in Int
  BY <1>3, <1>5, SumType
<1>8. f[Pick(s)] \in Int /\ f[Pick(s)] <= 0 /\ ~ (SumOver(f, s) <= 0)
  BY <1>3, <1>5
<1>9. QED
  <2> HIDE DEF r, T
  <2> QED BY <1>6, <1>7, <1>8

\* Zeros add up to zero.
LEMMA SumZero ==
  ASSUME NEW f, NEW S, IsFiniteSet(S), \A x \in S : f[x] = 0
  PROVE  SumOver(f, S) = 0
<1>1. \A x \in S : f[x] \in Nat /\ f[x] \in Int /\ f[x] <= 0
  OBVIOUS
<1>2. SumOver(f, S) \in Nat
  BY <1>1, SumNat
<1>3. SumOver(f, S) <= 0
  BY <1>1, SumNegative
<1>4. QED
  BY <1>2, <1>3

\* A sum over two sets that share nothing.
LEMMA SumUnion ==
  ASSUME NEW f, NEW S, IsFiniteSet(S), NEW R, IsFiniteSet(R), S \cap R = {},
         \A x \in S \cup R : f[x] \in Int
  PROVE  SumOver(f, S \cup R) = SumOver(f, S) + SumOver(f, R)
<1> DEFINE T == {s \in SUBSET S :
                   ~ (SumOver(f, s \cup R) = SumOver(f, s) + SumOver(f, R))}
<1>1. SUFFICES ASSUME T # {} PROVE FALSE
  OBVIOUS
<1>2. PICK s \in T : \A t \in T : t \subseteq s => t = s
  <2>1. T \subseteq SUBSET S
    OBVIOUS
  <2> HIDE DEF T
  <2>2. QED
    BY <1>1, <2>1, SmallestSubset
<1>3. SumOver(f, R) \in Int
  BY SumType
<1>4. ASSUME s = {}
      PROVE  FALSE
  <2>1. SumOver(f, s \cup R) = SumOver(f, R)
    <3>1. s \cup R = R
      BY <1>4
    <3>2. QED
      BY <3>1
  <2>2. SumOver(f, s) = 0
    BY <1>4, SumEmpty
  <2>3. SumOver(f, s \cup R) # SumOver(f, s) + SumOver(f, R)
    BY <1>2
  <2>4. QED
    <3> HIDE DEF T
    <3> QED BY <1>3, <2>1, <2>2, <2>3
<1>5. ASSUME NEW x \in s
      PROVE  FALSE
  <2> DEFINE r == s \ {x}
  <2>1. /\ IsFiniteSet(s) /\ IsFiniteSet(r) /\ IsFiniteSet(s \cup R) /\ s \subseteq S
        /\ IsFiniteSet(r \cup R)
    BY <1>2, FS_Subset, FS_Union
  <2>2. (s \cup R) \ {x} = r \cup R
    BY <1>5, <2>1
  <2>3. SumOver(f, s \cup R) = f[x] + SumOver(f, r \cup R)
    <3>1. \A y \in s \cup R : f[y] \in Int
      BY <2>1
    <3>2. SumOver(f, s \cup R) = f[x] + SumOver(f, (s \cup R) \ {x})
      BY <1>5, <2>1, <3>1, SumRemove
    <3>3. QED
      BY <2>2, <3>2
  <2>4. SumOver(f, s) = f[x] + SumOver(f, r)
    BY <1>5, <2>1, SumRemove
  <2>5. SumOver(f, r \cup R) = SumOver(f, r) + SumOver(f, R)
    BY <1>2, <1>5, <2>1
  <2>6. /\ SumOver(f, r) \in Int /\ f[x] \in Int
    BY <1>5, <2>1, SumType
  <2>7. SumOver(f, s \cup R) # SumOver(f, s) + SumOver(f, R)
    BY <1>2
  <2>8. QED
    <3> HIDE DEF r, T
    <3> QED BY <1>3, <2>3, <2>4, <2>5, <2>6, <2>7
<1>6. QED
  BY <1>4, <1>5
\* The sum of sums.
LEMMA SumPlus ==
  ASSUME NEW f, NEW g, NEW S, IsFiniteSet(S), \A x \in S : f[x] \in Int /\ g[x] \in Int,
         NEW h, \A x \in S : h[x] = f[x] + g[x]
  PROVE  SumOver(h, S) = SumOver(f, S) + SumOver(g, S)
<1> DEFINE T == {s \in SUBSET S : ~ (SumOver(h, s) = SumOver(f, s) + SumOver(g, s))}
<1>1. SUFFICES ASSUME T # {} PROVE FALSE
  OBVIOUS
<1>2. PICK s \in T : \A t \in T : t \subseteq s => t = s
  <2>1. T \subseteq SUBSET S
    OBVIOUS
  <2> HIDE DEF T
  <2>2. QED
    BY <1>1, <2>1, SmallestSubset
<1>3. CASE s = {}
  <2>1. SumOver(h, s) = 0 /\ SumOver(f, s) = 0 /\ SumOver(g, s) = 0
    BY <1>3, SumEmpty
  <2>2. QED
    BY <1>2, <2>1
<1>4. CASE s # {}
  <2>1. PICK x \in s : TRUE
    BY <1>4
  <2> DEFINE r == s \ {x}
  <2>2. r \notin T /\ r \in SUBSET S /\ IsFiniteSet(s) /\ IsFiniteSet(r)
    BY <1>2, <2>1, FS_Subset
  <2>3. SumOver(h, r) = SumOver(f, r) + SumOver(g, r)
    BY <2>2
  <2>4. \A y \in s : f[y] \in Int /\ g[y] \in Int /\ h[y] \in Int
    BY <1>2
  <2> HIDE DEF T
  <2>5. /\ SumOver(h, s) = h[x] + SumOver(h, r)
        /\ SumOver(f, s) = f[x] + SumOver(f, r)
        /\ SumOver(g, s) = g[x] + SumOver(g, r)
    BY <2>1, <2>2, <2>4, SumRemove
  <2>6. SumOver(f, r) \in Int /\ SumOver(g, r) \in Int
    BY <2>2, <2>4, SumType
  <2>7. h[x] = f[x] + g[x] /\ f[x] \in Int /\ g[x] \in Int
    BY <1>2, <2>1, <2>4 DEF T
  <2> HIDE DEF r
  <2>8. SumOver(h, s) = SumOver(f, s) + SumOver(g, s)
    BY <2>3, <2>5, <2>6, <2>7
  <2>9. QED
    BY <1>2, <2>8 DEF T
<1>5. QED
  BY <1>3, <1>4

\* A sum in which the members of a subset changed by d.
LEMMA SumShift ==
  ASSUME NEW f, NEW S, IsFiniteSet(S), NEW R, R \subseteq S,
         NEW d, \A x \in S : f[x] \in Int, \A x \in R : d[x] \in Int,
         NEW h, \A x \in R : h[x] = f[x] + d[x], \A x \in S \ R : h[x] = f[x]
  PROVE  SumOver(h, S) = SumOver(f, S) + SumOver(d, R)
<1> DEFINE Q == S \ R
<1>1. IsFiniteSet(R) /\ IsFiniteSet(Q) /\ Q \cap R = {} /\ S = Q \cup R
  BY FS_Subset
<1>2. \A x \in Q \cup R : f[x] \in Int /\ h[x] \in Int
  BY <1>1
<1>3. \A x \in Q : h[x] = f[x]
  OBVIOUS
<1>4. \A x \in R : f[x] \in Int /\ d[x] \in Int
  BY <1>1
<1> HIDE DEF Q
<1>5. /\ SumOver(f, Q \cup R) = SumOver(f, Q) + SumOver(f, R)
      /\ SumOver(h, Q \cup R) = SumOver(h, Q) + SumOver(h, R)
  BY <1>1, <1>2, SumUnion
<1>6. SumOver(h, Q) = SumOver(f, Q)
  BY <1>1, <1>3, SumSame
<1>7. SumOver(h, R) = SumOver(f, R) + SumOver(d, R)
  BY <1>1, <1>4, SumPlus
<1>8. SumOver(f, Q) \in Int /\ SumOver(f, R) \in Int /\ SumOver(d, R) \in Int
  BY <1>1, <1>2, <1>4, SumType
<1>9. QED
  BY <1>1, <1>5, <1>6, <1>7, <1>8

-----------------------------------------------------------------------------
(* Sums as tokens *)

\* Finitely many rows with finitely many units each have finitely many tokens,
\* one for each unit.
LEMMA TokensFinite ==
  ASSUME NEW R, IsFiniteSet(R), \A r \in R : r.units \in Int
  PROVE  IsFiniteSet(UNION {{r} \X (1 .. r.units) : r \in R})
<1> DEFINE tokens(r) == {r} \X (1 .. r.units)
           T == {tokens(r) : r \in R}
           f == [r \in R |-> tokens(r)]
<1>1. f \in Surjection(R, T)
  BY DEF Surjection
<1>2. IsFiniteSet(T)
  <2> HIDE DEF T, f, tokens
  <2>1. QED
    BY <1>1, FS_Surjection
<1>3. ASSUME NEW r \in R
      PROVE  IsFiniteSet(tokens(r))
  <2>1. IsFiniteSet({r})
    BY FS_Singleton
  <2>2. IsFiniteSet(1 .. r.units)
    BY FS_Interval
  <2>3. QED
    BY <2>1, <2>2, FS_Product
<1>4. \A t \in T : IsFiniteSet(t)
  BY <1>3
<1> HIDE DEF T
<1>5. IsFiniteSet(UNION T)
  BY <1>2, <1>4, FS_UNION
<1>6. QED
  BY <1>5 DEF T
\* The rows r[i] of i in K are the rows of R.
Enumerates(r, K, R) == /\ \A i \in K : r[i] \in R
                       /\ \A y \in R : \E i \in K : y = r[i]

\* No two of them are the same.
OneToOne(r, K) == \A i, j \in K : r[i] = r[j] => i = j

\* The number f gives a row is the number g gives its index.
Carries(f, r, g, K) == \A i \in K : f[r[i]] \in Int /\ g[i] = f[r[i]]

\* A sum over the rows r[i] of i in K, no two of them the same row, is a sum over K.
LEMMA SumImage ==
  ASSUME NEW K, IsFiniteSet(K), NEW r, OneToOne(r, K), NEW R, Enumerates(r, K, R),
         NEW f, NEW g, Carries(f, r, g, K)
  PROVE  SumOver(f, R) = SumOver(g, K)
<1> DEFINE Rows(s) == {r[i] : i \in s}
           T == {s \in SUBSET K : SumOver(f, Rows(s)) # SumOver(g, s)}
<1>1. SUFFICES ASSUME T # {} PROVE FALSE
  <2>1. R = Rows(K)
    BY DEF Enumerates
  <2> HIDE DEF Rows
  <2>2. QED
    BY <2>1
<1>2. PICK s \in T : \A t \in T : t \subseteq s => t = s
  <2>1. T \subseteq SUBSET K
    OBVIOUS
  <2> HIDE DEF T
  <2>2. QED
    BY <1>1, <2>1, SmallestSubset
<1>3. ASSUME s = {}
      PROVE  FALSE
  <2>1. Rows(s) = {}
    BY <1>3
  <2>2. SumOver(f, {}) = 0 /\ SumOver(g, {}) = 0
    BY SumEmpty
  <2>3. QED
    BY <1>2, <1>3, <2>1, <2>2
<1>4. ASSUME NEW i \in s
      PROVE  FALSE
  <2> DEFINE t == s \ {i}
  <2>1. IsFiniteSet(s) /\ s \subseteq K /\ t \subseteq K
    BY <1>2, FS_Subset
  <2>2. IsFiniteSet(Rows(s))
    <3> DEFINE h == [j \in s |-> r[j]]
    <3>1. h \in Surjection(s, Rows(s))
      BY DEF Surjection
    <3> HIDE DEF h, Rows
    <3>2. QED
      BY <2>1, <3>1, FS_Surjection
  <2>3. \A row \in Rows(s) : f[row] \in Int
    BY <2>1 DEF Carries
  <2>4. r[i] \in Rows(s) /\ Rows(s) \ {r[i]} = Rows(t)
    BY <2>1, <1>4 DEF OneToOne
  <2>5. SumOver(f, Rows(s)) = f[r[i]] + SumOver(f, Rows(t))
    <3> HIDE DEF Rows
    <3>1. SumOver(f, Rows(s)) = f[r[i]] + SumOver(f, Rows(s) \ {r[i]})
      BY <2>2, <2>3, <2>4, SumRemove
    <3>2. QED
      BY <2>4, <3>1
  <2>6. SumOver(g, s) = g[i] + SumOver(g, t)
    <3>1. \A j \in s : g[j] \in Int
      BY <2>1 DEF Carries
    <3>2. QED
      BY <1>4, <2>1, <3>1, SumRemove
  <2>7. SumOver(f, Rows(t)) = SumOver(g, t)
    BY <1>2, <1>4, <2>1
  <2>8. SumOver(f, Rows(s)) # SumOver(g, s)
    BY <1>2
  <2>9. g[i] = f[r[i]]
    BY <1>4, <2>1 DEF Carries
  <2>10. QED
    <3> HIDE DEF Rows, T, t
    <3>1. QED
      BY <2>5, <2>6, <2>7, <2>8, <2>9
<1>5. QED
  BY <1>3, <1>4

\* On S, f and g differ by multiples of w.
ApartBy(w, f, g, d, S) ==
    \A x \in S : f[x] \in Int /\ g[x] \in Int /\ d[x] \in Int /\ f[x] = g[x] + d[x] * w

\* Then their sums differ by a multiple of w too.
LEMMA SumModulo ==
  ASSUME NEW S, IsFiniteSet(S), NEW f, NEW g, NEW d, NEW w \in Int, ApartBy(w, f, g, d, S)
  PROVE  \E k \in Int : SumOver(f, S) = SumOver(g, S) + k * w
<1> DEFINE Near(s) == \E k \in Int : SumOver(f, s) = SumOver(g, s) + k * w
           T == {s \in SUBSET S : ~ Near(s)}
<1>1. SUFFICES ASSUME T # {} PROVE FALSE
  OBVIOUS
<1>2. PICK s \in T : \A t \in T : t \subseteq s => t = s
  <2>1. T \subseteq SUBSET S
    OBVIOUS
  <2> HIDE DEF T
  <2>2. QED
    BY <1>1, <2>1, SmallestSubset
<1>3. ASSUME s = {}
      PROVE  FALSE
  <2>1. SumOver(f, {}) = SumOver(g, {}) + 0 * w
    BY SumEmpty
  <2>2. QED
    BY <1>2, <1>3, <2>1
<1>4. ASSUME NEW x \in s
      PROVE  FALSE
  <2> DEFINE t == s \ {x}
  <2>1. IsFiniteSet(s) /\ IsFiniteSet(t) /\ s \subseteq S /\ t \subseteq S
    BY <1>2, FS_Subset
  <2>2. PICK k \in Int : SumOver(f, t) = SumOver(g, t) + k * w
    <3>1. Near(t)
      <4> HIDE DEF Near
      <4>1. QED
        BY <1>2, <1>4, <2>1
    <3>2. QED
      BY <3>1
  <2>3. /\ SumOver(f, s) = f[x] + SumOver(f, t)
        /\ SumOver(g, s) = g[x] + SumOver(g, t)
    <3>1. \A y \in s : f[y] \in Int /\ g[y] \in Int
      BY <2>1 DEF ApartBy
    <3>2. QED
      BY <1>4, <2>1, <3>1, SumRemove
  <2>4. f[x] \in Int /\ g[x] \in Int /\ d[x] \in Int /\ f[x] = g[x] + d[x] * w
    BY <1>4, <2>1 DEF ApartBy
  <2>5. SumOver(g, t) \in Int
    <3>1. \A y \in t : g[y] \in Int
      BY <2>1 DEF ApartBy
    <3>2. QED
      BY <2>1, <3>1, SumType
  <2> DEFINE n == d[x] + k
  <2>6. SumOver(f, s) = SumOver(g, s) + n * w
    <3> HIDE DEF t, T
    <3>1. n * w = d[x] * w + k * w
      BY <2>4
    <3>2. k * w \in Int /\ d[x] * w \in Int
      BY <2>4
    <3> HIDE DEF n
    <3>3. QED
      BY <2>2, <2>3, <2>4, <2>5, <3>1, <3>2
  <2>7. n \in Int
    BY <2>4
  <2>8. QED
    <3> HIDE DEF n
    <3>1. QED
      BY <1>2, <2>6, <2>7
<1>5. QED
  BY <1>3, <1>4
==============================================================================
