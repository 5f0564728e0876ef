---------------------------- MODULE Pricing_proofs ----------------------------
(***************************************************************************)
(* What the arithmetic of an invoice computes, for every plan, every list  *)
(* of grants and every width of an integer.  The loop over the grants is   *)
(* unrolled once (NeedStep); the sums come from Sums_proofs.               *)
(***************************************************************************)
EXTENDS Pricing, Sums_proofs, NaturalsInduction, Sequences

-----------------------------------------------------------------------------
(* int64 *)

Int64 == (0 - Half) .. MaxInt

\* Quotient and remainder.
LEMMA DivMod ==
  ASSUME NEW x \in Int, NEW w \in Nat \ {0}
  PROVE  /\ x \div w \in Int /\ x % w \in 0 .. w - 1
         /\ x = (x \div w) * w + (x % w)
OBVIOUS

\* There is no other remainder.
LEMMA ModUnique ==
  ASSUME NEW q \in Int, NEW r \in Int, NEW w \in Nat \ {0}, 0 <= r, r < w
  PROVE  (q * w + r) % w = r
<1> DEFINE x == q * w + r
           k == x \div w
           m == x % w
<1>1. x \in Int /\ k \in Int /\ m \in 0 .. w - 1 /\ x = k * w + m
  <2>1. x \in Int
    OBVIOUS
  <2>2. QED
    BY <2>1, DivMod
<1>2. (k - q) * w = r - m
  BY <1>1
<1> HIDE DEF x, k, m
<1>3. ~ (k - q >= 1)
  <2>1. k - q >= 1 => (k - q) * w >= w
    BY <1>1
  <2>2. QED
    BY <1>1, <1>2, <2>1
<1>4. ~ (k - q <= 0 - 1)
  <2>1. k - q <= 0 - 1 => (k - q) * w <= 0 - w
    BY <1>1
  <2>2. QED
    BY <1>1, <1>2, <2>1
<1>5. k = q
  BY <1>1, <1>3, <1>4
<1>6. m = r
  BY <1>1, <1>2, <1>5
<1>7. QED
  BY <1>6 DEF m, x

\* An int64 is an int64.
LEMMA WrapType == \A n \in Int : Wrap(n) \in Int64
<1> SUFFICES ASSUME NEW n \in Int
             PROVE  Wrap(n) \in Int64
  OBVIOUS
<1>1. (n + Half) % (2 * Half) \in 0 .. 2 * Half - 1
  BY HalfAssumption
<1>2. QED
  BY <1>1, HalfAssumption DEF Wrap, Int64, MaxInt

\* What fits does not wrap.
LEMMA WrapFits == \A n \in Int64 : Wrap(n) = n
<1> SUFFICES ASSUME NEW n \in Int64
             PROVE  Wrap(n) = n
  OBVIOUS
<1>1. n \in Int /\ 0 - Half <= n /\ n < Half
  BY HalfAssumption DEF Int64, MaxInt
<1>2. ((n + Half) % (2 * Half)) - Half = n
  BY <1>1, HalfAssumption
<1>3. QED
  BY <1>2 DEF Wrap

\* Wrapping adds a multiple of the width.
LEMMA WrapShifts == \A n \in Int : \E k \in Int : Wrap(n) = n + k * (2 * Half)
<1> SUFFICES ASSUME NEW n \in Int
             PROVE  \E k \in Int : Wrap(n) = n + k * (2 * Half)
  OBVIOUS
<1> DEFINE d == (n + Half) \div (2 * Half)
<1>1. d \in Int /\ n + Half = d * (2 * Half) + ((n + Half) % (2 * Half))
  <2>1. n + Half \in Int /\ 2 * Half \in Nat \ {0}
    BY HalfAssumption
  <2>2. QED
    BY <2>1, DivMod
<1>2. Wrap(n) = n + (0 - d) * (2 * Half)
  BY <1>1, HalfAssumption DEF Wrap
<1>3. QED
  BY <1>1, <1>2

\* A multiple of the width is lost.
LEMMA WrapLoses == \A n, k \in Int : Wrap(n + k * (2 * Half)) = Wrap(n)
<1> SUFFICES ASSUME NEW n \in Int, NEW k \in Int
             PROVE  Wrap(n + k * (2 * Half)) = Wrap(n)
  OBVIOUS
<1> DEFINE w == 2 * Half
           x == n + Half
<1>1. (n + k * (2 * Half) + Half) % (2 * Half) = (n + Half) % (2 * Half)
  <2>1. w \in Nat \ {0} /\ x \in Int
    BY HalfAssumption
  <2>2. /\ x \div w \in Int /\ x % w \in 0 .. w - 1
        /\ x = (x \div w) * w + (x % w)
    BY <2>1, DivMod
  <2>3. n + k * w + Half = (x \div w + k) * w + (x % w)
    <3>1. n + k * w + Half = x + k * w
      BY <2>1, HalfAssumption
    <3> HIDE DEF x, w
    <3>2. QED
      BY <2>1, <2>2, <3>1
  <2>4. ((x \div w + k) * w + (x % w)) % w = x % w
    <3> HIDE DEF x, w
    <3>1. QED
      BY <2>1, <2>2, ModUnique
  <2>5. QED
    BY <2>3, <2>4
<1>2. QED
  BY <1>1 DEF Wrap

-----------------------------------------------------------------------------
(* The loop over the grants *)

\* A set of numbers that is not empty has a smallest one.
LEMMA Least ==
  ASSUME NEW T \in SUBSET Nat, T # {}
  PROVE  \E n \in T : \A m \in T : n <= m
<1>1. PICK b \in T : TRUE
  OBVIOUS
<1> DEFINE S == 0 .. b
           F == {0 .. n : n \in {m \in T : m <= b}}
<1>2. PICK s \in F : \A t \in F : t \subseteq s => t = s
  <2>1. IsFiniteSet(S)
    BY FS_Interval
  <2>2. F \subseteq SUBSET S
    OBVIOUS
  <2>3. F # {}
    BY <1>1
  <2> HIDE DEF F, S
  <2>4. QED
    BY <2>1, <2>2, <2>3, SmallestSubset
<1>3. PICK n \in T : n <= b /\ s = 0 .. n
  BY <1>2
<1>4. ASSUME NEW m \in T, m < n
      PROVE  FALSE
  <2>1. 0 .. m \in F /\ 0 .. m \subseteq s
    BY <1>3, <1>4
  <2>2. 0 .. m = 0 .. n
    BY <1>2, <1>3, <2>1
  <2>3. n \in 0 .. m
    BY <2>2
  <2>4. QED
    BY <1>4, <2>3
<1>5. QED
  BY <1>3, <1>4

\* One round of the loop: what is still needed after number n, h being what was
\* needed after the numbers before.
Round(subtotal, grants, h, n) ==
    CASE n = 0 -> subtotal
      [] n # 0 /\ n \in DOMAIN grants -> h[n - 1] - Smaller(grants[n], h[n - 1])
      [] OTHER -> h[n - 1]

\* h is what is needed after each of the numbers up to n.
Rounds(subtotal, grants, h, n) ==
    h = [k \in 0 .. n |-> Round(subtotal, grants, h, k)]

\* Two ways of running the rounds agree as far as both go.
LEMMA RoundsAgree ==
  ASSUME NEW subtotal, NEW grants, NEW n \in Nat, NEW m \in Nat, NEW g, NEW h,
         Rounds(subtotal, grants, g, n), Rounds(subtotal, grants, h, m)
  PROVE  \A k \in Nat : k <= n /\ k <= m => g[k] = h[k]
<1> DEFINE T == {k \in Nat : k <= n /\ k <= m /\ g[k] # h[k]}
<1>1. SUFFICES ASSUME T # {} PROVE FALSE
  OBVIOUS
<1>2. PICK k \in T : \A j \in T : k <= j
  <2>1. T \in SUBSET Nat
    OBVIOUS
  <2> HIDE DEF T
  <2>2. QED
    BY <1>1, <2>1, Least
<1>3. /\ g[k] = Round(subtotal, grants, g, k)
      /\ h[k] = Round(subtotal, grants, h, k)
  <2>1. k \in 0 .. n /\ k \in 0 .. m
    BY <1>2
  <2> HIDE DEF T
  <2>2. QED
    BY <2>1 DEF Rounds
<1>4. CASE k = 0
  BY <1>2, <1>3, <1>4 DEF Round
<1>5. CASE k # 0
  <2>1. k - 1 \in Nat /\ k - 1 <= n /\ k - 1 <= m /\ k - 1 \notin T
    BY <1>2, <1>5
  <2>2. g[k - 1] = h[k - 1]
    BY <2>1
  <2>3. QED
    BY <1>2, <1>3, <1>5, <2>2 DEF Round
<1>6. QED
  BY <1>4, <1>5

\* The rounds can be run to any number.
LEMMA RoundsExist ==
  ASSUME NEW subtotal, NEW grants
  PROVE  \A n \in Nat : \E h : Rounds(subtotal, grants, h, n)
<1> DEFINE T == {n \in Nat : ~ \E h : Rounds(subtotal, grants, h, n)}
<1>1. SUFFICES ASSUME T # {} PROVE FALSE
  OBVIOUS
<1>2. PICK n \in T : \A j \in T : n <= j
  <2>1. T \in SUBSET Nat
    OBVIOUS
  <2> HIDE DEF T
  <2>2. QED
    BY <1>1, <2>1, Least
<1>3. CASE n = 0
  <2> DEFINE h == [k \in 0 .. 0 |-> subtotal]
  <2>1. \A k \in 0 .. 0 : h[k] = Round(subtotal, grants, h, k)
    BY DEF Round
  <2>2. Rounds(subtotal, grants, h, 0)
    BY <2>1 DEF Rounds
  <2>3. QED
    BY <1>2, <1>3, <2>2
<1>4. CASE n # 0
  <2>1. n - 1 \in Nat /\ n - 1 \notin T
    BY <1>2, <1>4
  <2>2. PICK g : Rounds(subtotal, grants, g, n - 1)
    BY <2>1
  <2> DEFINE h == [k \in 0 .. n |-> IF k = n THEN Round(subtotal, grants, g, n) ELSE g[k]]
  <2>3. ASSUME NEW k \in 0 .. n
        PROVE  h[k] = Round(subtotal, grants, h, k)
    <3>1. CASE k = 0
      <4>1. g[k] = subtotal /\ h[k] = g[k]
        BY <1>2, <1>4, <2>1, <2>2, <3>1 DEF Rounds, Round
      <4>2. QED
        BY <3>1, <4>1 DEF Round
    <3>2. CASE k # 0
      <4>1. k - 1 \in 0 .. n /\ k - 1 # n
        BY <1>2, <3>2
      <4>2. h[k - 1] = g[k - 1]
        BY <4>1
      <4>3. h[k] = Round(subtotal, grants, g, k)
        <5>1. CASE k = n
          BY <5>1
        <5>2. CASE k # n
          <6>1. k \in 0 .. n - 1 /\ h[k] = g[k]
            BY <1>2, <5>2
          <6>2. g[k] = Round(subtotal, grants, g, k)
            BY <2>2, <6>1 DEF Rounds
          <6>3. QED
            BY <6>1, <6>2
        <5>3. QED
          BY <5>1, <5>2
      <4> HIDE DEF h
      <4>4. QED
        BY <3>2, <4>2, <4>3 DEF Round
    <3>3. QED
      BY <3>1, <3>2
  <2>4. Rounds(subtotal, grants, h, n)
    BY <2>3 DEF Rounds
  <2>5. QED
    BY <1>2, <2>4
<1>5. QED
  BY <1>3, <1>4

\* The loop, round by round.
LEMMA NeedStep ==
  ASSUME NEW subtotal, NEW grants
  PROVE  \A n \in Nat :
            Need(subtotal, grants)[n] = Round(subtotal, grants, Need(subtotal, grants), n)
<1> DEFINE H(n) == CHOOSE h : Rounds(subtotal, grants, h, n)
           g == [n \in Nat |-> H(n)[n]]
<1>1. \A n \in Nat : Rounds(subtotal, grants, H(n), n)
  BY RoundsExist
<1>2. ASSUME NEW n \in Nat
      PROVE  g[n] = Round(subtotal, grants, g, n)
  <2>1. g[n] = H(n)[n] /\ H(n)[n] = Round(subtotal, grants, H(n), n)
    <3>1. g[n] = H(n)[n]
      OBVIOUS
    <3>2. Rounds(subtotal, grants, H(n), n) /\ n \in 0 .. n
      BY <1>1
    <3> HIDE DEF g, H
    <3>3. QED
      BY <3>1, <3>2 DEF Rounds
  <2>2. CASE n = 0
    BY <2>1, <2>2 DEF Round
  <2>3. CASE n # 0
    <3>1. n - 1 \in Nat
      BY <2>3
    <3>2. Rounds(subtotal, grants, H(n), n) /\ Rounds(subtotal, grants, H(n - 1), n - 1)
      BY <1>1, <3>1
    <3>3. H(n)[n - 1] = H(n - 1)[n - 1]
      <4> HIDE DEF H
      <4>1. QED
        BY <3>1, <3>2, RoundsAgree
    <3>4. g[n - 1] = H(n)[n - 1]
      BY <3>1, <3>3
    <3> HIDE DEF g, H
    <3>5. QED
      BY <2>1, <2>3, <3>4 DEF Round
  <2>4. QED
    BY <2>2, <2>3
<1>3. g = [n \in Nat |-> Round(subtotal, grants, g, n)]
  BY <1>2
<1> DEFINE need == Need(subtotal, grants)
<1>4. need = CHOOSE h : h = [n \in Nat |-> Round(subtotal, grants, h, n)]
  BY DEF Need, Round
<1>5. need = [n \in Nat |-> Round(subtotal, grants, need, n)]
  <2> HIDE DEF g, need
  <2>1. QED
    BY <1>3, <1>4
<1>6. QED
  <2> HIDE DEF g
  <2>1. QED
    BY <1>5
-----------------------------------------------------------------------------
(* What the loop takes *)

\* The open grants of a customer: numbers from 1, amounts that are not negative.
Open(grants) == /\ DOMAIN grants \in SUBSET (Nat \ {0}) /\ IsFiniteSet(DOMAIN grants)
                /\ \A i \in DOMAIN grants : grants[i] \in Nat

UpTo(grants, n) == {i \in DOMAIN grants : i <= n}

Takes(subtotal, grants) == [i \in DOMAIN grants |-> Take(subtotal, grants, i)]

\* The loop in terms of what is taken.
LEMMA NeedUnfolds ==
  ASSUME NEW subtotal, NEW grants, Open(grants)
  PROVE  /\ Need(subtotal, grants)[0] = subtotal
         /\ \A n \in Nat \ {0} :
               Need(subtotal, grants)[n] =
                  IF n \in DOMAIN grants
                  THEN Need(subtotal, grants)[n - 1] - Take(subtotal, grants, n)
                  ELSE Need(subtotal, grants)[n - 1]
<1> DEFINE need == Need(subtotal, grants)
<1>1. \A n \in Nat : need[n] = Round(subtotal, grants, need, n)
  BY NeedStep
<1> HIDE DEF need
<1>2. need[0] = subtotal
  BY <1>1 DEF Round
<1>3. ASSUME NEW n \in Nat \ {0}
      PROVE  need[n] = IF n \in DOMAIN grants
                       THEN need[n - 1] - Smaller(grants[n], need[n - 1])
                       ELSE need[n - 1]
  BY <1>1 DEF Round
<1>4. QED
  BY <1>2, <1>3 DEF need, Take

\* What is needed is a number, even of a subtotal that wrapped.
LEMMA NeedType ==
  ASSUME NEW subtotal \in Int, NEW grants, Open(grants)
  PROVE  \A n \in Nat : Need(subtotal, grants)[n] \in Int
<1> DEFINE need == Need(subtotal, grants)
           T == {n \in Nat : need[n] \notin Int}
<1>1. SUFFICES ASSUME T # {} PROVE FALSE
  OBVIOUS
<1>2. PICK n \in T : \A j \in T : n <= j
  <2>1. T \in SUBSET Nat
    OBVIOUS
  <2> HIDE DEF T
  <2>2. QED
    BY <1>1, <2>1, Least
<1>3. n # 0
  BY <1>2, NeedUnfolds
<1>4. n - 1 \in Nat /\ need[n - 1] \in Int
  BY <1>2, <1>3
<1>5. need[n] \in {need[n - 1], need[n - 1] - Take(subtotal, grants, n)}
      /\ (n \in DOMAIN grants => grants[n] \in Nat)
      /\ (n \notin DOMAIN grants => need[n] = need[n - 1])
  BY <1>2, <1>3, NeedUnfolds DEF Open
<1>6. n \in DOMAIN grants => Take(subtotal, grants, n) \in Int
  BY <1>4, <1>5 DEF Take, Smaller
<1>7. need[n] \in Int
  BY <1>4, <1>5, <1>6
<1>8. QED
  BY <1>2, <1>7

\* What is taken is a number, and no more than there is.
LEMMA TakeType ==
  ASSUME NEW subtotal \in Int, NEW grants, Open(grants), NEW i \in DOMAIN grants
  PROVE  /\ Take(subtotal, grants, i) \in Int
         /\ Take(subtotal, grants, i) <= grants[i]
<1>1. i \in Nat /\ i # 0 /\ i - 1 \in Nat /\ grants[i] \in Nat
  BY DEF Open
<1>2. Need(subtotal, grants)[i - 1] \in Int
  BY <1>1, NeedType
<1>3. QED
  BY <1>1, <1>2 DEF Take, Smaller

\* Of a subtotal that is not negative nothing negative is ever needed.
LEMMA NeedNat ==
  ASSUME NEW subtotal \in Nat, NEW grants, Open(grants)
  PROVE  \A n \in Nat : Need(subtotal, grants)[n] \in Nat
<1> DEFINE need == Need(subtotal, grants)
           T == {n \in Nat : need[n] \notin Nat}
<1>1. SUFFICES ASSUME T # {} PROVE FALSE
  OBVIOUS
<1>2. PICK n \in T : \A j \in T : n <= j
  <2>1. T \in SUBSET Nat
    OBVIOUS
  <2> HIDE DEF T
  <2>2. QED
    BY <1>1, <2>1, Least
<1>3. n # 0
  BY <1>2, NeedUnfolds
<1>4. n - 1 \in Nat /\ need[n - 1] \in Nat
  BY <1>2, <1>3
<1>5. CASE n \in DOMAIN grants
  <2>1. grants[n] \in Nat /\ need[n] = need[n - 1] - Smaller(grants[n], need[n - 1])
    BY <1>2, <1>3, <1>5, NeedUnfolds DEF Open, Take
  <2>2. need[n] \in Nat
    <3> HIDE DEF need
    <3>1. QED
      BY <1>4, <2>1 DEF Smaller
  <2>3. QED
    BY <1>2, <2>2
<1>6. CASE n \notin DOMAIN grants
  <2>1. need[n] = need[n - 1]
    BY <1>2, <1>3, <1>6, NeedUnfolds
  <2>2. QED
    BY <1>2, <1>4, <2>1
<1>7. QED
  BY <1>5, <1>6

\* Of such a subtotal every grant gives between nothing and all it has.
LEMMA TakeNat ==
  ASSUME NEW subtotal \in Nat, NEW grants, Open(grants), NEW i \in DOMAIN grants
  PROVE  Take(subtotal, grants, i) \in 0 .. grants[i]
<1>1. i \in Nat /\ i # 0 /\ i - 1 \in Nat /\ grants[i] \in Nat
  BY DEF Open
<1>2. Need(subtotal, grants)[i - 1] \in Nat
  BY <1>1, NeedNat
<1>3. QED
  BY <1>1, <1>2 DEF Take, Smaller

\* What is needed and what was taken so far make the subtotal.
LEMMA NeedAndTaken ==
  ASSUME NEW subtotal \in Int, NEW grants, Open(grants)
  PROVE  \A n \in Nat :
            Need(subtotal, grants)[n] + SumOver(Takes(subtotal, grants), UpTo(grants, n))
               = subtotal
<1> DEFINE need == Need(subtotal, grants)
           f == Takes(subtotal, grants)
           U(n) == UpTo(grants, n)
           T == {n \in Nat : ~ (need[n] + SumOver(f, U(n)) = subtotal)}
<1>1. SUFFICES ASSUME T # {} PROVE FALSE
  OBVIOUS
<1>2. PICK n \in T : \A j \in T : n <= j
  <2>1. T \in SUBSET Nat
    OBVIOUS
  <2> HIDE DEF T
  <2>2. QED
    BY <1>1, <2>1, Least
<1>3. \A i \in DOMAIN grants : f[i] \in Int /\ i \in Nat \ {0}
  BY TakeType DEF Takes, Open
<1>4. \A k \in Nat : IsFiniteSet(U(k)) /\ SumOver(f, U(k)) \in Int /\ need[k] \in Int
  <2>1. ASSUME NEW k \in Nat
        PROVE  IsFiniteSet(U(k)) /\ SumOver(f, U(k)) \in Int
    <3>1. IsFiniteSet(U(k)) /\ U(k) \subseteq DOMAIN grants
      BY FS_Subset DEF UpTo, Open
    <3>2. QED
      <4> HIDE DEF U, f
      <4>1. QED BY <1>3, <3>1, SumType
  <2>2. QED
    BY <2>1, NeedType
<1>5. CASE n = 0
  <2>1. U(0) = {}
    BY <1>3 DEF UpTo
  <2>2. need[0] + SumOver(f, U(0)) = subtotal
    BY <2>1, SumEmpty, NeedUnfolds
  <2>3. QED
    BY <1>2, <1>5, <2>2
<1>6. CASE n # 0
  <2>1. n \in Nat /\ n - 1 \in Nat /\ need[n - 1] + SumOver(f, U(n - 1)) = subtotal
    BY <1>2, <1>6
  <2>2. CASE n \in DOMAIN grants
    <3>1. n \in U(n) /\ U(n) \ {n} = U(n - 1)
      BY <1>3, <2>1, <2>2 DEF UpTo
    <3>2. SumOver(f, U(n)) = f[n] + SumOver(f, U(n - 1))
      <4>1. \A i \in U(n) : f[i] \in Int
        BY <1>3 DEF UpTo
      <4> HIDE DEF U, f
      <4>2. QED
        BY <1>4, <2>1, <3>1, <4>1, SumRemove
    <3>3. need[n] = need[n - 1] - f[n]
      BY <1>6, <2>1, <2>2, NeedUnfolds DEF Takes
    <3>4. need[n] + SumOver(f, U(n)) = subtotal
      <4> HIDE DEF need, U, f
      <4>1. QED
        BY <1>3, <1>4, <2>1, <2>2, <3>2, <3>3
    <3>5. QED
      BY <1>2, <3>4
  <2>3. CASE n \notin DOMAIN grants
    <3>1. U(n) = U(n - 1)
      BY <1>3, <2>1, <2>3 DEF UpTo
    <3>2. need[n] = need[n - 1]
      BY <1>6, <2>1, <2>3, NeedUnfolds
    <3>3. QED
      BY <1>2, <2>1, <3>1, <3>2
  <2>4. QED
    BY <2>2, <2>3
<1>7. QED
  BY <1>5, <1>6

\* A finite set of numbers has a bound.
LEMMA Bound ==
  ASSUME NEW S, IsFiniteSet(S)
  PROVE  S \subseteq Nat => \E n \in Nat : \A i \in S : i <= n
<1> DEFINE T == {s \in SUBSET S : s \subseteq Nat /\ ~ \E n \in Nat : \A i \in s : i <= n}
<1>1. SUFFICES ASSUME T # {} PROVE FALSE
  OBVIOUS
<1>2. PICK s \in T : \A t \in T : t \subseteq s => t = s
  <2>1. T \subseteq SUBSET S
    OBVIOUS
  <2> HIDE DEF T
  <2>2. QED
    BY <1>1, <2>1, SmallestSubset
<1>3. PICK x \in s : TRUE
  BY <1>2
<1>4. s \ {x} \notin T /\ s \ {x} \in SUBSET S
  BY <1>2, <1>3
<1>5. PICK n \in Nat : \A i \in s \ {x} : i <= n
  BY <1>4
<1>6. x \in Nat
  BY <1>2, <1>3
<1>7. \A i \in s : i <= n + x
  BY <1>2, <1>5, <1>6
<1>8. n + x \in Nat
  BY <1>6
<1>9. QED
  BY <1>2, <1>7, <1>8

\* In all, the loop takes what is no longer needed when it is over.
LEMMA TakenInAll ==
  ASSUME NEW subtotal \in Int, NEW grants, Open(grants)
  PROVE  \E n \in Nat :
            /\ UpTo(grants, n) = DOMAIN grants
            /\ SumOver(Takes(subtotal, grants), DOMAIN grants)
                  = subtotal - Need(subtotal, grants)[n]
<1>1. PICK n \in Nat : \A i \in DOMAIN grants : i <= n
  <2>1. DOMAIN grants \subseteq Nat /\ IsFiniteSet(DOMAIN grants)
    BY DEF Open
  <2>2. QED
    BY <2>1, Bound
<1>2. UpTo(grants, n) = DOMAIN grants
  BY <1>1 DEF UpTo
<1>3. Need(subtotal, grants)[n] + SumOver(Takes(subtotal, grants), DOMAIN grants) = subtotal
  BY <1>2, NeedAndTaken
<1>4. Need(subtotal, grants)[n] \in Int
  BY NeedType
<1>5. SumOver(Takes(subtotal, grants), DOMAIN grants) \in Int
  <2>1. IsFiniteSet(DOMAIN grants)
        /\ \A i \in DOMAIN grants : Takes(subtotal, grants)[i] \in Int
    BY TakeType DEF Takes, Open
  <2>2. QED
    BY <2>1, SumType
<1>6. QED
  BY <1>2, <1>3, <1>4, <1>5
-----------------------------------------------------------------------------
(* Oldest first *)

\* The need never grows again.
LEMMA NeedFalls ==
  ASSUME NEW subtotal \in Nat, NEW grants, Open(grants), NEW n \in Nat
  PROVE  \A m \in Nat : n <= m => Need(subtotal, grants)[m] <= Need(subtotal, grants)[n]
<1> DEFINE need == Need(subtotal, grants)
           T == {m \in Nat : n <= m /\ ~ (need[m] <= need[n])}
<1>1. SUFFICES ASSUME T # {} PROVE FALSE
  OBVIOUS
<1>2. PICK m \in T : \A j \in T : m <= j
  <2>1. T \in SUBSET Nat
    OBVIOUS
  <2> HIDE DEF T
  <2>2. QED
    BY <1>1, <2>1, Least
<1>3. \A k \in Nat : need[k] \in Nat
  BY NeedNat
<1>4. m # n /\ m \in Nat /\ n <= m /\ ~ (need[m] <= need[n])
  BY <1>2, <1>3
<1>5. m - 1 \in Nat /\ n <= m - 1 /\ need[m - 1] <= need[n]
  BY <1>2, <1>4
<1>6. need[m] <= need[m - 1]
  <2>1. CASE m \in DOMAIN grants
    <3>1. need[m] = need[m - 1] - Take(subtotal, grants, m)
      BY <1>4, <1>5, <2>1, NeedUnfolds
    <3>2. Take(subtotal, grants, m) \in 0 .. grants[m] /\ grants[m] \in Nat
      BY <2>1, TakeNat DEF Open
    <3> HIDE DEF need
    <3>3. QED
      BY <1>3, <1>5, <3>1, <3>2
  <2>2. CASE m \notin DOMAIN grants
    <3>1. need[m] = need[m - 1]
      BY <1>4, <1>5, <2>2, NeedUnfolds
    <3> HIDE DEF need
    <3>2. QED
      BY <1>3, <1>5, <3>1
  <2>3. QED
    BY <2>1, <2>2
<1> HIDE DEF need
<1>7. QED
  BY <1>3, <1>4, <1>5, <1>6

\* A grant that keeps something ends the need.
LEMMA KeepsEnds ==
  ASSUME NEW subtotal \in Nat, NEW grants, Open(grants), NEW i \in DOMAIN grants,
         Take(subtotal, grants, i) # grants[i]
  PROVE  \A m \in Nat : i <= m => Need(subtotal, grants)[m] = 0
<1> DEFINE need == Need(subtotal, grants)
<1>1. i \in Nat /\ i # 0 /\ i - 1 \in Nat /\ grants[i] \in Nat
  BY DEF Open
<1>2. \A n \in Nat : need[n] \in Nat
  BY NeedNat
<1>3. Take(subtotal, grants, i) = need[i - 1]
  BY <1>1, <1>2 DEF Take, Smaller
<1>4. need[i] = 0
  <2>1. need[i] = need[i - 1] - Take(subtotal, grants, i)
    BY <1>1, NeedUnfolds
  <2> HIDE DEF need
  <2>2. QED
    BY <1>1, <1>2, <1>3, <2>1
<1>5. \A m \in Nat : i <= m => need[m] <= need[i]
  BY <1>1, NeedFalls
<1> HIDE DEF need
<1>6. QED
  BY <1>2, <1>4, <1>5 DEF need

\* So a grant is touched only when every older one is used up.
LEMMA OldestFirst ==
  ASSUME NEW subtotal \in Nat, NEW grants, Open(grants),
         NEW i \in DOMAIN grants, NEW j \in DOMAIN grants, i < j,
         Take(subtotal, grants, j) # 0
  PROVE  Take(subtotal, grants, i) = grants[i]
<1>1. i \in Nat /\ j \in Nat /\ j - 1 \in Nat /\ i <= j - 1 /\ grants[j] \in Nat
  BY DEF Open
<1>2. Need(subtotal, grants)[j - 1] # 0
  BY <1>1 DEF Take, Smaller
<1>3. QED
  BY <1>1, <1>2, KeepsEnds

\* What is taken in all is what is wanted or what there is, the smaller.
LEMMA TakenIsSmaller ==
  ASSUME NEW subtotal \in Nat, NEW grants, Open(grants)
  PROVE  /\ SumOver(Takes(subtotal, grants), DOMAIN grants) \in 0 .. subtotal
         /\ SumOver(Takes(subtotal, grants), DOMAIN grants)
               = Smaller(SumOver(grants, DOMAIN grants), subtotal)
         /\ SumOver(Takes(subtotal, grants), DOMAIN grants) < subtotal =>
               \A i \in DOMAIN grants : Take(subtotal, grants, i) = grants[i]
<1> DEFINE need == Need(subtotal, grants)
           taken == SumOver(Takes(subtotal, grants), DOMAIN grants)
           all == SumOver(grants, DOMAIN grants)
<1>1. PICK n \in Nat : UpTo(grants, n) = DOMAIN grants /\ taken = subtotal - need[n]
  BY TakenInAll
<1>2. need[n] \in Nat
  BY NeedNat
<1>3. /\ IsFiniteSet(DOMAIN grants)
      /\ \A i \in DOMAIN grants : /\ grants[i] \in Nat
                                  /\ Takes(subtotal, grants)[i] \in 0 .. grants[i]
                                  /\ Takes(subtotal, grants)[i] = Take(subtotal, grants, i)
  BY TakeNat DEF Open, Takes
<1>4. all \in Nat
  BY <1>3, SumNat
<1>5. taken <= all /\ taken \in Nat
  <2> DEFINE f == Takes(subtotal, grants)
  <2>1. \A i \in DOMAIN grants : f[i] \in Int /\ grants[i] \in Int /\ f[i] <= grants[i]
    BY <1>3
  <2>2. \A i \in DOMAIN grants : f[i] \in Nat
    BY <1>3
  <2> HIDE DEF f
  <2>3. SumOver(f, DOMAIN grants) <= all
    BY <1>3, <2>1, SumMonotone
  <2>4. SumOver(f, DOMAIN grants) \in Nat
    BY <1>3, <2>2, SumNat
  <2>5. QED
    BY <2>3, <2>4 DEF f
<1>6. need[n] # 0 => \A i \in DOMAIN grants : Take(subtotal, grants, i) = grants[i]
  <2> SUFFICES ASSUME need[n] # 0, NEW i \in DOMAIN grants,
                      Take(subtotal, grants, i) # grants[i]
               PROVE  FALSE
    OBVIOUS
  <2>1. i <= n
    BY <1>1 DEF UpTo
  <2>2. QED
    BY <2>1, KeepsEnds
<1>7. need[n] # 0 => taken = all
  <2> SUFFICES ASSUME need[n] # 0
               PROVE  taken = all
    OBVIOUS
  <2>1. \A i \in DOMAIN grants : Takes(subtotal, grants)[i] = grants[i]
    BY <1>3, <1>6
  <2>2. QED
    BY <1>3, <2>1, SumSame
<1> HIDE DEF need, taken, all
<1>8. taken \in 0 .. subtotal
  BY <1>1, <1>2, <1>5
<1>9. taken = Smaller(all, subtotal)
  BY <1>1, <1>2, <1>4, <1>5, <1>7 DEF Smaller
<1>10. taken < subtotal => need[n] # 0
  BY <1>1, <1>2
<1>11. QED
  BY <1>6, <1>8, <1>9, <1>10 DEF need, taken, all

-----------------------------------------------------------------------------
(* The bill *)

\* A price plan as the schema lets it in, in the order of its tiers.
Tiers == Seq([from : Nat, to : Nat \cup {NoLimit}, price : Nat])

\* Amounts that fit.
Fitting(grants) == \A i \in DOMAIN grants : grants[i] <= MaxInt

LineRow == [kind : {"tier", "credit"}, quantity : Nat, amount : Int, position : Nat]

\* A bound of numbers is the number of some.
LEMMA RankType ==
  ASSUME NEW K, IsFiniteSet(K), NEW n
  PROVE  Rank(K, n) \in Nat
<1>1. IsFiniteSet({j \in K : j <= n})
  BY FS_Subset
<1>2. QED
  BY <1>1, FS_CardinalityType DEF Rank

\* The tier lines are finitely many rows with an int64 each.
LEMMA TierLines ==
  ASSUME NEW units \in Nat, NEW tiers \in Tiers
  PROVE  /\ IsFiniteSet(BilledTiers(units, tiers))
         /\ IsFiniteSet(PriceUnits(units, tiers))
         /\ PriceUnits(units, tiers) \subseteq LineRow
         /\ \A l \in PriceUnits(units, tiers) : l.amount \in Int64
<1> DEFINE B == BilledTiers(units, tiers)
           L == PriceUnits(units, tiers)
<1>1. B \subseteq 1 .. Len(tiers) /\ Len(tiers) \in Nat
  BY DEF BilledTiers, Reached, Tiers
<1>2. IsFiniteSet(B)
  <2>1. IsFiniteSet(1 .. Len(tiers))
    BY <1>1, FS_Interval
  <2> HIDE DEF B
  <2>2. QED
    BY <1>1, <2>1, FS_Subset
<1>3. IsFiniteSet(L)
  <2> DEFINE f == [i \in B |-> TierLine(units, tiers, i)]
  <2>1. f \in Surjection(B, L)
    BY DEF Surjection, PriceUnits
  <2> HIDE DEF f, B, L
  <2>2. QED
    BY <1>2, <2>1, FS_Surjection
<1>4. ASSUME NEW i \in B
      PROVE  TierLine(units, tiers, i) \in LineRow
             /\ TierLine(units, tiers, i).amount \in Int64
  <2>1. tiers[i] \in [from : Nat, to : Nat \cup {NoLimit}, price : Nat]
    <3> DEFINE R == [from : Nat, to : Nat \cup {NoLimit}, price : Nat]
    <3>1. tiers \in Seq(R) /\ i \in 1 .. Len(tiers)
      BY <1>1 DEF Tiers
    <3> HIDE DEF R
    <3>2. tiers[i] \in R
      BY <3>1
    <3>3. QED
      BY <3>2 DEF R
  <2>2. Quantity(units, tiers[i]) \in Nat
    BY <2>1 DEF Quantity, BilledTiers, NoLimit
  <2>3. Quantity(units, tiers[i]) * tiers[i].price \in Int
    BY <2>1, <2>2
  <2>4. Wrap(Quantity(units, tiers[i]) * tiers[i].price) \in Int64
    BY <2>3, WrapType
  <2>5. Rank(B, i) \in Nat
    <3> HIDE DEF B
    <3>1. QED
      BY <1>2, RankType
  <2>6. Int64 \subseteq Int
    BY HalfAssumption DEF Int64
  <2>7. QED
    BY <2>2, <2>4, <2>5, <2>6 DEF TierLine, LineRow
<1>5. QED
  BY <1>2, <1>3, <1>4 DEF PriceUnits

\* Any sum of int64s, wrapped, is an int64.
LEMMA SumAmountsType ==
  ASSUME NEW lines, IsFiniteSet(lines), \A l \in lines : l.amount \in Int
  PROVE  SumAmounts(lines) \in Int64
<1> DEFINE f == [l \in lines |-> l.amount]
<1>1. \A l \in lines : f[l] \in Int
  OBVIOUS
<1> HIDE DEF f
<1>2. SumOver(f, lines) \in Int
  BY <1>1, SumType
<1>3. QED
  BY <1>2, WrapType DEF SumAmounts, f

\* The credits of a subtotal that fits: nothing wraps.
LEMMA CreditsFit ==
  ASSUME NEW subtotal \in 0 .. MaxInt, NEW grants, Open(grants), Fitting(grants),
         NEW nextPos \in Nat \ {0}
  PROVE  LET credits == ApplyCredits(subtotal, grants, nextPos)
         IN  /\ credits.applied = SumOver(Takes(subtotal, grants), DOMAIN grants)
             /\ DOMAIN credits.left = DOMAIN grants
             /\ \A i \in DOMAIN grants :
                   /\ credits.left[i] = grants[i] - Take(subtotal, grants, i)
                   /\ credits.left[i] \in 0 .. grants[i]
             /\ IsFiniteSet(credits.lines)
             /\ credits.lines \subseteq LineRow
<1> DEFINE take == Takes(subtotal, grants)
           U == Used(subtotal, grants)
           line(i) == CreditLine(subtotal, grants, nextPos, i)
           lines == {line(i) : i \in U}
<1>1. subtotal \in Nat /\ subtotal <= MaxInt /\ 0 .. MaxInt \subseteq Int64
      /\ MaxInt \in Nat /\ Int64 \subseteq Int
  BY HalfAssumption DEF Int64, MaxInt
<1>2. Wrap(SumOver(take, DOMAIN grants)) = SumOver(take, DOMAIN grants)
  <2>1. SumOver(take, DOMAIN grants) \in 0 .. subtotal
    BY <1>1, TakenIsSmaller
  <2> HIDE DEF take
  <2>2. SumOver(take, DOMAIN grants) \in Int64
    BY <1>1, <2>1
  <2>3. QED
    BY <2>2, WrapFits
<1>3. ASSUME NEW i \in DOMAIN grants
      PROVE  /\ Wrap(grants[i] - Take(subtotal, grants, i)) = grants[i] - Take(subtotal, grants, i)
             /\ grants[i] - Take(subtotal, grants, i) \in 0 .. grants[i]
             /\ Take(subtotal, grants, i) \in Int
  <2>1. grants[i] \in Nat /\ grants[i] <= MaxInt /\ Take(subtotal, grants, i) \in 0 .. grants[i]
    BY <1>1, TakeNat DEF Open, Fitting
  <2>2. grants[i] - Take(subtotal, grants, i) \in Int64
    BY <1>1, <2>1
  <2>3. QED
    BY <2>1, <2>2, WrapFits
<1>4. U \subseteq DOMAIN grants /\ IsFiniteSet(U)
  BY FS_Subset DEF Used, Open
<1>5. IsFiniteSet(lines)
  <2> DEFINE f == [i \in U |-> line(i)]
  <2>1. f \in Surjection(U, lines)
    BY DEF Surjection
  <2> HIDE DEF f, U, lines, line
  <2>2. QED
    BY <1>4, <2>1, FS_Surjection
<1>6. ASSUME NEW i \in U
      PROVE  line(i) \in LineRow
  <2>1. Wrap(0 - Take(subtotal, grants, i)) \in Int
    <3>1. 0 - Take(subtotal, grants, i) \in Int
      BY <1>3, <1>4
    <3>2. QED
      BY <1>1, <3>1, WrapType
  <2>2. Rank(U, i) \in Nat /\ Rank(U, i) >= 1
    <3> DEFINE K == {j \in U : j <= i}
    <3>1. i \in K
      BY <1>4 DEF Open
    <3>2. IsFiniteSet(K)
      BY <1>4, FS_Subset
    <3>3. Cardinality(K) \in Nat /\ Cardinality(K) # 0
      <4> HIDE DEF K
      <4>1. QED
        BY <3>1, <3>2, FS_CardinalityType, FS_EmptySet
    <3>4. QED
      BY <3>3 DEF Rank
  <2>3. CreditPosition(nextPos, Rank(U, i)) \in Nat
    <3> HIDE DEF U
    <3>1. QED
      BY <2>2 DEF CreditPosition
  <2>4. QED
    BY <2>1, <2>3 DEF CreditLine, LineRow
<1>7. QED
  <2> DEFINE credits == ApplyCredits(subtotal, grants, nextPos)
  <2>1. /\ credits.applied = Wrap(SumOver(take, DOMAIN grants))
        /\ credits.left = [i \in DOMAIN grants |-> Wrap(grants[i] - Take(subtotal, grants, i))]
        /\ credits.lines = lines
    BY DEF ApplyCredits, Takes
  <2>2. \A i \in DOMAIN grants : credits.left[i] = Wrap(grants[i] - Take(subtotal, grants, i))
    BY <2>1
  <2> HIDE DEF credits, take, lines, line, U
  <2>3. lines \subseteq LineRow
    BY <1>6 DEF lines
  <2>4. QED
    BY <1>2, <1>3, <1>5, <2>1, <2>2, <2>3 DEF credits, take

\* The bill the CHECKs let in: it charges what the units cost, takes from the
\* grants what it shows as credit, and no amount of it has wrapped.
LEMMA BillFits ==
  ASSUME NEW units \in Nat, NEW tiers \in Tiers,
         NEW grants, Open(grants), Fitting(grants),
         Bill(units, tiers, grants).subtotal >= 0
  PROVE  LET bill == Bill(units, tiers, grants)
         IN  /\ bill.subtotal = SumAmounts(PriceUnits(units, tiers))
             /\ bill.subtotal \in 0 .. MaxInt
             /\ bill.credit = SumOver(Takes(bill.subtotal, grants), DOMAIN grants)
             /\ bill.credit \in 0 .. bill.subtotal
             /\ bill.total = bill.subtotal - bill.credit
             /\ DOMAIN bill.left = DOMAIN grants
             /\ \A i \in DOMAIN grants :
                   /\ bill.left[i] = grants[i] - Take(bill.subtotal, grants, i)
                   /\ bill.left[i] \in 0 .. grants[i]
             /\ IsFiniteSet(bill.lines)
             /\ bill.lines \subseteq LineRow
<1> DEFINE lines == PriceUnits(units, tiers)
           subtotal == SumAmounts(lines)
           nextPos == Cardinality(lines) + 1
           credits == ApplyCredits(subtotal, grants, nextPos)
           bill == Bill(units, tiers, grants)
<1>1. /\ bill.subtotal = subtotal /\ bill.credit = credits.applied
      /\ bill.total = Wrap(subtotal - credits.applied)
      /\ bill.lines = lines \cup credits.lines
      /\ bill.left = credits.left
  BY DEF Bill
<1>2. IsFiniteSet(lines) /\ lines \subseteq LineRow /\ nextPos \in Nat \ {0}
  <2>1. IsFiniteSet(lines) /\ lines \subseteq LineRow
    BY TierLines
  <2>2. Cardinality(lines) \in Nat
    BY <2>1, FS_CardinalityType
  <2>3. QED
    BY <2>1, <2>2
<1>3. subtotal \in 0 .. MaxInt
  <2>1. \A l \in lines : l.amount \in Int
    BY <1>2 DEF LineRow
  <2>2. subtotal \in Int64
    BY <1>2, <2>1, SumAmountsType
  <2>3. subtotal >= 0
    BY <1>1
  <2> HIDE DEF subtotal
  <2>4. QED
    BY <2>2, <2>3, HalfAssumption DEF Int64, MaxInt
<1>4. /\ credits.applied = SumOver(Takes(subtotal, grants), DOMAIN grants)
      /\ DOMAIN credits.left = DOMAIN grants
      /\ \A i \in DOMAIN grants :
            /\ credits.left[i] = grants[i] - Take(subtotal, grants, i)
            /\ credits.left[i] \in 0 .. grants[i]
      /\ IsFiniteSet(credits.lines)
      /\ credits.lines \subseteq LineRow
  <2> HIDE DEF subtotal, nextPos
  <2>1. QED
    BY <1>2, <1>3, CreditsFit
<1>5. credits.applied \in 0 .. subtotal
  <2>1. subtotal \in Nat
    BY <1>3
  <2> HIDE DEF subtotal
  <2>2. QED
    BY <1>4, <2>1, TakenIsSmaller
<1>6. Wrap(subtotal - credits.applied) = subtotal - credits.applied
  <2> HIDE DEF subtotal, credits
  <2>1. subtotal - credits.applied \in Int64
    BY <1>3, <1>5, HalfAssumption DEF Int64, MaxInt
  <2>2. QED
    BY <2>1, WrapFits
<1>7. IsFiniteSet(lines \cup credits.lines) /\ lines \cup credits.lines \subseteq LineRow
  BY <1>2, <1>4, FS_Union
<1> HIDE DEF lines, subtotal, credits, bill
<1>8. QED
  BY <1>1, <1>3, <1>4, <1>5, <1>6, <1>7 DEF lines, subtotal, bill
-----------------------------------------------------------------------------
(* The lines *)

\* The places of the members of K are 1, 2, 3, ..., one for each.
LEMMA RankBijects ==
  ASSUME NEW K, IsFiniteSet(K), K \subseteq Nat
  PROVE  /\ \A i, j \in K : Rank(K, i) = Rank(K, j) => i = j
         /\ {Rank(K, i) : i \in K} = 1 .. Cardinality(K)
<1> DEFINE f == [i \in K |-> Rank(K, i)]
           n == Cardinality(K)
           upTo(i) == {j \in K : j <= i}
<1>1. n \in Nat
  BY FS_CardinalityType
<1>2. \A i \in K : IsFiniteSet(upTo(i)) /\ Cardinality(upTo(i)) \in Nat
  BY FS_Subset, FS_CardinalityType
<1>3. ASSUME NEW i \in K, NEW j \in K, i < j
      PROVE  Rank(K, i) < Rank(K, j)
  <2>1. upTo(i) \in SUBSET upTo(j) /\ j \in upTo(j) /\ j \notin upTo(i)
    <3>1. i \in Nat /\ j \in Nat /\ \A k \in K : k \in Nat /\ (k <= i => k <= j)
      BY <1>3
    <3>2. j <= j /\ ~ (j <= i)
      BY <1>3, <3>1
    <3>3. QED
      BY <3>1, <3>2
  <2> HIDE DEF upTo
  <2>2. Cardinality(upTo(i)) <= Cardinality(upTo(j)) /\ Cardinality(upTo(i)) # Cardinality(upTo(j))
    BY <1>2, <2>1, FS_Subset
  <2>3. QED
    BY <1>2, <2>2 DEF Rank, upTo
<1>4. ASSUME NEW i \in K
      PROVE  Rank(K, i) \in 1 .. n
  <2>1. upTo(i) \in SUBSET K /\ i \in upTo(i)
    OBVIOUS
  <2> HIDE DEF upTo
  <2>2. Cardinality(upTo(i)) <= n
    BY <2>1, FS_Subset
  <2>3. Cardinality(upTo(i)) # 0
    BY <1>2, <2>1, FS_EmptySet
  <2> HIDE DEF n
  <2>4. QED
    BY <1>1, <1>2, <2>2, <2>3 DEF Rank, upTo
<1>5. \A i, j \in K : Rank(K, i) = Rank(K, j) => i = j
  <2> HIDE DEF n
  <2>1. QED
    BY <1>3, <1>4
<1>6. f \in Injection(K, 1 .. n)
  BY <1>4, <1>5 DEF Injection, IsInjective
<1>7. IsFiniteSet(1 .. n) /\ Cardinality(1 .. n) = n
  BY <1>1, FS_Interval
<1>8. f \in Surjection(K, 1 .. n)
  <2> HIDE DEF f
  <2>1. QED
    BY <1>6, <1>7, FS_Injection
<1>9. {Rank(K, i) : i \in K} = 1 .. n
  BY <1>4, <1>8 DEF Surjection
<1>10. QED
  BY <1>5, <1>9

\* The row of each member of K has its place, counted on from n.
NumberedOn(r, K, n) == \A i \in K : r[i].position = n + Rank(K, i)

\* The positions of the rows are those from a to b.
Gapless(Rows, a, b) == /\ \A l \in Rows : l.position \in a .. b
                       /\ \A p \in a .. b : \E l \in Rows : l.position = p

\* Rows that are numbered on from n: no two are the same, as many as there are
\* numbers, and their positions without a gap.
LEMMA Numbered ==
  ASSUME NEW K, IsFiniteSet(K), K \subseteq Nat, NEW n \in Nat,
         NEW r, NumberedOn(r, K, n), NEW Rows, Enumerates(r, K, Rows)
  PROVE  /\ OneToOne(r, K)
         /\ IsFiniteSet(Rows)
         /\ Cardinality(Rows) = Cardinality(K)
         /\ Gapless(Rows, n + 1, n + Cardinality(K))
<1> DEFINE c == Cardinality(K)
           f == [i \in K |-> r[i]]
<1>1. /\ \A i, j \in K : Rank(K, i) = Rank(K, j) => i = j
      /\ {Rank(K, i) : i \in K} = 1 .. c
      /\ c \in Nat
  BY RankBijects, FS_CardinalityType
<1>2. \A i \in K : Rank(K, i) \in 1 .. c
  BY <1>1
<1>3. \A i, j \in K : r[i] = r[j] => i = j
  <2> HIDE DEF c
  <2>1. ASSUME NEW i \in K, NEW j \in K, r[i] = r[j]
        PROVE  i = j
    <3>1. n + Rank(K, i) = n + Rank(K, j)
      BY <2>1 DEF NumberedOn
    <3>2. Rank(K, i) \in Nat /\ Rank(K, j) \in Nat
      BY RankType
    <3>3. Rank(K, i) = Rank(K, j)
      BY <3>1, <3>2
    <3>4. QED
      BY <1>1, <3>3
  <2>2. QED
    BY <2>1
<1>4. f \in Bijection(K, Rows)
  BY <1>3 DEF Bijection, Injection, IsInjective, Surjection, Enumerates
<1>5. IsFiniteSet(Rows) /\ Cardinality(Rows) = c
  <2>1. ExistsBijection(K, Rows)
    BY <1>4 DEF ExistsBijection
  <2>2. QED
    BY <2>1, FS_Bijection
<1>6. ASSUME NEW l \in Rows
      PROVE  l.position \in n + 1 .. n + c
  <2>1. PICK i \in K : l = r[i]
    BY DEF Enumerates
  <2> HIDE DEF c
  <2>2. QED
    BY <1>1, <1>2, <2>1 DEF NumberedOn
<1>7. ASSUME NEW p \in n + 1 .. n + c
      PROVE  \E l \in Rows : l.position = p
  <2> HIDE DEF c
  <2>1. p - n \in 1 .. c /\ p \in Int
    BY <1>1
  <2>2. PICK i \in K : p - n = Rank(K, i)
    BY <1>1, <2>1
  <2>3. p = n + Rank(K, i)
    BY <2>1, <2>2
  <2>4. r[i].position = p /\ r[i] \in Rows
    BY <2>3 DEF NumberedOn, Enumerates
  <2>5. QED
    BY <2>4
<1>8. QED
  BY <1>3, <1>5, <1>6, <1>7 DEF OneToOne, Gapless

\* The tiers with a line, by number.
LEMMA TiersBilled ==
  ASSUME NEW units \in Nat, NEW tiers \in Tiers, NEW i \in BilledTiers(units, tiers)
  PROVE  /\ i \in 1 .. Len(tiers) /\ Len(tiers) \in Nat
         /\ tiers[i] \in [from : Nat, to : Nat \cup {NoLimit}, price : Nat]
         /\ Quantity(units, tiers[i]) \in Nat
<1> DEFINE R == [from : Nat, to : Nat \cup {NoLimit}, price : Nat]
<1>1. i \in 1 .. Len(tiers) /\ Len(tiers) \in Nat /\ tiers \in Seq(R)
  BY DEF BilledTiers, Reached, Tiers
<1>2. tiers[i] \in R
  <2> HIDE DEF R
  <2>1. QED
    BY <1>1
<1>3. Quantity(units, tiers[i]) \in Nat
  BY <1>2 DEF Quantity, BilledTiers, NoLimit
<1>4. QED
  BY <1>1, <1>2, <1>3

\* The sum of the tier lines is what the quantities cost, up to the width.
LEMMA TierAmounts ==
  ASSUME NEW units \in Nat, NEW tiers \in Tiers,
         NEW cost, \A i \in BilledTiers(units, tiers) :
                      cost[i] = Quantity(units, tiers[i]) * tiers[i].price
  PROVE  /\ Cardinality(PriceUnits(units, tiers)) = Cardinality(BilledTiers(units, tiers))
         /\ Gapless(PriceUnits(units, tiers), 1, Cardinality(BilledTiers(units, tiers)))
         /\ SumAmounts(PriceUnits(units, tiers)) = Wrap(SumOver(cost, BilledTiers(units, tiers)))
<1> DEFINE B == BilledTiers(units, tiers)
           L == PriceUnits(units, tiers)
           r == [i \in B |-> TierLine(units, tiers, i)]
           amount == [l \in L |-> l.amount]
           wrapped == [i \in B |-> Wrap(cost[i])]
           d == [i \in B |-> CHOOSE k \in Int : Wrap(cost[i]) = cost[i] + k * (2 * Half)]
<1>1. IsFiniteSet(B) /\ B \subseteq Nat /\ Enumerates(r, B, L)
  <2>1. Enumerates(r, B, L)
    BY DEF PriceUnits, Enumerates
  <2>2. QED
    BY <2>1, TierLines, TiersBilled
<1>2. \A i \in B : cost[i] \in Int
  <2> SUFFICES ASSUME NEW i \in B
               PROVE  cost[i] \in Int
    OBVIOUS
  <2>1. tiers[i].price \in Nat /\ Quantity(units, tiers[i]) \in Nat
    BY TiersBilled
  <2>2. Quantity(units, tiers[i]) * tiers[i].price \in Int
    BY <2>1
  <2>3. QED
    BY <2>2
<1>3. \A i \in B : /\ r[i].position = 0 + Rank(B, i)
                   /\ r[i].amount = Wrap(cost[i])
  <2> SUFFICES ASSUME NEW i \in B
               PROVE  r[i].position = 0 + Rank(B, i) /\ r[i].amount = Wrap(cost[i])
    OBVIOUS
  <2>1. Rank(B, i) \in Nat
    <3> HIDE DEF B
    <3>1. QED
      BY <1>1, RankType
  <2>2. r[i].position = Rank(B, i) /\ r[i].amount = Wrap(cost[i])
    BY DEF TierLine
  <2> HIDE DEF r, B
  <2>3. QED
    BY <2>1, <2>2
<1> HIDE DEF B, r
<1>4. /\ OneToOne(r, B)
      /\ Cardinality(L) = Cardinality(B)
      /\ Gapless(L, 0 + 1, 0 + Cardinality(B))
  <2>1. 0 \in Nat /\ NumberedOn(r, B, 0)
    BY <1>3 DEF NumberedOn
  <2> HIDE DEF L
  <2>2. QED
    BY <1>1, <2>1, Numbered
<1>5. Cardinality(B) \in Nat
  BY <1>1, FS_CardinalityType
<1>6. \A i \in B : wrapped[i] = cost[i] + d[i] * (2 * Half) /\ d[i] \in Int /\ wrapped[i] \in Int
  <2> SUFFICES ASSUME NEW i \in B
               PROVE  wrapped[i] = cost[i] + d[i] * (2 * Half) /\ d[i] \in Int /\ wrapped[i] \in Int
    OBVIOUS
  <2>1. \E k \in Int : Wrap(cost[i]) = cost[i] + k * (2 * Half)
    BY <1>2, WrapShifts
  <2>2. wrapped[i] \in Int
    BY <1>2, WrapType, HalfAssumption DEF Int64
  <2>3. QED
    BY <2>1, <2>2
<1>7. SumOver(amount, L) = SumOver(wrapped, B)
  <2>1. \A i \in B : amount[r[i]] \in Int /\ wrapped[i] = amount[r[i]]
    <3> HIDE DEF d
    <3>1. \A i \in B : r[i] \in L
      BY <1>1 DEF Enumerates
    <3>2. QED
      BY <1>3, <1>6, <3>1
  <2> HIDE DEF amount, wrapped, L
  <2>2. QED
    <3>1. Carries(amount, r, wrapped, B)
      BY <2>1 DEF Carries
    <3>2. QED
      BY <1>1, <1>4, <3>1, SumImage
<1>8. Wrap(SumOver(wrapped, B)) = Wrap(SumOver(cost, B))
  <2> DEFINE w == 2 * Half
  <2>1. w \in Int
    BY HalfAssumption
  <2>2. ApartBy(w, wrapped, cost, d, B)
    BY <1>2, <1>6 DEF ApartBy
  <2> HIDE DEF wrapped, d, w
  <2>3. PICK k \in Int : SumOver(wrapped, B) = SumOver(cost, B) + k * w
    BY <1>1, <2>1, <2>2, SumModulo
  <2>4. SumOver(cost, B) \in Int
    BY <1>1, <1>2, SumType
  <2>5. QED
    BY <2>3, <2>4, WrapLoses DEF w
<1>9. QED
  <2>1. SumAmounts(L) = Wrap(SumOver(amount, L))
    BY DEF SumAmounts
  <2>2. 0 + 1 = 1 /\ 0 + Cardinality(B) = Cardinality(B)
    BY <1>5
  <2> HIDE DEF amount, wrapped, d
  <2>3. QED
    BY <1>4, <1>7, <1>8, <2>1, <2>2 DEF B
\* The numbers wrap to the same int64.
Congruent(a, b) == \E k \in Int : a = b + k * (2 * Half)

Amounts(lines) == [l \in lines |-> l.amount]

\* The credit lines are numbered on from n, one for each grant used, and their
\* sum is what was taken, negated, up to the width.
CreditsListed(C, subtotal, grants, n) ==
    LET c == Cardinality(Used(subtotal, grants))
    IN  /\ IsFiniteSet(C) /\ Cardinality(C) = c /\ c \in Nat
        /\ Gapless(C, n + 1, n + c)
        /\ \A l \in C : l.kind = "credit" /\ l.amount \in Int
        /\ Congruent(SumOver(Amounts(C), C),
                     0 - SumOver(Takes(subtotal, grants), DOMAIN grants))

\* That is what ApplyCredits returns.
LEMMA CreditAmounts ==
  ASSUME NEW subtotal \in Int, NEW grants, Open(grants), NEW n \in Nat,
         NEW C, C = ApplyCredits(subtotal, grants, n + 1).lines
  PROVE  CreditsListed(C, subtotal, grants, n)
<1> DEFINE U == Used(subtotal, grants)
           D == DOMAIN grants
           take == Takes(subtotal, grants)
           r == [i \in U |-> CreditLine(subtotal, grants, n + 1, i)]
           amount == Amounts(C)
           back == [i \in U |-> 0 - Take(subtotal, grants, i)]
           wrapped == [i \in U |-> Wrap(0 - Take(subtotal, grants, i))]
           d == [i \in U |-> CHOOSE k \in Int : wrapped[i] = back[i] + k * (2 * Half)]
<1>1. IsFiniteSet(D) /\ IsFiniteSet(U) /\ U \subseteq D /\ U \subseteq Nat
  BY FS_Subset DEF Open, Used
<1>2. \A i \in D : take[i] \in Int /\ take[i] = Take(subtotal, grants, i)
  BY TakeType DEF Takes
<1>3. Enumerates(r, U, C)
  BY DEF ApplyCredits, Enumerates
<1>4. \A i \in U : /\ r[i].kind = "credit" /\ r[i].amount = wrapped[i]
                   /\ r[i].position = CreditPosition(n + 1, Rank(U, i))
  BY DEF CreditLine
<1>5. \A i \in U : /\ back[i] \in Int /\ wrapped[i] \in Int /\ d[i] \in Int
                   /\ wrapped[i] = back[i] + d[i] * (2 * Half)
  <2> SUFFICES ASSUME NEW i \in U
               PROVE  /\ back[i] \in Int /\ wrapped[i] \in Int /\ d[i] \in Int
                      /\ wrapped[i] = back[i] + d[i] * (2 * Half)
    OBVIOUS
  <2>1. back[i] \in Int /\ wrapped[i] = Wrap(back[i])
    BY <1>1, <1>2
  <2>2. \E k \in Int : wrapped[i] = back[i] + k * (2 * Half)
    <3> HIDE DEF back, wrapped
    <3>1. QED
      BY <2>1, WrapShifts
  <2>3. wrapped[i] \in Int
    <3> HIDE DEF back, wrapped
    <3>1. QED
      BY <2>1, WrapType, HalfAssumption DEF Int64
  <2>4. d[i] = CHOOSE k \in Int : wrapped[i] = back[i] + k * (2 * Half)
    OBVIOUS
  <2> HIDE DEF back, wrapped, d
  <2>5. QED
    BY <2>1, <2>2, <2>3, <2>4
<1> HIDE DEF r, d, back, wrapped
<1>6. NumberedOn(r, U, n)
  <2> SUFFICES ASSUME NEW i \in U
               PROVE  r[i].position = n + Rank(U, i)
    BY DEF NumberedOn
  <2>1. Rank(U, i) \in Nat
    <3> HIDE DEF U
    <3>1. QED
      BY <1>1, RankType
  <2> HIDE DEF U
  <2>2. QED
    BY <1>4, <2>1 DEF CreditPosition
<1>7. /\ OneToOne(r, U) /\ IsFiniteSet(C) /\ Cardinality(C) = Cardinality(U)
      /\ Gapless(C, n + 1, n + Cardinality(U))
      /\ Cardinality(U) \in Nat
  <2> HIDE DEF U
  <2>1. QED
    BY <1>1, <1>3, <1>6, Numbered, FS_CardinalityType
<1>8. \A l \in C : l.kind = "credit" /\ l.amount \in Int
  <2> HIDE DEF U
  <2>1. QED
    BY <1>3, <1>4, <1>5 DEF Enumerates
<1>9. SumOver(amount, C) = SumOver(wrapped, U)
  <2>1. \A i \in U : amount[r[i]] = r[i].amount
    BY <1>3 DEF Enumerates, Amounts
  <2>2. Carries(amount, r, wrapped, U)
    <3> HIDE DEF U, amount
    <3>1. QED
      BY <1>4, <1>5, <2>1 DEF Carries
  <2> HIDE DEF U, amount
  <2>3. QED
    BY <1>1, <1>3, <1>7, <2>2, SumImage
<1>10. PICK k \in Int : SumOver(wrapped, U) = SumOver(back, U) + k * (2 * Half)
  <2> DEFINE w == 2 * Half
  <2>1. w \in Int
    BY HalfAssumption
  <2>2. ApartBy(w, wrapped, back, d, U)
    <3> HIDE DEF U
    <3>1. QED
      BY <1>5 DEF ApartBy
  <2> HIDE DEF U, w
  <2>3. \E k \in Int : SumOver(wrapped, U) = SumOver(back, U) + k * w
    BY <1>1, <2>1, <2>2, SumModulo
  <2>4. QED
    BY <2>3 DEF w
<1>11. SumOver(take, D) = SumOver(take, U)
  <2>1. D = U \cup (D \ U) /\ U \cap (D \ U) = {} /\ IsFiniteSet(D \ U)
    BY <1>1, FS_Subset
  <2>2. \A i \in D \ U : take[i] = 0
    BY <1>2 DEF Used
  <2> HIDE DEF U, D, take
  <2>3. SumOver(take, D \ U) = 0
    BY <2>1, <2>2, SumZero
  <2>4. SumOver(take, U) \in Int
    BY <1>1, <1>2, SumType
  <2>5. SumOver(take, U \cup (D \ U)) = SumOver(take, U) + SumOver(take, D \ U)
    BY <1>1, <1>2, <2>1, SumUnion
  <2>6. QED
    BY <2>1, <2>3, <2>4, <2>5
<1>12. SumOver(back, U) = 0 - SumOver(take, U)
  <2> DEFINE nothing == [i \in U |-> 0]
  <2>1. \A i \in U : nothing[i] = back[i] + take[i]
    BY <1>1, <1>2 DEF back
  <2>2. \A i \in U : nothing[i] = 0
    OBVIOUS
  <2> HIDE DEF nothing, U, take
  <2>3. \A i \in U : back[i] \in Int /\ take[i] \in Int
    BY <1>1, <1>2, <1>5
  <2>4. SumOver(nothing, U) = 0
    BY <1>1, <2>2, SumZero
  <2>5. SumOver(nothing, U) = SumOver(back, U) + SumOver(take, U)
    BY <1>1, <2>1, <2>3, SumPlus
  <2>6. SumOver(back, U) \in Int /\ SumOver(take, U) \in Int
    BY <1>1, <2>3, SumType
  <2>7. QED
    BY <2>4, <2>5, <2>6
<1>13. QED
  <2>1. SumOver(amount, C) = 0 - SumOver(take, D) + k * (2 * Half)
    <3> HIDE DEF amount, U, take, D
    <3>1. QED
      BY <1>9, <1>10, <1>11, <1>12
  <2>2. Congruent(SumOver(amount, C), 0 - SumOver(take, D))
    BY <2>1 DEF Congruent
  <2>3. QED
    BY <1>7, <1>8, <2>2 DEF CreditsListed

\* Rows numbered from 1 and rows numbered on from their last: all are without
\* a gap.
LEMMA GaplessTogether ==
  ASSUME NEW L, NEW C, NEW n \in Nat, NEW c \in Nat,
         Gapless(L, 1, n), Gapless(C, n + 1, n + c)
  PROVE  Gapless(L \cup C, 1, n + c)
<1>1. ASSUME NEW p \in 1 .. n + c
      PROVE  \E l \in L \cup C : l.position = p
  <2>1. p \in 1 .. n \/ p \in n + 1 .. n + c
    OBVIOUS
  <2>2. QED
    BY <2>1 DEF Gapless
<1>2. ASSUME NEW l \in L \cup C
      PROVE  l.position \in 1 .. n + c
  <2>1. l.position \in 1 .. n \/ l.position \in n + 1 .. n + c
    BY DEF Gapless
  <2>2. QED
    BY <2>1
<1>3. QED
  BY <1>1, <1>2 DEF Gapless

\* A bill's lines add up to its total, whether or not its subtotal fits, and are
\* numbered 1, 2, 3, ...
LEMMA BillAddsUp ==
  ASSUME NEW units \in Nat, NEW tiers \in Tiers, NEW grants, Open(grants),
         NEW bill, bill = Bill(units, tiers, grants)
  PROVE  /\ SumAmounts(bill.lines) = bill.total
         /\ {l.position : l \in bill.lines} = 1 .. Cardinality(bill.lines)
<1> DEFINE L == PriceUnits(units, tiers)
           n == Cardinality(L)
           subtotal == SumAmounts(L)
           C == ApplyCredits(subtotal, grants, n + 1).lines
           c == Cardinality(Used(subtotal, grants))
           taken == SumOver(Takes(subtotal, grants), DOMAIN grants)
           amount == [l \in L \cup C |-> l.amount]
           ofL == [l \in L |-> l.amount]
           ofC == Amounts(C)
           w == 2 * Half
<1>1. /\ bill.lines = L \cup C
      /\ bill.total = Wrap(subtotal - Wrap(taken))
  BY DEF Bill, ApplyCredits, Takes
<1>2. /\ IsFiniteSet(L) /\ n \in Nat /\ Gapless(L, 1, n)
      /\ \A l \in L : l.kind = "tier" /\ l.amount \in Int
  <2> DEFINE cost == [i \in BilledTiers(units, tiers) |->
                        Quantity(units, tiers[i]) * tiers[i].price]
  <2>1. \A i \in BilledTiers(units, tiers) :
           cost[i] = Quantity(units, tiers[i]) * tiers[i].price
    OBVIOUS
  <2> HIDE DEF cost
  <2>2. n = Cardinality(BilledTiers(units, tiers)) /\ Gapless(L, 1, n)
    BY <2>1, TierAmounts
  <2>3. IsFiniteSet(L) /\ \A l \in L : l.amount \in Int64
    BY TierLines
  <2>4. \A l \in L : l.kind = "tier"
    BY DEF PriceUnits, TierLine
  <2>5. n \in Nat
    BY <2>3, FS_CardinalityType
  <2> HIDE DEF L, n
  <2>6. QED
    BY <2>2, <2>3, <2>4, <2>5, HalfAssumption DEF Int64
<1>3. subtotal = Wrap(SumOver(ofL, L)) /\ SumOver(ofL, L) \in Int /\ subtotal \in Int
  <2>1. subtotal = Wrap(SumOver(ofL, L))
    BY DEF SumAmounts
  <2>2. \A l \in L : ofL[l] \in Int
    BY <1>2
  <2> HIDE DEF subtotal, ofL, L
  <2>3. SumOver(ofL, L) \in Int
    BY <1>2, <2>2, SumType
  <2>4. QED
    BY <2>1, <2>3, WrapType, HalfAssumption DEF Int64
<1> HIDE DEF L, n, subtotal, w
<1>4. /\ IsFiniteSet(C) /\ Cardinality(C) = c /\ c \in Nat
      /\ Gapless(C, n + 1, n + c)
      /\ \A l \in C : l.kind = "credit" /\ l.amount \in Int
      /\ Congruent(SumOver(ofC, C), 0 - taken)
  <2>1. C = ApplyCredits(subtotal, grants, n + 1).lines
    OBVIOUS
  <2> HIDE DEF C
  <2>2. CreditsListed(C, subtotal, grants, n)
    BY <1>2, <1>3, <2>1, CreditAmounts
  <2>3. QED
    BY <2>2 DEF CreditsListed
<1> HIDE DEF C, c
<1>5. taken \in Int
  <2> DEFINE take == Takes(subtotal, grants)
             D == DOMAIN grants
  <2>1. \A i \in D : take[i] \in Int
    BY <1>3, TakeType DEF Takes
  <2>2. IsFiniteSet(D)
    BY DEF Open
  <2> HIDE DEF take, D
  <2>3. SumOver(take, D) \in Int
    BY <2>1, <2>2, SumType
  <2>4. QED
    BY <2>3 DEF take, D
<1> HIDE DEF taken
<1>6. L \cap C = {}
  BY <1>2, <1>4
<1>7. {l.position : l \in bill.lines} = 1 .. Cardinality(bill.lines)
  <2>1. Cardinality(L \cup C) = n + c
    <3>1. Cardinality(L \cup C) = Cardinality(L) + Cardinality(C) - Cardinality(L \cap C)
      BY <1>2, <1>4, FS_Union
    <3>2. Cardinality(L \cap C) = 0
      BY <1>6, FS_EmptySet
    <3>3. QED
      BY <1>2, <1>4, <3>1, <3>2 DEF n
  <2>2. Gapless(L \cup C, 1, n + c)
    BY <1>2, <1>4, GaplessTogether
  <2>3. {l.position : l \in L \cup C} = 1 .. n + c
    BY <2>2 DEF Gapless
  <2>4. QED
    BY <1>1, <2>1, <2>3
<1>8. SumOver(amount, L \cup C) = SumOver(ofL, L) + SumOver(ofC, C)
  <2>1. /\ \A l \in L : amount[l] = ofL[l]
        /\ \A l \in C : amount[l] = ofC[l]
        /\ \A l \in L \cup C : amount[l] \in Int
    BY <1>2, <1>4 DEF Amounts
  <2> HIDE DEF amount, ofL, ofC
  <2>2. SumOver(amount, L \cup C) = SumOver(amount, L) + SumOver(amount, C)
    BY <1>2, <1>4, <1>6, <2>1, SumUnion
  <2>3. SumOver(amount, L) = SumOver(ofL, L) /\ SumOver(amount, C) = SumOver(ofC, C)
    BY <1>2, <1>4, <2>1, SumSame
  <2>4. QED
    BY <2>2, <2>3
<1>9. SumAmounts(L \cup C) = Wrap(SumOver(amount, L \cup C))
  BY DEF SumAmounts
<1>10. PICK k \in Int : SumOver(ofC, C) = 0 - taken + k * w
  BY <1>4 DEF Congruent, w
<1>11. PICK a \in Int : subtotal = SumOver(ofL, L) + a * w
  <2> HIDE DEF ofL
  <2>1. QED
    BY <1>3, WrapShifts DEF w
<1>12. PICK b \in Int : Wrap(taken) = taken + b * w
  BY <1>5, WrapShifts DEF w
<1> DEFINE x == SumOver(ofL, L)
           m == a - b - k
           y == SumOver(amount, L \cup C)
<1>13. x \in Int /\ y = x - taken + k * w /\ subtotal - Wrap(taken) = y + m * w
  <2>1. w \in Int /\ x \in Int
    BY <1>3, HalfAssumption DEF w
  <2>2. a * w \in Int /\ b * w \in Int /\ k * w \in Int
    BY <2>1
  <2>3. m * w = a * w - b * w - k * w
    BY <2>1
  <2>4. y = x + (0 - taken + k * w) /\ subtotal = x + a * w
    BY <1>8, <1>10, <1>11
  <2> HIDE DEF m, x, y
  <2>5. QED
    BY <1>5, <1>12, <2>1, <2>2, <2>3, <2>4
<1>14. y \in Int /\ m \in Int
  <2>1. k * w \in Int
    BY HalfAssumption DEF w
  <2> HIDE DEF x, y
  <2>2. QED
    BY <1>5, <1>13, <2>1
<1>15. Wrap(subtotal - Wrap(taken)) = Wrap(y)
  <2> HIDE DEF x, y, m
  <2>1. Wrap(y + m * w) = Wrap(y)
    BY <1>14, WrapLoses DEF w
  <2>2. QED
    BY <1>13, <2>1
<1>16. QED
  BY <1>1, <1>7, <1>9, <1>15
==============================================================================
