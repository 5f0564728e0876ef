------------------------------- MODULE Pricing -------------------------------
(***************************************************************************)
(* The arithmetic of an invoice (internal/services/price.go): tier lines,  *)
(* their sum, and the credits taken from it, in integers of a fixed width. *)
(***************************************************************************)
EXTENDS Sums

CONSTANT Half   \* an int64 is in -Half .. Half - 1; in the code Half is 2^63

ASSUME HalfAssumption == Half \in Nat \ {0}

MaxInt == Half - 1

\* What int64 arithmetic makes of a result.
Wrap(n) == ((n + Half) % (2 * Half)) - Half

\* price_plan_tiers.to_units is NULL in the open tier.
NoLimit == 0 - 1

-----------------------------------------------------------------------------
(* PriceUnits *)

\* The tiers the loop gets to: it breaks at the first one that starts at or
\* above the units.
Reached(units, tiers) ==
    {i \in DOMAIN tiers : \A j \in 1 .. i : units > tiers[j].from}

\* Mutated form: the upper bound of a tier belongs to it.
QuantityInclusive(units, t) ==
    (IF t.to # NoLimit /\ t.to + 1 < units THEN t.to + 1 ELSE units) - t.from

\* hi - t.From
Quantity(units, t) ==
    (IF t.to # NoLimit /\ t.to < units THEN t.to ELSE units) - t.from

\* The tiers that get a line.
BilledTiers(units, tiers) ==
    {i \in Reached(units, tiers) : Quantity(units, tiers[i]) > 0}

\* How many members of a set of numbers come up to n: the place of n among them.
Rank(K, n) == Cardinality({j \in K : j <= n})

TierLine(units, tiers, i) ==
    [kind     |-> "tier",
     quantity |-> Quantity(units, tiers[i]),
     amount   |-> Wrap(Quantity(units, tiers[i]) * tiers[i].price),
     position |-> Rank(BilledTiers(units, tiers), i)]

\* The lines of the tiers, as rows: their positions tell their order.
PriceUnits(units, tiers) ==
    {TierLine(units, tiers, i) : i \in BilledTiers(units, tiers)}

\* Sums that wrap at every step are the sum of all, wrapped.
SumAmounts(lines) == Wrap(SumOver([l \in lines |-> l.amount], lines))

-----------------------------------------------------------------------------
(* ApplyCredits *)

Smaller(a, b) == IF a < b THEN a ELSE b

\* The open grants of a customer are a function: number of the grant, oldest
\* first, -> remaining_micros.

\* Mutated form: the need is not reduced by what was taken.
NeedUnreduced(subtotal, grants) == [n \in Nat |-> subtotal]

\* What is still to be covered after the grants up to number n.
Need(subtotal, grants) ==
    LET need[n \in Nat] ==
            CASE n = 0 -> subtotal
              [] n # 0 /\ n \in DOMAIN grants ->
                    need[n - 1] - Smaller(grants[n], need[n - 1])
              [] OTHER -> need[n - 1]
    IN  need

\* Mutated form: the newest grant is used first.
TakeNewestFirst(subtotal, grants, i) ==
    LET n == Cardinality(DOMAIN grants)
        newest == [j \in 1 .. n |-> grants[n + 1 - j]]
    IN  Smaller(grants[i], Need(subtotal, newest)[n - i])

\* What the loop takes from grant i.  Of a subtotal that has wrapped to a
\* negative number it takes all at once, and the grant grows.
Take(subtotal, grants, i) == Smaller(grants[i], Need(subtotal, grants)[i - 1])

\* Mutated form: pos is not advanced.
CreditPositionStuck(nextPos, k) == nextPos

CreditPosition(nextPos, k) == nextPos + k - 1

\* The grants something is taken from.
Used(subtotal, grants) == {i \in DOMAIN grants : Take(subtotal, grants, i) # 0}

CreditLine(subtotal, grants, nextPos, i) ==
    [kind     |-> "credit",
     quantity |-> 0,
     amount   |-> Wrap(0 - Take(subtotal, grants, i)),
     position |-> CreditPosition(nextPos, Rank(Used(subtotal, grants), i))]

\* The credit lines, numbered on from nextPos, what was applied in all, and
\* what is left of every grant read.
ApplyCredits(subtotal, grants, nextPos) ==
    [lines   |-> {CreditLine(subtotal, grants, nextPos, i) : i \in Used(subtotal, grants)},
     applied |-> Wrap(SumOver([i \in DOMAIN grants |-> Take(subtotal, grants, i)],
                              DOMAIN grants)),
     left    |-> [i \in DOMAIN grants |-> Wrap(grants[i] - Take(subtotal, grants, i))]]

\* issueOne: the invoice for so many units.
Bill(units, tiers, grants) ==
    LET lines == PriceUnits(units, tiers)
        subtotal == SumAmounts(lines)
        credits == ApplyCredits(subtotal, grants, Cardinality(lines) + 1)
    IN  [subtotal |-> subtotal,
         credit   |-> credits.applied,
         total    |-> Wrap(subtotal - credits.applied),
         lines    |-> lines \cup credits.lines,
         left     |-> credits.left]

\* The CHECKs on invoices and credit_grants let the bill in.
Storable(bill) == /\ bill.subtotal >= 0 /\ bill.credit >= 0 /\ bill.total >= 0
                  /\ \A i \in DOMAIN bill.left : bill.left[i] >= 0
==============================================================================
