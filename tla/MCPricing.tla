----------------------------- MODULE MCPricing -----------------------------
(***************************************************************************)
(* Pricing over bounded inputs: every usage up to MaxUnits, every plan of  *)
(* up to AnyTiers tiers the schema lets in, and of up to MaxTiers without  *)
(* gaps, with bounds up to MaxBound, and every list of up to MaxGrants     *)
(* grants.  Half is small, so that some subtotals do not fit.  The one     *)
(* step prices the input; the properties compare the bill with definitions *)
(* that know no loop.                                                      *)
(***************************************************************************)
EXTENDS Pricing, Sequences

CONSTANTS MaxUnits, AnyTiers, MaxTiers, MaxBound, MaxPrice, MaxGrants, MaxGrant

\* credit_grants.remaining_micros is a bigint: a grant fits.
ASSUME SizeAssumption == /\ {MaxUnits, AnyTiers, MaxTiers, MaxBound,
                            MaxPrice, MaxGrants} \subseteq Nat
                         /\ MaxGrant \in 0 .. MaxInt

VARIABLES units, tiers, grants, bill

vars == <<units, tiers, grants, bill>>

NoBill == [lines |-> {}]

\* The checks on price_plan_tiers: to_units NULL or above from_units.
Tier == {t \in [from : 0 .. MaxBound, to : 1 .. MaxBound \cup {NoLimit},
                price : 0 .. MaxPrice] : t.to = NoLimit \/ t.to > t.from}

\* The plans that make sense: from 0, without gaps, open at the end.  The
\* schema does not require it; the one plan of the migration is like this.
Contiguous(ts) ==
    /\ Len(ts) > 0
    /\ ts[1].from = 0
    /\ \A i \in 1 .. Len(ts) - 1 : ts[i].to = ts[i + 1].from
    /\ ts[Len(ts)].to = NoLimit

Plans == {ts \in UNION {[1 .. n -> Tier] : n \in 1 .. MaxTiers} :
            Len(ts) <= AnyTiers \/ Contiguous(ts)}

Grants == UNION {[1 .. n -> 1 .. MaxGrant] : n \in 0 .. MaxGrants}

Init == /\ units \in 1 .. MaxUnits
        /\ tiers \in Plans
        /\ grants \in Grants
        /\ bill = NoBill

Price == /\ bill = NoBill
         /\ bill' = Bill(units, tiers, grants)
         /\ UNCHANGED <<units, tiers, grants>>

Next == Price

Spec == Init /\ [][Next]_vars

-----------------------------------------------------------------------------

Billed == bill # NoBill

\* The price of the u-th unit: that of the tier it falls in.
UnitPrice(u) ==
    LET i == CHOOSE i \in DOMAIN tiers :
                tiers[i].from < u /\ (tiers[i].to = NoLimit \/ u <= tiers[i].to)
    IN  tiers[i].price

\* Under a plan without gaps, the tier lines add up to the price of the units
\* one by one: no boundary unit is charged twice, dropped or mispriced.  A sum
\* that fits is exact, even if it is reached through lines that wrapped.
TierSumIsUnitSum ==
    Billed /\ Contiguous(tiers) =>
        bill.subtotal = Wrap(SumOver([u \in 1 .. units |-> UnitPrice(u)], 1 .. units))

Available == SumOver(grants, DOMAIN grants)

\* Credits cover as much of the subtotal as there is, never more.
CreditsCoverWhatTheyCan ==
    Billed /\ bill.subtotal >= 0 => bill.credit = Smaller(Available, bill.subtotal)

\* What a grant loses is what its line shows, and a grant is touched only when
\* every older one is used up.
OldestGrantFirst ==
    Billed /\ bill.subtotal >= 0 =>
        /\ \A i \in DOMAIN grants : bill.left[i] \in 0 .. grants[i]
        /\ \A i, j \in DOMAIN grants :
              i < j /\ bill.left[j] < grants[j] => bill.left[i] = 0
        /\ bill.credit = Available - SumOver(bill.left, DOMAIN grants)

\* The lines of the invoice, tiers and credits, add up to its total, and their
\* positions are 1, 2, 3, ... without a gap or a repetition.  Credits are never
\* what the schema's CHECKs refuse: that is a subtotal that wrapped below zero.
LinesAddUp ==
    Billed => /\ SumAmounts(bill.lines) = bill.total
              /\ Storable(bill) = (bill.subtotal >= 0)
              /\ {l.position : l \in bill.lines} = 1 .. Cardinality(bill.lines)
============================================================================
