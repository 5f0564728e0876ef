-------------------------------- MODULE Books --------------------------------
(***************************************************************************)
(* Vocabulary of issued invoices: their lines and the totals computed from *)
(* them (the subquery of OverrideLine in internal/postgres/ops.go).        *)
(***************************************************************************)
EXTENDS Sums

CONSTANTS Invoice,       \* issued invoices
          Line,          \* their line items
          InvoiceOf,     \* line -> the invoice it belongs to
          IssuedAmount,  \* line -> amount_micros it was issued with
          NoEvent        \* "not paid by any event"

ASSUME LineAssumption == /\ IsFiniteSet(Line)
                         /\ InvoiceOf \in [Line -> Invoice]
                         /\ IssuedAmount \in [Line -> Int]

\* What the invoice job issues never takes off more than it charges.
ASSUME IssuedAssumption ==
    \A i \in Invoice :
        SumOver(IssuedAmount, {l \in Line : InvoiceOf[l] = i}) >= 0

\* The amounts of an invoice's lines.
AmountsOf(lines, i) == [l \in {l \in Line : InvoiceOf[l] = i} |-> lines[l]]

\* Mutated form: no GREATEST(0, ...).
TotalsUnclamped(amounts) ==
    [subtotal |-> SumOver(amounts, {l \in DOMAIN amounts : amounts[l] > 0}),
     credit   |-> 0 - SumOver(amounts, {l \in DOMAIN amounts : amounts[l] < 0}),
     total    |-> SumOver(amounts, DOMAIN amounts)]

\* subtotal_micros, credit_applied_micros and total_micros of such lines.
Totals(amounts) ==
    LET all == SumOver(amounts, DOMAIN amounts) IN
    [subtotal |-> SumOver(amounts, {l \in DOMAIN amounts : amounts[l] > 0}),
     credit   |-> 0 - SumOver(amounts, {l \in DOMAIN amounts : amounts[l] < 0}),
     total    |-> IF all < 0 THEN 0 ELSE all]

\* An invoice as the invoice job leaves it.
Issued(i) == [status |-> "issued", paidBy |-> NoEvent,
              totals |-> Totals(AmountsOf(IssuedAmount, i))]
==============================================================================
