-------------------------------- MODULE Ledger --------------------------------
(***************************************************************************)
(* What operators and the payment provider may do to issued invoices and   *)
(* credits, each in one indivisible step: the promise that the concurrent  *)
(* transactions of Ops keep.                                               *)
(***************************************************************************)
EXTENDS Books, Sequences

CONSTANT Request   \* what may be asked for: see Ops

VARIABLES lines,           \* line -> amount_micros
          invoices,        \* invoice -> status, the event that paid it, totals
          webhook_events,  \* set of [event, invoice], primary key event
          credit_grants    \* sequence of [key, customer, amount]

vars == <<lines, invoices, webhook_events, credit_grants>>

Init == /\ lines = IssuedAmount
        /\ invoices = [i \in Invoice |-> Issued(i)]
        /\ webhook_events = {}
        /\ credit_grants = <<>>

\* A line of an invoice that is not paid gets a new amount, its invoice the
\* totals of the new lines.
Override(r) ==
    /\ r.kind = "override"
    /\ invoices[InvoiceOf[r.line]].status = "issued"
    /\ lines' = [lines EXCEPT ![r.line] = r.amount]
    /\ invoices' = [invoices EXCEPT ![InvoiceOf[r.line]].totals =
                       Totals(AmountsOf(lines', InvoiceOf[r.line]))]
    /\ UNCHANGED <<webhook_events, credit_grants>>

\* An event not seen before is recorded, and pays its invoice if that is due.
Pay(r) ==
    /\ r.kind = "payment"
    /\ \A row \in webhook_events : row.event # r.event
    /\ webhook_events' = webhook_events \cup {[event |-> r.event, invoice |-> r.invoice]}
    /\ invoices' = IF invoices[r.invoice].status = "issued"
                   THEN [invoices EXCEPT ![r.invoice].status = "paid",
                                         ![r.invoice].paidBy = r.event]
                   ELSE invoices
    /\ UNCHANGED <<lines, credit_grants>>

\* A key not used before gives a credit.
Grant(r) ==
    /\ r.kind = "credit"
    /\ \A i \in DOMAIN credit_grants : credit_grants[i].key # r.key
    /\ credit_grants' = Append(credit_grants,
                           [key |-> r.key, customer |-> r.customer, amount |-> r.amount])
    /\ UNCHANGED <<lines, invoices, webhook_events>>

Next == \E r \in Request : Override(r) \/ Pay(r) \/ Grant(r)

Spec == Init /\ [][Next]_vars
==============================================================================
