------------------------------- MODULE Billing --------------------------------
(***************************************************************************)
(* What the invoice job promises: invoices are issued one at a time, each  *)
(* for a month that is over, charges units that were reported for it and   *)
(* takes credit the customer had, oldest first.  There are no transactions,*)
(* workers or windows here; Invoicing implements it as long as no two      *)
(* months are being issued at once.                                        *)
(***************************************************************************)
EXTENDS Months, Pricing, Sequences

CONSTANTS Plan, GrantAmounts

VARIABLES events,    \* stored usage events
          month,     \* the month the clock is in
          grants,    \* credits in the order they were created
          invoices   \* invoices without their lines

vars == <<events, month, grants, invoices>>

Init == events = {} /\ month = 1 /\ grants = <<>> /\ invoices = {}

Store == /\ events \subseteq events' /\ events' \subseteq Event
         /\ UNCHANGED <<month, grants, invoices>>

Tick == month' = month + 1 /\ UNCHANGED <<events, grants, invoices>>

Grant == /\ \E c \in Customer, amount \in GrantAmounts :
               grants' = Append(grants, [customer |-> c, amount |-> amount,
                                         remaining |-> amount])
         /\ UNCHANGED <<events, month, invoices>>

Taken(i) == grants[i].remaining - grants'[i].remaining

\* Grants of the customer lose the credit of the invoice, and a grant only if
\* every older one that had something is used up by it.
Spend(c, credit, subtotal) ==
    /\ DOMAIN grants' = DOMAIN grants
    /\ \A i \in DOMAIN grants :
          /\ grants'[i] = [grants[i] EXCEPT !.remaining = grants'[i].remaining]
          /\ Taken(i) >= 0
          /\ Taken(i) > 0 => /\ grants[i].customer = c
                             /\ grants'[i].remaining >= 0
                             /\ credit < subtotal => grants'[i].remaining = 0
    /\ \A i, j \in DOMAIN grants :
          i < j /\ Taken(j) > 0 /\ grants[i].customer = c => grants'[i].remaining = 0
    /\ credit = SumOver([i \in DOMAIN grants |-> Taken(i)], DOMAIN grants)

Issue(inv) ==
    /\ inv.period < month
    /\ ~\E i \in invoices : i.customer = inv.customer /\ i.period = inv.period
    /\ inv.units \in 1 .. UnitsIn(events, inv.customer, inv.period)
    /\ inv.subtotal = SumAmounts(PriceUnits(inv.units, Plan[inv.customer]))
    /\ inv.credit \in 0 .. inv.subtotal
    /\ inv.total = inv.subtotal - inv.credit
    /\ invoices' = invoices \cup {inv}
    /\ Spend(inv.customer, inv.credit, inv.subtotal)
    /\ UNCHANGED <<events, month>>

Next == Store \/ Tick \/ Grant \/ \E inv \in invoices' \ invoices : Issue(inv)

Spec == Init /\ [][Next]_vars
==============================================================================
