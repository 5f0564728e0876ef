-------------------------------- MODULE MCOps --------------------------------
(***************************************************************************)
(* Small instances of Ops for TLC.                                         *)
(***************************************************************************)
EXTENDS Ops, TLC

CONSTANTS i1, i2, e1, e2, x1

Credit(key, customer, n) ==
    [kind |-> "credit", key |-> key, customer |-> customer, amount |-> n]
Change(line, n) == [kind |-> "override", line |-> line, amount |-> n]
Payment(event, i) == [kind |-> "payment", event |-> event, invoice |-> i]
Look(i) == [kind |-> "look", invoice |-> i]

\* Two lines of one invoice, the second a credit; one line of another.
MCLine == 1 .. 3
MCInvoiceOf == <<i1, i1, i2>>
MCIssuedAmount == <<3, 0 - 1, 2>>

\* Both lines of i1 changed, to less in all than its credit, i1 paid by two
\* events and looked at, and an idempotency key that is sent again and again.
BooksRequest == {Change(1, 0), Change(2, 0 - 2), Payment(e1, i1), Payment(e2, i1),
                 Credit("k", x1, 5), Look(i1)}

\* Two overrides of one line.
AuditRequest == {Change(1, 0), Change(1, 2)}
==============================================================================
