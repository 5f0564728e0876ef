--------------------------------- MODULE Ops ---------------------------------
(***************************************************************************)
(* Operators' credits and overrides and the payment webhook                *)
(* (internal/postgres/ops.go), and the reading of an invoice               *)
(* (internal/postgres/invoices.go), as concurrent Read Committed           *)
(* transactions, statement by statement.                                   *)
(*                                                                         *)
(* Row locks follow from how far each open transaction is.  On the row of  *)
(* an invoice: OverrideLine takes FOR UPDATE, which excludes everyone; the *)
(* foreign key of webhook_events takes FOR KEY SHARE, which excludes only  *)
(* FOR UPDATE; the webhook's UPDATE excludes other updates and FOR UPDATE. *)
(* An insert of a unique key waits for an open transaction that inserted   *)
(* it.                                                                     *)
(***************************************************************************)
EXTENDS Books, Sequences

CONSTANTS Session,   \* requests that can be in progress at once
          Request,   \* what clients ask for, any of it any number of times
          MaxAudit   \* bound: no override begins with so many audit entries

ASSUME RequestAssumption ==
    \A r \in Request :
        \/ r.kind = "credit" /\ r.amount \in Int
        \/ r.kind = "override" /\ r.line \in Line /\ r.amount \in Int
        \/ r.kind = "payment" /\ r.invoice \in Invoice /\ r.event # NoEvent
        \/ r.kind = "look" /\ r.invoice \in Invoice

VARIABLES
    lines, invoices, webhook_events, credit_grants,  \* as in Ledger
    audit,     \* audit_entries of overrides: [line, before, after]
    pc,        \* "idle" or the statement that is next
    req,       \* the request a session serves
    old,       \* oldAmount
    totals,    \* totals written to the invoice, not committed
    shown,     \* what a request has read of an invoice: [head, amounts]
    wrote,     \* uncommitted writes: any of "grant", "event", "status"
    answers    \* answers that reached a client: [req, grant]

tables == <<lines, invoices, webhook_events, credit_grants, audit>>
vars == <<tables, pc, req, old, totals, shown, wrote, answers>>

NoRequest == [kind |-> "none"]
NoTotals == Totals(<<>>)
NothingShown == [head |-> <<>>, amounts |-> <<>>]

Init == /\ lines = IssuedAmount
        /\ invoices = [i \in Invoice |-> Issued(i)]
        /\ webhook_events = {}
        /\ credit_grants = <<>>
        /\ audit = <<>>
        /\ pc = [p \in Session |-> "idle"]
        /\ req = [p \in Session |-> NoRequest]
        /\ old = [p \in Session |-> 0]
        /\ totals = [p \in Session |-> NoTotals]
        /\ shown = [p \in Session |-> NothingShown]
        /\ wrote = [p \in Session |-> {}]
        /\ answers = {}

-----------------------------------------------------------------------------
(* Locks *)

\* Mutated form of a lookup of locks: nobody is waited for.
NobodyFor(x) == {}

\* Open transactions that inserted this idempotency key.
GrantersOf(key) == {q \in Session : "grant" \in wrote[q] /\ req[q].key = key}

\* Open transactions that inserted this provider event.
RecordersOf(event) == {q \in Session : "event" \in wrote[q] /\ req[q].event = event}

\* Holders of FOR UPDATE on an invoice.
OverridersOf(i) == {q \in Session : /\ req[q].kind = "override"
                                    /\ pc[q] \in {"write", "commit"}
                                    /\ InvoiceOf[req[q].line] = i}

\* Holders of FOR KEY SHARE on an invoice.
ReferrersOf(i) == {q \in Session : /\ "event" \in wrote[q]
                                   /\ pc[q] \in {"pay", "commit"}
                                   /\ req[q].invoice = i}

\* Open transactions that updated the status of an invoice.
PayersOf(i) == {q \in Session : "status" \in wrote[q] /\ req[q].invoice = i}

-----------------------------------------------------------------------------
(* Requests *)

\* OpsService: what is not rejected before the store is called.
Acceptable(r) == r.kind = "credit" => r.amount > 0

FirstStatement(r) == CASE r.kind = "credit" -> "grant"
                       [] r.kind = "override" -> "read"
                       [] r.kind = "payment" -> "record"
                       [] r.kind = "look" -> "head"

Begin(p, r) ==
    /\ pc[p] = "idle"
    /\ Acceptable(r)
    /\ r.kind = "override" => Len(audit) < MaxAudit
    /\ req' = [req EXCEPT ![p] = r]
    /\ pc' = [pc EXCEPT ![p] = FirstStatement(r)]
    /\ UNCHANGED <<tables, old, totals, shown, wrote, answers>>

EndRequest(p) == /\ pc' = [pc EXCEPT ![p] = "idle"]
                 /\ req' = [req EXCEPT ![p] = NoRequest]
                 /\ old' = [old EXCEPT ![p] = 0]
                 /\ totals' = [totals EXCEPT ![p] = NoTotals]
                 /\ shown' = [shown EXCEPT ![p] = NothingShown]
                 /\ wrote' = [wrote EXCEPT ![p] = {}]

\* The answer reaches the client, or is lost.
Answer(p, answered, grant) ==
    answers' = IF answered THEN answers \cup {[req |-> req[p], grant |-> grant]}
               ELSE answers

\* An error or a crash at any statement.
Rollback(p) == /\ pc[p] # "idle"
               /\ EndRequest(p)
               /\ UNCHANGED <<tables, answers>>

-----------------------------------------------------------------------------
(* IssueCredit *)

Grants(key) == {i \in DOMAIN credit_grants : credit_grants[i].key = key}

\* INSERT ... ON CONFLICT (idempotency_key) DO NOTHING.
InsertGrant(p) ==
    /\ pc[p] = "grant"
    /\ GrantersOf(req[p].key) = {}
    /\ wrote' = IF Grants(req[p].key) = {} THEN [wrote EXCEPT ![p] = {"grant"}]
                ELSE wrote
    /\ pc' = [pc EXCEPT ![p] = "commit"]
    /\ UNCHANGED <<tables, req, old, totals, shown, answers>>

\* The answer names the new grant or, when the key was used before, the one
\* with that key, whatever amount and customer it was for.
CommitCredit(p, answered) ==
    /\ pc[p] = "commit" /\ req[p].kind = "credit"
    /\ credit_grants' = IF "grant" \in wrote[p]
                        THEN Append(credit_grants, [key      |-> req[p].key,
                                                    customer |-> req[p].customer,
                                                    amount   |-> req[p].amount])
                        ELSE credit_grants
    /\ LET new == Len(credit_grants')
           first == CHOOSE i \in Grants(req[p].key) : TRUE
       IN  Answer(p, answered, IF "grant" \in wrote[p] THEN new ELSE first)
    /\ EndRequest(p)
    /\ UNCHANGED <<lines, invoices, webhook_events, audit>>

-----------------------------------------------------------------------------
(* OverrideLine *)

\* SELECT ... FOR UPDATE OF i, first half: the join is read from the
\* statement's snapshot, the line's amount with it.
ReadLine(p) ==
    /\ pc[p] = "read"
    /\ old' = [old EXCEPT ![p] = lines[req[p].line]]
    /\ pc' = [pc EXCEPT ![p] = "lock"]
    /\ UNCHANGED <<tables, req, totals, shown, wrote, answers>>

CanLock(i) == OverridersOf(i) = {} /\ ReferrersOf(i) = {}

\* Mutated form: the status is not looked at.
LockInvoiceAnyStatus(p) ==
    /\ pc[p] = "lock"
    /\ CanLock(InvoiceOf[req[p].line])
    /\ pc' = [pc EXCEPT ![p] = "write"]
    /\ UNCHANGED <<tables, req, old, totals, shown, wrote, answers>>

\* Second half: once the row is locked, its newest version is read.  The line
\* is not locked and not read again.
LockInvoice(p) ==
    /\ pc[p] = "lock"
    /\ CanLock(InvoiceOf[req[p].line])
    /\ invoices[InvoiceOf[req[p].line]].status = "issued"
    /\ pc' = [pc EXCEPT ![p] = "write"]
    /\ UNCHANGED <<tables, req, old, totals, shown, wrote, answers>>

\* ErrInvoicePaid.
RejectPaid(p) ==
    /\ pc[p] = "lock"
    /\ CanLock(InvoiceOf[req[p].line])
    /\ invoices[InvoiceOf[req[p].line]].status = "paid"
    /\ EndRequest(p)
    /\ UNCHANGED <<tables, answers>>

NewLines(p) == [lines EXCEPT ![req[p].line] = req[p].amount]

\* UPDATE of the line and UPDATE of the totals, with the sums of the lines this
\* transaction sees.  Nobody reads between the two.
WriteLine(p) ==
    /\ pc[p] = "write"
    /\ totals' = [totals EXCEPT ![p] =
                    Totals(AmountsOf(NewLines(p), InvoiceOf[req[p].line]))]
    /\ pc' = [pc EXCEPT ![p] = "commit"]
    /\ UNCHANGED <<tables, req, old, shown, wrote, answers>>

\* INSERT INTO audit_entries and COMMIT.
CommitOverride(p, answered) ==
    /\ pc[p] = "commit" /\ req[p].kind = "override"
    /\ lines' = NewLines(p)
    /\ invoices' = [invoices EXCEPT ![InvoiceOf[req[p].line]].totals = totals[p]]
    /\ audit' = Append(audit, [line |-> req[p].line, before |-> old[p],
                               after |-> req[p].amount])
    /\ Answer(p, answered, 0)
    /\ EndRequest(p)
    /\ UNCHANGED <<webhook_events, credit_grants>>

-----------------------------------------------------------------------------
(* ApplyPayment *)

Recorded(event) == \E row \in webhook_events : row.event = event

\* Mutated form: an event another open transaction has inserted is taken for
\* one that was applied.
RecordReplayInFlight(p) ==
    /\ pc[p] = "record"
    /\ Recorded(req[p].event) \/ RecordersOf(req[p].event) # {}
    /\ pc' = [pc EXCEPT ![p] = "commit"]
    /\ UNCHANGED <<tables, req, old, totals, shown, wrote, answers>>

\* INSERT INTO webhook_events ... ON CONFLICT DO NOTHING, no row: return nil.
RecordReplay(p) ==
    /\ pc[p] = "record"
    /\ Recorded(req[p].event)
    /\ pc' = [pc EXCEPT ![p] = "commit"]
    /\ UNCHANGED <<tables, req, old, totals, shown, wrote, answers>>

\* The same statement, one row.
RecordEvent(p) ==
    /\ pc[p] = "record"
    /\ ~Recorded(req[p].event)
    /\ RecordersOf(req[p].event) = {}
    /\ wrote' = [wrote EXCEPT ![p] = {"event"}]
    /\ pc' = [pc EXCEPT ![p] = "reference"]
    /\ UNCHANGED <<tables, req, old, totals, shown, answers>>

\* The end of that statement: its foreign key locks the invoice FOR KEY SHARE.
ReferenceInvoice(p) ==
    /\ pc[p] = "reference"
    /\ OverridersOf(req[p].invoice) = {}
    /\ pc' = [pc EXCEPT ![p] = "pay"]
    /\ UNCHANGED <<tables, req, old, totals, shown, wrote, answers>>

\* Mutated form: no AND status = 'issued'.
MarkPaidAgain(p) ==
    /\ pc[p] = "pay"
    /\ PayersOf(req[p].invoice) = {}
    /\ wrote' = [wrote EXCEPT ![p] = @ \cup {"status"}]
    /\ pc' = [pc EXCEPT ![p] = "commit"]
    /\ UNCHANGED <<tables, req, old, totals, shown, answers>>

\* Mutated form: the update needs the row for itself, as one of a key does.
MarkPaidExclusive(p) ==
    /\ pc[p] = "pay"
    /\ ReferrersOf(req[p].invoice) = {p}
    /\ wrote' = IF invoices[req[p].invoice].status = "issued"
                THEN [wrote EXCEPT ![p] = @ \cup {"status"}]
                ELSE wrote
    /\ pc' = [pc EXCEPT ![p] = "commit"]
    /\ UNCHANGED <<tables, req, old, totals, shown, answers>>

\* UPDATE invoices SET status = 'paid', paid_at = now() ... AND status =
\* 'issued'.
MarkPaid(p) ==
    /\ pc[p] = "pay"
    /\ PayersOf(req[p].invoice) = {}
    /\ wrote' = IF invoices[req[p].invoice].status = "issued"
                THEN [wrote EXCEPT ![p] = @ \cup {"status"}]
                ELSE wrote
    /\ pc' = [pc EXCEPT ![p] = "commit"]
    /\ UNCHANGED <<tables, req, old, totals, shown, answers>>

CommitPayment(p, answered) ==
    /\ pc[p] = "commit" /\ req[p].kind = "payment"
    /\ webhook_events' = IF "event" \in wrote[p]
                         THEN webhook_events \cup {[event   |-> req[p].event,
                                                    invoice |-> req[p].invoice]}
                         ELSE webhook_events
    /\ invoices' = IF "status" \in wrote[p]
                   THEN [invoices EXCEPT ![req[p].invoice].status = "paid",
                                         ![req[p].invoice].paidBy = req[p].event]
                   ELSE invoices
    /\ Answer(p, answered, 0)
    /\ EndRequest(p)
    /\ UNCHANGED <<lines, credit_grants, audit>>

-----------------------------------------------------------------------------
(* GetInvoice and GetInvoiceByID *)

\* SELECT ... FROM invoices.
ReadHead(p) ==
    /\ pc[p] = "head"
    /\ shown' = [shown EXCEPT ![p].head = invoices[req[p].invoice]]
    /\ pc' = [pc EXCEPT ![p] = "lines"]
    /\ UNCHANGED <<tables, req, old, totals, wrote, answers>>

\* SELECT ... FROM invoice_line_items: another statement, with a snapshot of
\* its own.  Neither waits for anyone.
ReadLines(p) ==
    /\ pc[p] = "lines"
    /\ shown' = [shown EXCEPT ![p].amounts = AmountsOf(lines, req[p].invoice)]
    /\ pc' = [pc EXCEPT ![p] = "commit"]
    /\ UNCHANGED <<tables, req, old, totals, wrote, answers>>

CommitLook(p) ==
    /\ pc[p] = "commit" /\ req[p].kind = "look"
    /\ EndRequest(p)
    /\ UNCHANGED <<tables, answers>>

-----------------------------------------------------------------------------

Progress(p) == \/ InsertGrant(p)
               \/ ReadLine(p) \/ LockInvoice(p) \/ RejectPaid(p) \/ WriteLine(p)
               \/ RecordReplay(p) \/ RecordEvent(p) \/ ReferenceInvoice(p)
               \/ MarkPaid(p)
               \/ ReadHead(p) \/ ReadLines(p) \/ CommitLook(p)
               \/ \E answered \in BOOLEAN : \/ CommitCredit(p, answered)
                                            \/ CommitOverride(p, answered)
                                            \/ CommitPayment(p, answered)

Next == \E p \in Session : \/ \E r \in Request : Begin(p, r)
                           \/ Progress(p)
                           \/ Rollback(p)

Spec == Init /\ [][Next]_vars

\* A transaction that had written something is undone by a failure.
Fault == \E p \in Session : wrote[p] # {} /\ Rollback(p)

\* The next statement of an open request.  One that waits is queued on the row
\* and is not passed over for ever: strong fairness.  Failures of the webhook
\* end: its shared locks could follow each other without a gap otherwise.
\* Nothing makes a request roll back, so only the order of locking keeps
\* a cycle of waits away.
FairSpec == /\ Spec
            /\ \A p \in Session : SF_vars(Progress(p))
            /\ <>[][~Fault]_vars

-----------------------------------------------------------------------------
(* Properties *)

TypeOK ==
    /\ lines \in [Line -> Int]
    /\ \A i \in Invoice :
          /\ invoices[i].status \in {"issued", "paid"}
          /\ invoices[i].status = "issued" <=> invoices[i].paidBy = NoEvent
          /\ invoices[i].totals \in [subtotal : Nat, credit : Nat, total : Nat]
    /\ \A row \in webhook_events : row.invoice \in Invoice
    /\ \A i \in DOMAIN credit_grants : credit_grants[i].amount > 0
    /\ \A i \in DOMAIN audit : audit[i].line \in Line
    /\ pc \in [Session -> {"idle", "grant", "read", "lock", "write", "record",
                           "reference", "pay", "head", "lines", "commit"}]
    /\ req \in [Session -> Request \cup {NoRequest}]
    /\ old \in [Session -> Int]
    /\ wrote \in [Session -> SUBSET {"grant", "event", "status"}]

\* The totals of an invoice are always those of its lines, whatever overrides of
\* its lines, and payments, run at once.
TotalsAgree ==
    \A i \in Invoice : invoices[i].totals = Totals(AmountsOf(lines, i))

\* DESIGN.md, "Paid invoices do not change": neither lines nor totals nor the
\* payment, also when the payment arrives in the middle of an override.
PaidIsFrozen ==
    [][\A i \in Invoice :
          invoices[i].status = "paid" =>
             /\ invoices'[i] = invoices[i]
             /\ AmountsOf(lines', i) = AmountsOf(lines, i)]_vars

\* A payment answered 200 is in the books: its event is recorded, and the
\* invoice it was recorded for is paid.  Lost answers, repeated and concurrent
\* deliveries and failures between the two statements do not matter.
AckedPaymentIsPaid ==
    \A a \in answers :
        a.req.kind = "payment" =>
            \E row \in webhook_events : /\ row.event = a.req.event
                                        /\ invoices[row.invoice].status = "paid"

\* However often and however concurrently a key is sent, it gives one credit,
\* and every answer names that one.
CreditOncePerKey ==
    /\ \A i, j \in DOMAIN credit_grants :
          credit_grants[i].key = credit_grants[j].key => i = j
    /\ \A a \in answers :
          a.req.kind = "credit" => Grants(a.req.key) = {a.grant}

\* An invoice is read in two statements, so a reader may see the totals of one
\* moment with the lines of another.  Not once it is paid: whatever has shown an
\* invoice as paid shows the lines that its totals are made of.
PaidReadsAgree ==
    \A p \in Session :
        /\ req[p].kind = "look" /\ pc[p] = "commit"
        /\ shown[p].head.status = "paid"
        => shown[p].head.totals = Totals(shown[p].amounts)

\* Ops implements Ledger: what a reader of the tables sees is what indivisible
\* operations would have done.
Abstract == INSTANCE Ledger
LedgerSpec == Abstract!Spec

\* Every request ends, although the webhook locks an invoice twice, first
\* shared and then to update it, while overrides want it for themselves.
OperationsEnd == \A p \in Session : (pc[p] # "idle") ~> (pc[p] = "idle")

\* DESIGN.md, "Debugging a wrong invoice": "read audit for an override".  The
\* entries of a line tell its amounts one after another: each begins with
\* what the one before it left.
AuditIsAChain ==
    \A j \in DOMAIN audit :
        LET before == {k \in 1 .. j - 1 : audit[k].line = audit[j].line} IN
        audit[j].before = IF before = {} THEN IssuedAmount[audit[j].line]
                          ELSE audit[Max(before)].after
==============================================================================
