------------------------------ MODULE Invoicing ------------------------------
(***************************************************************************)
(* The invoice job (internal/services/invoices.go) of any number of        *)
(* workers, over the usage that Meter promises.                            *)
(*                                                                         *)
(* A worker's run is the hour job, then for the month before the current   *)
(* one: read the clock, list the customers to invoice, and for each sum    *)
(* its windows, read its credits and save the invoice.  Each but the clock *)
(* is a transaction of its own (internal/postgres/invoices.go), so each is *)
(* one atomic step and anything may happen between two of them.            *)
(***************************************************************************)
EXTENDS Months, Pricing, Sequences

CONSTANTS Worker,          \* processes that issue invoices
          NoCustomer,      \* the value of "no customer in progress"
          Plan,            \* customer -> the tiers of its price plan
          LastMonth,       \* bound: the clock stops here
          GrantAmounts,    \* the credits an operator may grant
          MaxGrants        \* bound: credits granted in all

ASSUME LastMonthAssumption == LastMonth \in Nat \ {0}
\* The CHECKs of price_plan_tiers, and of credit_grants in 64 bits.
ASSUME PlanAssumption ==
    Plan \in [Customer -> Seq([from : Nat, to : Nat \cup {NoLimit}, price : Nat])]
ASSUME GrantAssumption == GrantAmounts \subseteq 1 .. MaxInt
ASSUME NoCustomerAssumption == NoCustomer \notin Customer

VARIABLES
    events, stale, windows,  \* the state of Meter
    month,       \* the month the clock is in
    grants,      \* credit_grants in the order they were created
    invoices,    \* set of rows of invoices, with their lines
    \* one run per worker
    wpc,         \* "idle", "clock", "list", "sum", "credits" or "save"
    period,      \* the month the run invoices
    queue,       \* ids returned by CustomersWithUsage and not yet done
    customer,    \* the customer issueOne is at
    units,       \* units summed for it
    read,        \* credits read for it: number of the grant -> remaining amount
    seen         \* what each listed customer had stored when it was listed

meter == <<events, stale, windows>>
runVars == <<wpc, period, queue, customer, units, read, seen>>
vars == <<meter, month, grants, invoices, runVars>>

Meter == INSTANCE Meter

StoredUnits(c, m) == UnitsIn(events, c, m)

Init == /\ Meter!Init
        /\ month = 1
        /\ grants = <<>>
        /\ invoices = {}
        /\ wpc = [w \in Worker |-> "idle"]
        /\ period = [w \in Worker |-> 0]
        /\ queue = [w \in Worker |-> {}]
        /\ customer = [w \in Worker |-> NoCustomer]
        /\ units = [w \in Worker |-> 0]
        /\ read = [w \in Worker |-> <<>>]
        /\ seen = [w \in Worker |-> [c \in Customer |-> 0]]

-----------------------------------------------------------------------------
(* The world around the job *)

\* Ingest stores an event.  Nothing ties event_ts to the current time.
StoreEvent == /\ \E e \in Event : Meter!Record({e})
              /\ UNCHANGED <<month, grants, invoices, runVars>>

\* An operator grants a credit (postgres/ops.go, IssueCredit).
IssueCredit(c, amount) ==
    /\ Len(grants) < MaxGrants
    /\ grants' = Append(grants, [customer |-> c, amount |-> amount,
                                 remaining |-> amount])
    /\ UNCHANGED <<meter, month, invoices, runVars>>

Tick == /\ month < LastMonth
        /\ month' = month + 1
        /\ UNCHANGED <<meter, grants, invoices, runVars>>

-----------------------------------------------------------------------------
(* A run of a worker *)

\* HourService.Run: the dirty rows nobody else holds are brought up to date.
\* When there is nothing to do no window changes.  An error ends the job and
\* the run and changes nothing, and an hour whose sum does not fit is one.
HourJob(w, S) ==
    /\ wpc[w] = "idle"
    /\ \A s \in S : HourUnits(events, s) <= MaxInt
    /\ IF S = {} THEN UNCHANGED meter ELSE Meter!Refresh(S)
    /\ wpc' = [wpc EXCEPT ![w] = "clock"]
    /\ UNCHANGED <<month, grants, invoices, period, queue, customer, units, read,
                   seen>>

\* Mutated form: the month that is still going on.
PreviousMonthCurrent == month

\* Mutated form: a month too far back.
PreviousMonthTwoBack == month - 2

PreviousMonth == month - 1

\* IssuePreviousMonth: the clock is read once, and may move on before the rest.
ReadClock(w) ==
    /\ wpc[w] = "clock"
    /\ period' = [period EXCEPT ![w] = PreviousMonth]
    /\ wpc' = [wpc EXCEPT ![w] = "list"]
    /\ UNCHANGED <<meter, month, grants, invoices, queue, customer, units, read,
                   seen>>

HasInvoice(c, m) == \E i \in invoices : i.customer = c /\ i.period = m

\* Mutated form: the hours that are still dirty are not looked at.
BillableDirty(c, m) ==
    /\ \E s \in SlotsOf(c, m) : windows[s] > 0
    /\ ~HasInvoice(c, m)

\* CustomersWithUsage: a window in the month, no invoice, no dirty hour.
Billable(c, m) ==
    /\ \E s \in SlotsOf(c, m) : windows[s] > 0
    /\ ~HasInvoice(c, m)
    /\ SlotsOf(c, m) \cap stale = {}

ListCustomers(w) ==
    /\ wpc[w] = "list"
    /\ queue' = [queue EXCEPT ![w] = {c \in Customer : Billable(c, period[w])}]
    /\ seen' = [seen EXCEPT ![w] = [c \in Customer |-> StoredUnits(c, period[w])]]
    /\ wpc' = [wpc EXCEPT ![w] = "sum"]
    /\ UNCHANGED <<meter, month, grants, invoices, period, customer, units, read>>

\* Mutated form: hour_bucket <= the end of the period.
SumUnitsThrough(c, m) ==
    SumOver(windows, SlotsOf(c, m) \cup {s \in SlotsOf(c, m + 1) :
                                             s[2] = (m + 1) * HoursPerMonth})

\* SumUnits: the windows of the month.
SumUnits(c, m) == SumOver(windows, SlotsOf(c, m))

\* The next customer of the loop; one without units is passed over.
SumMonth(w) ==
    /\ wpc[w] = "sum"
    /\ \E c \in queue[w] :
          /\ queue' = [queue EXCEPT ![w] = @ \ {c}]
          /\ \E n \in {SumUnits(c, period[w])} :
                /\ n <= MaxInt
                /\ IF n <= 0
                   THEN UNCHANGED <<wpc, customer, units>>
                   ELSE /\ customer' = [customer EXCEPT ![w] = c]
                        /\ units' = [units EXCEPT ![w] = n]
                        /\ wpc' = [wpc EXCEPT ![w] = "credits"]
    /\ UNCHANGED <<meter, month, grants, invoices, period, read, seen>>

RemainingOf(ids) == [i \in ids |-> grants[i].remaining]

\* Mutated form: no WHERE customer_id.
OpenGrantsOfAll(c) == RemainingOf({i \in DOMAIN grants : grants[i].remaining > 0})

\* The grants of a customer with something left, oldest first.
OpenGrants(c) == RemainingOf({i \in DOMAIN grants : /\ grants[i].customer = c
                                                    /\ grants[i].remaining > 0})

\* Tiers and RemainingCredits.  Nothing in the program changes a plan, so when
\* the tiers are read does not matter.
ReadCredits(w) ==
    /\ wpc[w] = "credits"
    /\ read' = [read EXCEPT ![w] = OpenGrants(customer[w])]
    /\ wpc' = [wpc EXCEPT ![w] = "save"]
    /\ UNCHANGED <<meter, month, grants, invoices, period, queue, customer, units,
                   seen>>

\* UPDATE credit_grants SET remaining_micros = $2: what was left when the
\* credits were read, whatever the row holds by now.
WriteBack(left) ==
    [i \in DOMAIN grants |-> IF i \in DOMAIN left
                             THEN [grants[i] EXCEPT !.remaining = left[i]]
                             ELSE grants[i]]

BillOf(w) == Bill(units[w], Plan[customer[w]], read[w])

NewInvoice(w, bill) ==
    [customer |-> customer[w], period |-> period[w], units |-> units[w],
     subtotal |-> bill.subtotal, credit |-> bill.credit, total |-> bill.total,
     lines |-> bill.lines, seen |-> seen[w][customer[w]]]

EndOne(w) ==
    /\ wpc' = [wpc EXCEPT ![w] = "sum"]
    /\ customer' = [customer EXCEPT ![w] = NoCustomer]
    /\ units' = [units EXCEPT ![w] = 0]
    /\ read' = [read EXCEPT ![w] = <<>>]

\* Mutated form: the insert is not ON CONFLICT DO NOTHING.
SaveInvoiceTwice(w) ==
    /\ wpc[w] = "save"
    /\ \E bill \in {BillOf(w)} :
          /\ Storable(bill)
          /\ invoices' = invoices \cup {NewInvoice(w, bill)}
          /\ grants' = WriteBack(bill.left)
    /\ EndOne(w)
    /\ UNCHANGED <<meter, month, period, queue, seen>>

\* Mutated form: a second insert does nothing, yet the credits are written.
SaveInvoiceCreditsAnyway(w) ==
    /\ wpc[w] = "save"
    /\ \E bill \in {BillOf(w)} :
          /\ Storable(bill)
          /\ invoices' = IF HasInvoice(customer[w], period[w]) THEN invoices
                         ELSE invoices \cup {NewInvoice(w, bill)}
          /\ grants' = WriteBack(bill.left)
    /\ EndOne(w)
    /\ UNCHANGED <<meter, month, period, queue, seen>>

\* SaveInvoice: INSERT ... ON CONFLICT (customer_id, period_start) DO NOTHING,
\* and for a new row its lines and the credits, all in one transaction.  The
\* CHECKs come before the conflict.
SaveInvoice(w) ==
    /\ wpc[w] = "save"
    /\ \E bill \in {BillOf(w)} :
          /\ Storable(bill)
          /\ IF HasInvoice(customer[w], period[w])
             THEN UNCHANGED <<invoices, grants>>
             ELSE /\ invoices' = invoices \cup {NewInvoice(w, bill)}
                  /\ grants' = WriteBack(bill.left)
    /\ EndOne(w)
    /\ UNCHANGED <<meter, month, period, queue, seen>>

\* The run is over, until the next tick of the worker.
Reset(w) ==
    /\ wpc' = [wpc EXCEPT ![w] = "idle"]
    /\ period' = [period EXCEPT ![w] = 0]
    /\ queue' = [queue EXCEPT ![w] = {}]
    /\ customer' = [customer EXCEPT ![w] = NoCustomer]
    /\ units' = [units EXCEPT ![w] = 0]
    /\ read' = [read EXCEPT ![w] = <<>>]
    /\ seen' = [seen EXCEPT ![w] = [c \in Customer |-> 0]]

FinishRun(w) ==
    /\ wpc[w] = "sum"
    /\ queue[w] = {}
    /\ Reset(w)
    /\ UNCHANGED <<meter, month, grants, invoices>>

\* The sum does not fit what it is scanned into, or the bill is refused.
Refused(w) ==
    \/ wpc[w] = "sum" /\ \E c \in queue[w] : SumUnits(c, period[w]) > MaxInt
    \/ wpc[w] = "save" /\ ~Storable(BillOf(w))

\* Such an error comes again in every run that gets to the customer.
FailRun(w) ==
    /\ Refused(w)
    /\ Reset(w)
    /\ UNCHANGED <<meter, month, grants, invoices>>

\* An error of any of the transactions ends the whole run: the customers left
\* in the queue are not invoiced by it.  So does a crash of the worker.
AbortRun(w) ==
    /\ wpc[w] # "idle"
    /\ Reset(w)
    /\ UNCHANGED <<meter, month, grants, invoices>>

-----------------------------------------------------------------------------

RunStep(w) == \/ ReadClock(w)
              \/ ListCustomers(w)
              \/ SumMonth(w)
              \/ ReadCredits(w)
              \/ SaveInvoice(w)
              \/ FinishRun(w)
              \/ FailRun(w)

WithinMonth == \/ StoreEvent
               \/ \E c \in Customer, amount \in GrantAmounts : IssueCredit(c, amount)
               \/ \E w \in Worker : \/ \E S \in SUBSET stale : HourJob(w, S)
                                    \/ RunStep(w)
                                    \/ AbortRun(w)

Next == Tick \/ WithinMonth

Spec == Init /\ [][Next]_vars

\* An error that ends a run before its work is done and need not come again.
Fault(w) == AbortRun(w) /\ ~(wpc[w] = "sum" /\ queue[w] = {}) /\ ~Refused(w)

\* A worker keeps running, an hour job that finds no hour locked takes them all
\* again and again, and errors are not for ever.
Fairness == \A w \in Worker : /\ WF_vars(RunStep(w))
                              /\ SF_vars(HourJob(w, stale))

FaultsStop == <>[][~\E w \in Worker : Fault(w)]_vars

FairSpec == Spec /\ Fairness /\ FaultsStop

\* The kindest timing there is: months go on for ever (up to LastMonth), and
\* none ends before the workers have done all there was to do in it.
CaughtUp == /\ stale = {}
            /\ \A w \in Worker : wpc[w] = "idle"
            /\ \A c \in Customer : ~Billable(c, PreviousMonth)

PromptTick == CaughtUp /\ Tick

PromptSpec == /\ Init /\ [][PromptTick \/ WithinMonth]_vars
              /\ Fairness /\ FaultsStop /\ SF_vars(PromptTick)

-----------------------------------------------------------------------------
(* Properties *)

\* The job with its transactions, errors and crashes, while one month at a time
\* is issued, behaves as if each invoice were computed and issued in one step.
Billing == INSTANCE Billing WITH
    invoices <- {[customer |-> i.customer, period |-> i.period, units |-> i.units,
                  subtotal |-> i.subtotal, credit |-> i.credit, total |-> i.total] :
                    i \in invoices}

BillingSpec == Billing!Spec

Line == [kind : {"tier", "credit"}, quantity : Nat, amount : Int, position : Nat]

TypeOK ==
    /\ events \subseteq Event /\ stale \subseteq Slot
    /\ windows \in [Slot -> Nat]
    /\ month \in 1 .. LastMonth
    /\ \A i \in DOMAIN grants :
          /\ grants[i].customer \in Customer
          /\ grants[i].amount \in GrantAmounts
          /\ grants[i].remaining \in 0 .. grants[i].amount
    /\ \A i \in invoices :
          /\ i.customer \in Customer /\ i.period \in 0 .. LastMonth - 1
          /\ i.units \in Nat \ {0} /\ i.seen \in Nat
          /\ i.subtotal \in Nat /\ i.credit \in 0 .. i.subtotal
          /\ i.total = i.subtotal - i.credit
          /\ i.lines \subseteq Line
    /\ wpc \in [Worker -> {"idle", "clock", "list", "sum", "credits", "save"}]
    /\ period \in [Worker -> 0 .. LastMonth - 1]
    /\ queue \in [Worker -> SUBSET Customer]
    /\ customer \in [Worker -> Customer \cup {NoCustomer}]
    /\ units \in [Worker -> Nat]
    /\ \A w \in Worker : DOMAIN read[w] \subseteq DOMAIN grants
    /\ seen \in [Worker -> [Customer -> Nat]]

\* A customer is never charged for a unit that was not reported for the month,
\* however the hour job, late events and the invoice job interleave.
OnlyRealUsageIsBilled ==
    \A i \in invoices : i.units <= StoredUnits(i.customer, i.period)

\* The wait for dirty hours works for all that was stored when the job looked:
\* the invoice charges at least the usage there was when it listed the customer.
ListedUsageIsBilled == \A i \in invoices : i.seen <= i.units

\* UNIQUE (customer_id, period_start): however many workers issue a month,
\* there is one invoice.
OneInvoicePerMonth ==
    \A i, j \in invoices : i.customer = j.customer /\ i.period = j.period => i = j

CreditsSpent(c) ==
    SumOver([i \in DOMAIN grants |-> grants[i].amount - grants[i].remaining],
            {i \in DOMAIN grants : grants[i].customer = c})

CreditsApplied(c) ==
    SumOver([i \in invoices |-> i.credit], {i \in invoices : i.customer = c})

\* Money is conserved: what a customer's invoices took off is what its grants
\* lost, no credit spent twice and none lost.
CreditsConserved == \A c \in Customer : CreditsSpent(c) = CreditsApplied(c)

AllInvoiced(m) == \A c \in Customer : StoredUnits(c, m) > 0 => HasInvoice(c, m)

\* The usage of the customer can be summed and priced in 64 bits.
Chargeable(c, m) ==
    /\ StoredUnits(c, m) <= MaxInt
    /\ SumAmounts(PriceUnits(StoredUnits(c, m), Plan[c])) >= 0

\* Something stops every run: an hour the hour job cannot sum, or a customer of
\* the month that cannot be charged.
Stuck(m) == \/ \E s \in Slot : HourUnits(events, s) > MaxInt
            \/ \E c \in Customer : ~HasInvoice(c, m) /\ ~Chargeable(c, m)

\* Usage of the month that just ended is invoiced before the next month ends,
\* if the clock gives the workers the time and no usage is too large to bill.
MonthIsInvoiced ==
    \A m \in 1 .. LastMonth - 1 :
        (month = m + 1 /\ ~AllInvoiced(m))
            ~> (month # m + 1 \/ AllInvoiced(m) \/ Stuck(m))

\* DESIGN.md, "Late events", door A: "The month is not issued yet. We store the
\* event, mark the hour dirty, rebuild the window. The invoice will include it."
DoorA ==
    \A c \in Customer, m \in 1 .. LastMonth - 1 :
        (StoredUnits(c, m) > 0 /\ ~HasInvoice(c, m)) ~> HasInvoice(c, m)
==============================================================================
