# A formal model of the metered-billing core

This directory is a TLA+ development of the metered-billing service: customers
report usage events, a worker rolls them up into hourly windows, once a month
each customer gets one invoice priced by tiers and reduced by credits, and
operators and a payment provider act on the invoices afterwards. Customers see
their own rows only, operators all of them.

* TLC model-checks the modules on small instances (`MC*.tla`, `*.cfg`).
* TLAPS checks the theorems of `*_proofs.tla` for every value of the constants:
  the safety properties of every component, and that the detailed modules
  implement the abstract ones.
* `PROJECT.json` lists components, runs, mutants, hazards, theorems, and the
  source lines every definition stands for.

Run `tlc -config Metering_safety.cfg MCMetering.tla` for a run and
`tlapm Metering_proofs.tla` for the proofs.

## 1. Inventory

Everything is shared through one Postgres database. The processes `api` and
`worker` never call each other, and there may be several of each. Every store
function is one transaction at the default isolation level, Read Committed.

| Component | State | Operations | Interacts with |
| --- | --- | --- | --- |
| Event ingest (`postgres/events.go`, `services/ingest.go`, `controllers/events.go`) | `usage_events` (primary key `request_id`), `dirty_hours` with its `gen` | `InsertBatch`: one transaction, per event an `INSERT ... ON CONFLICT DO NOTHING` and, for a new row, an upsert of the dirty hour | Clients (lost answers, retries); other ingests through the unique index and row locks; the hour job through `dirty_hours` |
| Hour job (`postgres/hours.go`, `services/hours.go`) | `usage_windows` | `ProcessDirtyHours`: one transaction that locks the oldest dirty rows (`FOR UPDATE SKIP LOCKED`), sums each hour, replaces its window and deletes the row if `gen` still matches | Ingest, other workers, the invoice job (reads windows and dirty hours) |
| Pricing (`services/price.go`) | none | `PriceUnits`, `SumAmounts`, `ApplyCredits` | Invoice job |
| Invoice job (`services/invoices.go`, `postgres/invoices.go`) | `invoices`, `invoice_line_items`, `credit_grants.remaining_micros` | `IssuePreviousMonth`: list the customers, then per customer `SumUnits`, `Tiers`, `RemainingCredits`, `SaveInvoice`, each in its own transaction | Hour job, ingest, operators, other workers |
| Worker loop (`cmd/worker/main.go`) | a ticker | hour job, then invoice job; an error ends the run until the next tick | both jobs |
| Operator actions (`postgres/ops.go`, `services/ops.go`, `controllers/ops.go`) | `credit_grants`, `invoices`, lines, `audit_entries` | `IssueCredit` (idempotency key), `OverrideLine` (lock on the invoice, recomputed totals, audit) | Invoice job, webhook |
| Payment webhook (`controllers/webhook.go`, `postgres/ops.go`) | `webhook_events`, `invoices.status`, `paid_at` | `ApplyPayment` | Override |
| Invoice reads (`postgres/invoices.go`) | none | `GetInvoice`, `GetInvoiceByID`: the invoice, then its lines, in two statements | Override, webhook |
| Listings (`services/usage.go`, `postgres/usage.go`, `List` and `ListCustomers`) | none (a cursor or an offset held by the client) | usage by cursor; invoices and customers by offset | Hour job, invoice job, seed |
| Keys, tenants, row-level security (`controllers/middleware.go`, `services/auth.go`, `postgres/keys.go`, `migrations/`) | `api_keys`, two settings of a connection while a transaction lasts | lookup of a key's hash, `withCustomer`, `withOps`, row policies | every transaction |
| Connection pool (`postgres/pool.go`) | idle connections | taken by each transaction and each lone query | every request |
| Seed (`cmd/seed`) | none of its own | creates firms with usage in chunks, runs the hour job until it finds nothing, issues the month before | workers that are running |
| Customer overview (`GetCustomer`), domain constants, web UI | - | - | - |

What is hard, and what makes each component correct:

* **Ingest against ingest.** Retries and concurrent requests with the same id.
  Correct: one row per request id; a 200 is never given for an id that a
  concurrent rollback later removes; batches that lock hours in opposite
  orders deadlock and are resolved.
* **Ingest against the hour job.** A late event arrives at any statement of
  the job. Correct: an hour that is not dirty shows exactly its events; no
  window overstates, none shrinks; lagging windows catch up.
* **Crashes.** Each transaction may vanish at any statement.
* **The invoice job's five transactions.** Everything it read may have changed
  when it saves. Correct: it charges only real usage, at least the usage there
  was when it looked, once per month; credits are conserved.
* **Time.** The clock passes the end of a month between any two steps.
* **Arithmetic.** Tier boundaries, several grants, credits above the subtotal.
  Ingest bounds the units of one event by an int64 and nothing more: products
  wrap, sums of an hour or a month do not fit. An hour or a customer like that
  fails every run that gets to it, and runs stop at the first error.
* **The seed beside workers.** Dozens of transactions, a death between any two,
  workers that lock its hours or issue its month half-way.
* **Operator actions and payments.** An override races the payment of its
  invoice, deliveries of one event overlap, one of them fails, a key is sent
  twice. Correct: as if each were indivisible; a paid invoice is frozen; totals
  are those of the lines; a payment answered 200 is in the books; a key gives one
  credit; nobody waits for ever. A reader of a paid invoice sees the lines its
  totals are made of.
* **Listing while rows appear.** Correct by cursor: in order, no row twice, none
  lost. By offset: none lost, and repeated only as rows appear.
* **Shared connections.** `ListInvoices` and `ListWindows` name no customer; who
  asks is a setting on a connection that others used before, and may have left by
  an error. Correct: each answer is as if the request were alone, a revoked key
  is refused, and a small pool does not stop: no request keeps a connection while
  it waits for another.

The hazards, at their lines and with the properties that address them, are in
`PROJECT.json`.

## 2. Plan

Built, in this order:

1. `Usage`, vocabulary: events, hours of a key ("slots"), units of an hour.
2. `Meter`, the abstract promise of the metering pipeline.
3. `Metering`, ingest and hour job at the grain of SQL statements; it
   implements `Meter`. `MCMetering` instantiates it.
4. `Metering_proofs`, type correctness, every safety invariant and the
   refinement, proved.
5. `Pricing`, invoice arithmetic; `MCPricing` checks it over bounded inputs.
6. `Months`, `Billing`, `Invoicing`: what the invoice job promises (`Billing`),
   and the job over `Meter`, with `Pricing`, which implements it.
   `MCInvoicing` instantiates it.
7. `Books`, `Ledger`, `Ops`: what may happen to issued invoices and credits,
   abstractly (`Ledger`) and as concurrent transactions (`Ops`, which implements
   it). `MCOps` instantiates `Ops`.
8. `Listings`, the three paged lists; `MCListings` instantiates it.
9. `Seeding`, the seed composed with `Invoicing`'s workers; `MCSeeding`.
10. `Tenancy`, keys, connections and row policies; `MCTenancy`. `Tenancy_proofs`
    proves its safety properties.
11. `Sums`, what a SUM over rows is, and `Sums_proofs`, its laws.
12. `Ops_proofs`: what open transactions rely on, every safety property of `Ops`,
    and that it implements `Ledger`.
13. `Pricing_proofs`, what the arithmetic computes, and `MCPricing_proofs`, the
    properties of a bill.
14. `Invoicing_proofs`: the safety properties of the invoice job and of the seed,
    and that both implement `Billing`.
15. `Listings_proofs`: the three properties of the paged lists.

Next, most important first:

16. What is proved between the modules: that the invoices `Billing` issues are a
    state `Ledger` may start from, so that what holds of `Ops` holds of them.
17. Composition of `Invoicing` and `Ledger`: invoices issued while others are
    overridden and paid, credits granted by key and spent by the job.
18. Action properties of `Invoicing` and `Tenancy` beside the invariants: an
    issued invoice never changes, what a grant has lost it never gets back.

## 3. Modules and their code

### Usage and Meter

`Event` is the set of events clients may report: a request id, the API key
(which fixes the customer), the hour of `event_ts`, units. A *slot* is a key
and an hour, the primary key of `dirty_hours` and `usage_windows`.
`HourUnits(events, s)` is the SUM of the hour job, defined as the number of
unit tokens of its rows. A sum defined as a cardinality needs no recursion, so
what the proofs need of it (it grows with the events, it is untouched by other
slots' events) follows from the library's facts on finite sets.

`Meter` is what the pipeline promises without transactions, locks or crashes:
`Record(E)` stores new events and makes their hours stale, `Refresh(S)` brings
the windows of some stale hours to the exact sum. Nothing else is observable.

### Metering

Every statement of the two transactions is an action, and every action takes
what the database does as its guard:

| Code | Action |
| --- | --- |
| `postEvents`, `Ingest`, `Begin` | `Begin(p, b)`; any offered batch, any number of times, so retries and resent parts of batches are included |
| `INSERT INTO usage_events`, no row affected, `continue` | `SkipDuplicate` |
| the same, one row | `InsertEvent`; waits while another open transaction has inserted the id |
| upsert of `dirty_hours` | `MarkDirty`; waits for a row that another transaction wrote or locked |
| `Commit` and the answer | `CommitBatch(p, answered)`; the answer may be lost |
| deferred `Rollback`, cancelled request, crash | `RollbackBatch` |
| the server's deadlock detector | `BreakDeadlock` (external) |
| `SELECT ... FOR UPDATE SKIP LOCKED` | `SelectDirty` |
| `SELECT SUM` | `SumHour` |
| upsert of the window, `DELETE ... AND gen = $4` | `RewriteHour` |
| `Commit`, `Rollback`, crash | `CommitHours`, `RollbackHours` |

Uncommitted writes are kept per transaction (`inserted`, `marked`, `sums`,
`dropped`) and folded into the tables by the commit. A row lock is held exactly
while an open transaction has written or selected the row. What is abstracted:
`SELECT ... FOR UPDATE` locks its rows in one step; the upsert and the delete of
an hour are one step because nobody reads either before the commit, and the
`gen` of a locked row cannot move; a window without a row and one with 0 units
are the same, and likewise for `gen` 0 (units are positive, so no row is ever
written with 0); endpoints and timestamps within the hour are left out, and
row-level security is in `Tenancy`.

`MaxUnits` is the largest sum an int64 holds. Postgres sums exactly and the scan
of a larger sum fails (`FailSum`), and with it the job, for all hours it
locked.

### Pricing

`PriceUnits`, `ApplyCredits` and `Bill` (the arithmetic of `issueOne`) as
functions of the units, the tiers and the grants. The loops' `break` and
`continue` are set conditions (`Reached`, a quantity above 0, a take that is
not 0). Products and sums are those of an int64: `Wrap` folds a result into
`-Half .. Half - 1`, where `Half` is 2^63 in the code and a small constant here.
`Storable` is what the CHECKs of the tables let in: amounts that wrapped to below
zero are refused.

The lines of a bill are rows with their position, as in `invoice_line_items`: the
tiers that bill something in their order, then the grants that are used in
theirs (`Rank`). Adding with a wrap at every addition is adding exactly and
wrapping once, so `SumAmounts` is one `Wrap` of a sum.

`Sums` is `COALESCE(SUM(...), 0)` over a finite set of rows, for the totals of an
invoice, the credits of a customer and the rows of pages.

### Months, Billing and Invoicing

`Months` says whose usage an hour is and which month it is in. `Billing` is what
the job promises, with no transactions, workers or windows: an invoice is issued
in one step, for a month that is over and has none, charges units that were
reported for it, and takes credit the customer had, oldest first.

A worker's run is `HourJob`, `ReadClock`, `ListCustomers`, then per customer
`SumMonth`, `ReadCredits` and `SaveInvoice`, and `FinishRun`; `AbortRun` at any
point is an error or a crash. Each of them is one transaction of the code. The
hour job is one step here, `Meter!Refresh`; that `Metering` implements `Meter`
is what allows it. `StoreEvent` (ingest, for any month at any time), `IssueCredit`
and `Tick` (the clock enters the next month) may happen between any two steps.
`seen` is a history variable: what each customer had stored when it was listed.
`Tiers` and `RemainingCredits` are one step because nothing in the program
changes a plan. `Refused` names the errors that do not pass: the units of a month
that do not fit, and a bill that is not `Storable`; `FailRun` is the end of the run
they cause. `Stuck` says when a month has such a customer or hour.

`BillingSpec` maps the variables of the same name and forgets windows, workers
and `seen`. It holds while all workers issue the same month; two months at once
break it (Findings).

### Seeding

`Seeding` extends `Invoicing`: the seed is one more process, `Seed`, that runs
the invoice job's own steps once it gets there.

| Code | Action |
| --- | --- |
| `main` up to the loop, `seeded` | `StartSeed`; also again after an end or a death |
| `createFirm`, a chunk of `flush` | `Load`, following `Script` |
| one round of `ProcessDirtyHours` | `HourPass`; takes the oldest rows that no worker has locked (`Taken`) and gives up after `SeedHourPasses` rounds |
| `IssuePeriod` | `SeedIssue` |
| `log.Fatal`, a crash | `Die` |

The workers, the clock and the operators go on (`Others`). Which rows a worker has
locked is chosen anew in every pass, from what is stale, if some worker is where
its hour job would be: in `Invoicing` an hour job is one step.

### Books, Ledger and Ops

`Books` is the vocabulary: invoices, lines, and the totals `OverrideLine`
computes from lines. `Ledger` has three indivisible operations, `Override`,
`Pay` and `Grant`. `Ops` is `internal/postgres/ops.go` statement by statement:

| Code | Action |
| --- | --- |
| handlers, `OpsService` | `Begin`; any request of `Request`, any number of times |
| `IssueCredit`: insert or, on conflict, select | `InsertGrant`, `CommitCredit` |
| `OverrideLine`: `SELECT ... FOR UPDATE OF i` | `ReadLine` (the snapshot, with the old amount), then `LockInvoice` or `RejectPaid` (after the wait the invoice is read again, the line is not) |
| the two `UPDATE`s | `WriteLine` |
| audit entry, `Commit` | `CommitOverride` |
| `ApplyPayment`: insert of the event | `RecordReplay` or `RecordEvent`, then `ReferenceInvoice` (the foreign key's `FOR KEY SHARE`) |
| `UPDATE invoices ... AND status = 'issued'` | `MarkPaid` |
| `Commit` | `CommitPayment` |
| `GetInvoice`, `GetInvoiceByID` | `ReadHead`, `ReadLines`, `CommitLook`: at Read Committed each statement has its own snapshot |
| an error, a crash | `Rollback` |

Which locks conflict is Postgres' table of row locks: `FOR UPDATE` excludes
everything, the update of a status excludes updates, `FOR KEY SHARE` excludes only
`FOR UPDATE`. They are operators over how far each transaction is (`OverridersOf`,
`ReferrersOf`, `PayersOf`, and `GrantersOf`, `RecordersOf` for unique keys).
`invoices[i].paidBy` stands for `paid_at`: which payment it was. The remaining
amount of a credit, which only the invoice job changes, is in `Invoicing`.

### Listings

A client that asks for a list and goes on to the next page, while rows are added
anywhere in the order. `FetchPage` is a page of usage: the one row fetched beyond
the page and the cursor's comparison are as in the code, with the test for "no
cursor" at the zero time. `FetchList` is a page of invoices or customers, with
`OFFSET`. Both are ordered by columns that need not tell rows apart (the instant
of issue, the name), and then the database may put such rows in another order for
every page: `FirstRows(n)` is the set of all choices it has. A page is the set of
its rows: within a page they are in the order of the query, and the last one is
the greatest (`LastOf`). A client may begin behind the first rows of a list
(`LeftOut`), also with a negative offset. The rows of other customers are not
there: `Tenancy` is about that.

### Tenancy

| Code | Action |
| --- | --- |
| the routes, `requireOps` | `Arrive(p, r)`; the operators' token is compared at once |
| `requireCustomer`, `FromToken`, `LookupByHash` | `StartLookup`, `Lookup`: a connection of its own, given back by `Scan` |
| `Pool.Begin`, `set_config(..., true)`, the query, `Commit` | `BeginTx`, `SetConfig`, `Query`, `CommitTx` |
| health check | `StartPing`, `Ping` |
| an error, a client that goes away, `defer Rollback` | `Abort`, at any point |
| `UPDATE api_keys SET revoked_at` (by hand) | `Revoke` (external) |

`Visible` is the policy, the same on every table. All tables with a policy are
one set of rows, and all queries are two: a list, and a single row by its id.
The payment webhook goes the operators' way, with its signature for a token.
A token is a value: that one cannot be guessed is an assumption
(`OpsTokenAssumption` for the one case the proofs need).

## 4. Runs

| Run | Instance | What it shows |
| --- | --- | --- |
| `metering_safety` | 2 sessions, 2 workers, 1 key, 2 hours, 4 request ids, 2 batches of 2 and one of 3 with an id twice, jobs of up to 2 hours | Types; one row per id; clean hours exact; acknowledged ids stored; the delete never misses; sums exact when published; windows neither overstate nor shrink; `Meter` implemented |
| `metering_live` | 2 sessions, 1 worker, the batches of 2 (the longer one is refused), jobs of 1 hour, so that the oldest goes first; fair | Requests end, windows catch up |
| `acked_event` | 1 session | *violated*, see Findings |
| `pricing` | up to 5 units; plans of 2 tiers the CHECKs accept and gapless ones of 3, bounds up to 3, prices up to 2; 2 grants of up to 3; 8 for 2^63 | Tier lines are the price of the units one by one, as far as they fit; credits cover what they can, oldest first; lines add up and are numbered without gaps |
| `invoicing_solo` | 1 worker, 3 months, events in both billed months and at the month's edge, a neighbour whose usage cannot be billed, 1 grant, 8 for 2^63; fair | Types; only real usage is billed; what was stored when the job looked is billed; credits conserved; `Billing` implemented; usage of the month that just ended gets its invoice before the next month ends, or that month ends first, or the month is `Stuck` |
| `invoicing_doora`, `invoicing_double` | 1 and 2 workers | *violated*, see Findings |
| `seed` | the seed and a worker, 2 firms, 3 chunks, hour jobs of 2 rows in up to 3 rounds, 2 months, 1 grant | Firms are seeded once; a seed that ended well leaves invoices; two processes issuing one month give one invoice each and implement `Billing` |
| `ops` | 2 sessions, overrides of both lines of an invoice, 2 events that pay it, a credit sent repeatedly, a reader; fair | Types, totals, frozen paid invoices, answered payments, one credit per key, reads of paid invoices agree, `Ledger` implemented, no cycle of waits among shared, updating and exclusive locks |
| `ops_audit` | 2 sessions | *violated*, see Findings |
| `listings` | usage: 3 hours, 2 keys, pages of 1, 2 (default) and 3 (maximum) rows, filters, a refused range; lists by offset with rows that tie, from the first row, the third and a negative offset; rows appear at any time | Pages of usage ascend; nothing is skipped but rows that tie or are left out; rows are shown again only as rows appear |
| `tenancy` | 3 sessions, 1 connection, 2 customers with a key and a row each, 7 requests, among them another customer's row, either token where the other belongs, the health check; fair | Answers are what the request alone would get; revoked keys are refused; idle connections are clean; requests end |

Why the bounds are enough. Two sessions and two workers give every pairwise
conflict on ids and rows, and the batches take two hours in opposite orders, so
that both sides of a conflict and a real deadlock occur; two batches share ids
with the third, so duplicates of committed, uncommitted and rolled back rows
occur. Hours are the unit of locking and of recomputation, so two of them show
order and interference; the proofs cover any number. In `Invoicing` the hours 10
and 19 are the first and the last of month 1 and hour 20 is the first of month 2,
which is what an off-by-one at a month's edge needs. Credits of 1 and 4 are
below and above the subtotals that arise, and the plan has a free tier,
so that an invoice of 0 occurs too. In `metering_live` an int64 holds 2 units
(`MaxUnits`) and an hour may have more, so that its job fails again and again. With 8 for 2^63, 7 units are stored and
their bill wraps. In `Seeding` two rows for a job and three rounds make the seed
end well, die of the last round and find rows locked; the worker issues the month
between two chunks. In `Tenancy` three sessions with one connection make one wait
behind another that needs it twice; the proofs cover any number. In `Ops` the
overrides make one line 0 and the credit larger than what it is taken from, so
that the total is clamped, and two requests at once give every pair of
conflicting locks. `LastMonth` stops the clock, `MaxGrants` the grants, and
`MaxAudit` the overrides that may begin (with two in progress one more than it
are applied); they are the only bounds on counters, and events are finite
because their ids are. `listings` does not check for deadlock: a client that
has read everything, with all rows there, stops. Nor does `pricing`, which has
nothing to do after its one choice.

### Fairness

* `SF(SessionProgress)`: a statement that waits is queued on the lock and is
  granted it in turn, so ever-new transactions cannot pass it over. Postgres
  queues waiters; weak fairness would say less than it does.
* `WF(BreakDeadlock)`: the detector runs after `deadlock_timeout`.
* `WF(WorkerProgress)`: the worker's ticker. A worker takes whatever rows are
  free at that instant, so no more than weak fairness is justified.
* Faults end (`<>[][~Fault]`): without it a job could fail at every attempt.
  An hour whose sum does not fit is not such a fault, it fails for ever;
  `WindowsCatchUp` names what it holds up.
* `Ops`: `SF(Progress)` as for sessions; failures of transactions that have
  written something end, because shared locks of deliveries that fail again and
  again could follow each other without a gap. There is no deadlock detector in
  this model, so `OperationsEnd` says that none is needed.
* `Invoicing`: `WF(RunStep)`; `SF(HourJob(w, stale))`, that is, a job that takes
  all stale hours happens again and again when it can. This stands for what
  `metering_live` shows of the detailed job. `PromptSpec`, used by one violated
  run only, is the kindest timing: no month ends before the workers have done
  all that is to be done in it. What `Refused` names is not a fault that ends.
* `Tenancy`: `SF(Progress)`: the pool serves who waits in turn, and statements
  end. Nothing is assumed of failures, and no request has to give up for another
  to go on.

## 5. Findings

Each is a run whose one property quotes the repository and fails.

* `AckedEventIsStored` (DESIGN.md:20, "HTTP 200 means the event is in
  Postgres."). A request id is unique over all tenants. When two keys use the
  same one, the second event is counted as a duplicate and answered 200, and is
  not stored. What does hold is `AckedRequestIsStored`: a row with that id is.
* `DoorA` (DESIGN.md:172, "The month is not issued yet. ... The invoice will
  include it."). The job only ever looks at the month before the current one. An
  event that arrives later for an older month without an invoice is stored and
  its window rebuilt, and no run ever invoices it. What does hold is
  `MonthIsInvoiced`.
* `CreditsConserved` with two workers around a month's end (DESIGN.md:212, "More
  workers already work because of `SKIP LOCKED`."). A worker still issuing the
  month before and one that issues the next read the same grant; both
  invoices apply it, and each writes the remainder it computed. With the same
  month the unique index saves it (`BillingSpec` in `seed`, where seed and worker
  issue one month), with one worker it holds throughout (`invoicing_solo`).
* `AuditIsAChain` (DESIGN.md:250, "read audit for an override"). Two overrides
  of one line: the second reads the old amount in its snapshot, then waits for the
  first to commit. Its audit entry says that it changed the amount there was
  before both.

Remarks that no run is spent on:

* DESIGN.md:39, "The invoice job **waits** if any hour in that period is still
  dirty." The check is made once, in the transaction that lists the customers; an
  event stored after it makes an hour dirty and the invoice is saved all the
  same. What the wait gives is `ListedUsageIsBilled`.
* A cursor of the first hour of year 1, Go's zero time, is taken for no cursor
  (`AfterCursor`). An event with such a time is accepted, but a range that holds
  the hour must begin in year 0, so this is an edge of the encoding.
* DESIGN.md:37 says that a late event during the job bumps `gen` and the
  delete misses. In the code the job's `FOR UPDATE` makes the upsert of that
  event wait until the job commits, so the delete never misses
  (`DeleteNeverMisses`, proved), and the event then creates the dirty row
  anew. The outcome the document promises, an hour that stays dirty, is what
  happens.
* A subtotal that wraps to a positive number passes every CHECK and is issued:
  `TierSumIsUnitSum` holds modulo the width. One that wraps to a negative number
  fails in every run, and so does a sum of units that does not fit; the customers
  behind it in the unordered list are invoiced by other runs only if the list
  happens to put them first. `MonthIsInvoiced` holds but for this.
* An invoice that is not paid may be shown with the totals of before an override and
  the lines of after it (`PaidReadsAgree` is what remains).
* `ListCustomers` orders by a name that is not unique, and by nothing else: two
  customers of one name may change places between pages, and one be on neither.
  The UI reads only the first 200 customers (`Ops.tsx`), and only the first 200
  windows of a month, without following `next_cursor` (`Customer.tsx`).
* A negative offset becomes 0 for invoices and reaches the database, which refuses
  it, for customers.
* Two seeds started at once both find no customer, and each creates all firms. A
  seed that died after its first firm is never completed, for it then finds that
  firm.

## 6. Proofs

### Metering_proofs

`Metering_proofs.tla`, for any events, any number of sessions and workers, any
batches and any job limit. Assumptions: each event has a request id, key, hour and
units that are positive naturals (`EventAssumption`), offered batches are
sequences of events, limits are naturals (`OfferedAssumption`,
`LimitAssumption`), and the units of one event fit the width of a window
(`WidthAssumption`).

The invariants are proved in layers, each step using the layers below:

1. `TypeCorrect`: types.
2. `LocksExclusive`: no dirty row is written or locked by two open transactions.
   This is where the guards of `MarkDirty` and `SelectDirty` are used, and the
   only place: everything else follows from exclusion.
3. `MarksCorrect`: an open request has marked exactly the hours it inserted
   rows for, the current one apart. Hence a commit that adds an event to an hour
   leaves a dirty row there.
4. `HoursInv` (`CleanHoursAreExact`, `DeleteNeverMisses`, `PendingSumsAreExact` and
   what a job has done so far, `JobProgress`): none of the three is inductive
   alone. A held row cannot be marked (2), so neither its `gen` nor, by 3, the
   committed events of its hour change, so the sum that was read is exact when
   it is published, and deleting the row is right. `CleanHoursExact`,
   `DeletesHit`, `PendingSumsExact` are its parts.
5. `WindowsBounded` and `WindowsGrow`: a window is only written with an exact
   sum, and sums grow.
6. `RowsUnique`, from the wait in `InsertEvent`; `AckedIsStored`, strengthened by
   "every event a request has passed is stored or its own".
7. `ImplementsMeter`: `Spec => MeterSpec`. A commit of a batch maps to `Record` of
   its new rows, a commit of a job to `Refresh` of its rows (by 4), every other
   step to a stutter.

### Tenancy_proofs

For any sessions, any connections, customers, keys, rows and requests. Assumptions:
each key and each row has a customer, requests take one of the three ways
(`KeyAssumption`, `RequestAssumption`), the "none" values are none
(`NoneAssumption`), and no key's text is the operators' token
(`OpsTokenAssumption`).

The inductive invariant `IInv` has four parts, because none of the properties is
inductive alone:

1. `Types`.
2. `Exclusive`: a session has a connection exactly where the code has one, it is
   not idle, and no one else has it.
3. `Settings`: the setting of a connection is empty but between `SetConfig` and the
   end of the transaction of the session that has it, and is then that of its
   request. By 2 no other session's step touches it.
4. `Serving`: past the lookup a customer's token is a key, the request did not come
   after a revocation, and the answer is right as soon as the query has run. The
   last needs 3, which names the rows the policy shows.

`AnswersAreOwn` (`AnsweredAsIfAlone`), `RevokedRefused` (`RevokedIsRefused`) and
`IdleClean` (`IdleConnectionsAreClean`) follow.

### Sums_proofs

The laws of `SumOver`: it does not depend on the order of the fold (`SumRemove`),
splits over disjoint sets (`SumUnion`), follows a renaming (`SumImage`), grows
with its values (`SumMonotone`), and a sum of values that are apart by multiples
of `w` is apart by a multiple of `w` (`SumModulo`). Induction over sets is not
within the provers' reach as a theorem with an operator for a parameter;
`SmallestSubset` stands for it: a family of subsets of a finite set that is not
empty has a smallest member, so a law that fails of some subset fails of one all
of whose smaller ones obey it.

### Ops_proofs

For any invoices, lines, sessions and requests. Assumptions: an invoice's lines
are among finitely many and issued with a total of at least 0
(`LineAssumption`, `IssuedAssumption`), requests have the fields of their kind
(`RequestAssumption`).

No property of `Ops` is inductive alone. `IInv` says of each request:

1. `Stage`: which statements it goes through, and what it has written by then.
2. `Fact`: what it may rely on there. An override past its lock knows that the
   invoice is not paid and that the totals it computed are those of the lines with
   its own one changed; a payment past its foreign key's lock, that the event is
   new; a reader past its first statement, what the invoice was.
3. `Apart`: two open requests never rely on the same row. This is where the locks
   and the unique keys are used, and why a commit of one leaves the `Fact`s of
   the others alone.

`TotalsAlwaysAgree`, `AckedPaymentsArePaid`, `OneCreditPerKey`,
`PaidInvoicesReadWhole` and `PaidStaysFrozen` follow. `ImplementsLedger` maps the
commit of an override, of a payment and of a credit to the step of `Ledger` with
that name, a replay and every other step to a stutter.

### Pricing_proofs and MCPricing_proofs

For any plan, any list of grants, any width of an integer. The take of a grant is
defined by recursion over the grants before it. It is unrolled once (`NeedStep`),
and then by the least place at which a claim fails: what is still needed before
grant `i` is the subtotal less all takes before (`OldestFirst` and what it rests
on), so the credit is the lesser of subtotal and grants, and no sum of takes
wraps. `Numbered` shows that ranks give the lines the positions 1, 2, 3, ...;
`BillAddsUp` that lines, credits included, add up to the total modulo the width.

For the tiers, `MCPricing_proofs` takes a plan without gaps as a chain
(`Chain`): the first `m` units fall in its tiers in parts that grow by one, in
one tier, with each unit (`PartGrows`), so the price of the parts is that of the
units one by one (`CostByUnit`), and what the code's loop bills are the parts
that are not empty (`BilledParts`). `TiersCharge`, `CreditsCover`,
`OldestFirstTaken` and `LinesAddToTotal` are the properties of the run, for any
usage, any number of tiers and grants and any bounds and prices, subtotals that
wrap included; `CreditsCover` and `OldestFirstTaken` need a subtotal of at least 0,
and say so, as the invoice is not stored otherwise. The bounds of the instance
are naturals, and a grant fits an int64 (`SizeAssumption`).

### Invoicing_proofs

For any workers, customers, events, plans, grants and months. Assumptions: finitely
many keys report usage (`KeysAssumption`; a sum over a month's hours is over
finitely many), units are positive and each key has a customer, a plan is what its
CHECKs let in and a grant fits an int64 (`PlanAssumption`, `GrantAssumption`),
months have hours and the clock passes at least one month's end
(`LastMonthAssumption`).

`Inv` is in layers:

1. `UsageInv`: windows never show more than the events, and as much where nothing
   is stale. Usage only grows (`UsageGrows`).
2. `Run`, per worker: its month is over; past the list, everything it saw was in
   the windows when it looked; the units it read lie between what it saw and what
   is reported; the credits it read are some that were there.
3. `InvoiceOK`, per invoice: it charges what `Run` says of the worker that
   issued it.

`TypeCorrect`, `RealUsageBilled`, `ListedUsageBilled` and `OneInvoice` follow.
Credits need `Fresh` besides: what a worker read of the grants is what they are,
or its invoice will be refused. That is not true of all runs
(`invoicing_double` in Findings is the counterexample), but of all in which no
customer is being invoiced for two months at once: `OneMonthAtATime` is a
hypothesis of `CreditsAreConserved` and of `ImplementsBilling`, as an invariant of
the run and not of the code. With one worker it always holds, and
`CreditsConservedAlone` and `ImplementsBillingAlone` have no hypothesis on time.
The refinement maps `SaveInvoice` to the issue of an invoice, and uses
`OldestFirst` of `Pricing_proofs` for the credit it takes.

The last part is about `Seeding`, for any script of firms to create and finite
chunks to load that creates no firm twice (`ScriptAssumption`, true of the list in
the source). Each step of the seed is a step of `Invoicing`, or one that touches
neither clock nor invoices and gives the seed's run what a worker's has
(`Prepares`); so `Inv` holds, and with it `OneInvoiceWithSeed`, `RealUsageWithSeed`
and, under the same hypothesis, `CreditsWithSeed` and `SeedImplementsBilling`. For
the firms: when the customers are listed each firm is `Settled` (it has its
invoice, no usage in the month, or an hour some worker had locked) or `Due` (in the
queue, or being seen to), and every later step keeps that; hence `FirmsInvoiced`.
`FirmsOnce`: a seed that finds a firm ends.

### Listings_proofs

For any rows, page sizes and queries. Assumptions: rows are an hour (an instant, a
name) and a key, as numbers (`RowAssumption`), pages hold a row at least
(`PageAssumption`), the numbers in a query are integers (`QueryAssumption`).

A finite set in a strict order has the places 0, 1, 2, ... (`Places`), and the
first `n` of it are `n`, or all (`FirstCount`). Hence a page of usage is all that
lies behind the cursor up to the cursor it returns, or all there is (`FetchEffect`).
`UsageInv`: what the client asked for and has not seen is behind the cursor.
`AscendInv`: the cursor is the last row seen. `ListInv`: a row that ties with none
and has fewer rows ahead of it than the offset has been seen, or was left out; and
the offset is where the client began plus what it was shown. Rows that appear only
put more rows ahead (`RowsGrow`).

`NothingLost` and `ShiftsOnly` need nothing more: of the rows ahead of the offset
each is new, seen or left out, and there are as many as were shown. `UsageInOrder`
has the hypothesis `HoursAreSet`, that no window is of Go's zero time: a cursor
there is read as none, and the list would begin again (see the remark in
Findings).

### Only model-checked

Liveness, since fairness and ENABLED are out of the prover's reach: `RequestsEnd`
in `metering_live` and `tenancy`, `WindowsCatchUp`, `MonthIsInvoiced`,
`OperationsEnd`. That the hypothesis `OneMonthAtATime` holds when workers are
faster than months is a matter of time and in no module.

## 7. Not modelled

* `GetCustomer`, the operators' overview of one customer: today's units, an
  average over 30 days and the last invoices. It changes nothing, and its figures
  are a matter of floating point and of the database's time zone.
* Hashing of keys, signatures, CORS, decoding and formatting: stateless per
  request. Which way a request goes and what a token opens is in `Tenancy`.
* Opening and closing of the pool and the server, signals, logging, the length of
  the worker's tick.
* `job_locks` (unused in the code), the audit trigger, the audit row of a credit
  (it repeats the grant).
* Months of different lengths and time zones: a month has `HoursPerMonth` hours.
* The random usage the seed draws: `Script` gives its chunks.
* The web UI. It draws a new idempotency key for every click, so what
  `CreditOncePerKey` gives does not extend to an operator who clicks again after
  a lost answer.
