------------------------------- MODULE Listings -------------------------------
(***************************************************************************)
(* A client that reads a list page by page while rows are added:           *)
(* GET /v1/usage by cursor (internal/services/usage.go,                    *)
(* internal/postgres/usage.go), GET /v1/invoices and GET /ops/customers by *)
(* offset (List and ListCustomers in internal/services and                 *)
(* internal/postgres).                                                     *)
(*                                                                         *)
(* The server keeps nothing between pages: the place to go on from is the  *)
(* cursor, the hour and key of the last row of a page, or a number of rows *)
(* to leave out.  A row is what it is sorted by and an id; what else it    *)
(* shows is left out, and so are other customers' rows, which the row      *)
(* policies hide.  A page is the set of its rows: in a page they are in the *)
(* order of the query, and its last row is the greatest.                    *)
(***************************************************************************)
EXTENDS Sums, Sequences

CONSTANTS Row,              \* rows there may be: <<hour, key>> of a window,
                            \* <<issued_at, id>>, <<name, id>>
          Query,            \* [list |-> "usage", from, to, key, limit], key 0
                            \* for no filter; [list, offset, limit] with list
                            \* "invoices" or "customers"
          DefaultPage,      \* per list: DefaultPageSize, DefaultInvoicePage
          MaxPage           \* per list: MaxUsagePage, MaxInvoicePage, MaxOpsPage

\* Hours and keys are numbered in their order; hour 0 is Go's zero time.
ZeroTime == 0

ASSUME RowAssumption == Row \subseteq Int \X (Nat \ {0})
List == {"usage", "invoices", "customers"}

ASSUME PageAssumption == /\ DefaultPage \in [List -> Nat \ {0}]
                         /\ MaxPage \in [List -> Nat \ {0}]

ASSUME QueryAssumption ==
    \A q \in Query : /\ q.list \in List /\ q.limit \in Int
                     /\ q.list = "usage" => {q.from, q.to, q.key} \subseteq Int
                     /\ q.list # "usage" => q.offset \in Int

VARIABLES table,    \* the rows there are
          query,    \* what the client reads
          initial,  \* rows it asked for that were there when it began
          cursor,   \* <<>> or <<hour, key>>
          offset,   \* rows to leave out
          got,      \* the pages so far
          pc        \* "idle", "reading" or "done"

vars == <<table, query, initial, cursor, offset, got, pc>>

NoCursor == <<>>

Init == /\ table = {}
        /\ query \in Query
        /\ initial = {}
        /\ cursor = NoCursor
        /\ offset = 0
        /\ got = <<>>
        /\ pc = "idle"

\* ORDER BY hour_bucket, api_key_id
Before(a, b) == a[1] < b[1] \/ (a[1] = b[1] /\ a[2] < b[2])

\* The hour job inserts a window, the invoice job an invoice, the seed a
\* customer, anywhere in the order: an invoice is issued_at the beginning of the
\* transaction that inserts it.  None is ever deleted.
AddRow(r) == /\ r \notin table
             /\ table' = table \cup {r}
             /\ UNCHANGED <<query, initial, cursor, offset, got, pc>>

\* What the query is about, cursor aside.
Asked(q) == {r \in table : /\ r[1] >= q.from /\ r[1] < q.to
                             /\ q.key # 0 => r[2] = q.key}

Valid(q) == q.from # ZeroTime /\ q.to # ZeroTime /\ q.to > q.from

PageSize(q) == LET n == IF q.limit <= 0 THEN DefaultPage[q.list] ELSE q.limit
               IN  IF n > MaxPage[q.list] THEN MaxPage[q.list] ELSE n

\* Mutated form: only the hour is compared.
AfterHour(r) == cursor = NoCursor \/ r[1] > cursor[1]

\* Mutated form: >= instead of >.
AfterCursorInclusive(r) == \/ cursor = NoCursor
                           \/ cursor[1] = ZeroTime
                           \/ r = cursor \/ Before(cursor, r)

\* The rows behind the cursor.  A cursor at the zero time is no cursor.
AfterCursor(r) == \/ cursor = NoCursor
                  \/ cursor[1] = ZeroTime
                  \/ Before(cursor, r)

Begin == /\ pc = "idle" /\ query.list = "usage"
         /\ Valid(query)
         /\ initial' = Asked(query)
         /\ pc' = "reading"
         /\ UNCHANGED <<table, query, cursor, offset, got>>

\* ORDER BY hour_bucket, api_key_id LIMIT n
FirstOf(rows, n) == {r \in rows : Cardinality({t \in rows : Before(t, r)}) < n}

\* ListWindows with LIMIT q.Limit, where q.Limit is one more than a page.
Fetched(limit) == FirstOf({r \in Asked(query) : AfterCursor(r)}, limit)

\* rows[len(rows)-2], when the page is all rows but the last.
LastOf(page) == CHOOSE r \in page : \A t \in page \ {r} : Before(t, r)

\* The row fetched beyond the page says that there is another one.
FetchPage ==
    /\ pc = "reading" /\ query.list = "usage"
    /\ LET n == PageSize(query)
           rows == Fetched(n + 1)
           page == FirstOf(rows, n)
       IN  IF Cardinality(rows) = n + 1
           THEN /\ got' = Append(got, page)
                /\ cursor' = LastOf(page)
                /\ UNCHANGED pc
           ELSE /\ got' = Append(got, rows)
                /\ pc' = "done"
                /\ UNCHANGED cursor
    /\ UNCHANGED <<table, query, initial, offset>>

-----------------------------------------------------------------------------
(* Invoices, newest first, and customers by name *)

\* A negative offset is read as 0 for invoices; for customers the database
\* refuses it.
BeginList == /\ pc = "idle" /\ query.list # "usage"
             /\ query.list = "customers" => query.offset >= 0
             /\ initial' = table
             /\ offset' = IF query.offset < 0 THEN 0 ELSE query.offset
             /\ pc' = "reading"
             /\ UNCHANGED <<table, query, cursor, got>>

\* Mutated form: no ORDER BY.
PrecedesNever(a, b) == FALSE

\* ORDER BY issued_at DESC, ORDER BY name
Precedes(a, b) == IF query.list = "invoices" THEN a[1] > b[1] ELSE a[1] < b[1]

\* The first n rows.  The order says nothing of rows that are equal in it: each
\* query may put them as it likes.
FirstRows(n) ==
    {S \in SUBSET table :
        /\ Cardinality(S) = IF n < Cardinality(table) THEN n ELSE Cardinality(table)
        /\ \A r \in S, t \in table \ S : ~Precedes(t, r)}

\* OFFSET offset LIMIT limit.  The client goes on behind the rows it has got,
\* and ends at an empty page: nothing else tells it the end.
FetchList ==
    /\ pc = "reading" /\ query.list # "usage"
    /\ \E skipped \in FirstRows(offset), S \in FirstRows(offset + PageSize(query)) :
          /\ skipped \subseteq S
          /\ got' = Append(got, S \ skipped)
          /\ offset' = offset + Cardinality(S \ skipped)
          /\ pc' = IF S = skipped THEN "done" ELSE pc
    /\ UNCHANGED <<table, query, initial, cursor>>

-----------------------------------------------------------------------------

Next == (\E r \in Row : AddRow(r)) \/ Begin \/ FetchPage \/ BeginList \/ FetchList

Spec == Init /\ [][Next]_vars

-----------------------------------------------------------------------------
(* Properties *)

\* No window is shown twice and the pages are in order, whatever windows appear
\* between two of them.
PagesAscend ==
    query.list = "usage" =>
        \A i, j \in DOMAIN got : i < j => \A r \in got[i], t \in got[j] : Before(r, t)

\* Rows that an ORDER BY on the first column alone cannot tell apart.
Tied(r) == query.list # "usage" /\ \E t \in table \ {r} : t[1] = r[1]

\* Rows the client asked to leave out when it began.
LeftOut(r) == /\ query.list # "usage"
              /\ Cardinality({t \in initial : Precedes(t, r)}) < query.offset

Seen == UNION {got[i] : i \in DOMAIN got}

\* A row that was there when the client began is on some page, in all three
\* lists: rows that appear push others further back and never forward.  Only
\* customers of one name, or invoices of one instant, can be lost between pages.
NothingIsSkipped ==
    pc = "done" => \A r \in initial : r \in Seen \/ Tied(r) \/ LeftOut(r)

\* The rows of all pages, a row counted once for each page that shows it.
Shown == SumOver([i \in DOMAIN got |-> Cardinality(got[i])], DOMAIN got)

\* A list read by offset shows a row again only because rows have appeared: never
\* more rows again than have appeared since the client began.
RepeatsAreShifts ==
    (query.list # "usage" /\ \A r \in table : ~Tied(r)) =>
        Shown - Cardinality(Seen) <= Cardinality(table \ initial)
==============================================================================
