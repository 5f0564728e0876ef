------------------------------ MODULE Ops_proofs ------------------------------
(***************************************************************************)
(* Proofs about Ops, for every set of invoices, lines, sessions and        *)
(* requests.  The inductive invariant says what an open transaction may    *)
(* rely on at the statement it has reached (Fact), and that two open ones  *)
(* never rely on the same row (Apart): both follow from the row locks and  *)
(* the unique keys, never from the order in which requests arrive.         *)
(***************************************************************************)
EXTENDS Ops, Sums_proofs

-----------------------------------------------------------------------------
(* The rows *)

Status == {"issued", "paid"}

PaymentRequest == {r \in Request : r.kind = "payment"}
CreditRequest == {r \in Request : r.kind = "credit"}

TotalsRow == [subtotal : Nat, credit : Nat, total : Nat]

InvoiceRow == [status : Status,
               paidBy : {NoEvent} \cup {r.event : r \in PaymentRequest},
               totals : TotalsRow]

EventRow == [event : {r.event : r \in PaymentRequest}, invoice : Invoice]

GrantRow == [key : {r.key : r \in CreditRequest}, customer : {r.customer : r \in CreditRequest},
             amount : Int]

AuditRow == [line : Line, before : Int, after : Int]

Statement == {"idle", "grant", "read", "lock", "write", "record", "reference",
              "pay", "head", "lines", "commit"}

TablesTyped ==
    /\ lines \in [Line -> Int]
    /\ invoices \in [Invoice -> InvoiceRow]
    /\ webhook_events \in SUBSET EventRow
    /\ credit_grants \in Seq(GrantRow)
    /\ audit \in Seq(AuditRow)

SessionsTyped ==
    /\ pc \in [Session -> Statement]
    /\ req \in [Session -> Request \cup {NoRequest}]
    /\ old \in [Session -> Int]
    /\ totals \in [Session -> TotalsRow]
    /\ DOMAIN shown = Session
    /\ \A p \in Session : shown[p] = [head |-> shown[p].head, amounts |-> shown[p].amounts]
    /\ wrote \in [Session -> SUBSET {"grant", "event", "status"}]

\* An invoice is paid by an event or by none, unique keys are unique, and a
\* recorded event's invoice is paid.
TablesAgree ==
    /\ \A i \in Invoice : invoices[i].status = "issued" <=> invoices[i].paidBy = NoEvent
    /\ \A i \in DOMAIN credit_grants : credit_grants[i].amount > 0
    /\ \A i, j \in DOMAIN credit_grants :
          credit_grants[i].key = credit_grants[j].key => i = j
    /\ \A row \in webhook_events : invoices[row.invoice].status = "paid"

-----------------------------------------------------------------------------
(* The inductive invariant *)

\* Which statements a request of each kind goes through, and what it has
\* written when.
Stage(p) ==
    /\ pc[p] = "idle" <=> req[p] = NoRequest
    /\ req[p].kind = "credit" => req[p].amount > 0 /\ pc[p] \in {"grant", "commit"}
    /\ req[p].kind = "override" => pc[p] \in {"read", "lock", "write", "commit"}
    /\ req[p].kind = "payment" => pc[p] \in {"record", "reference", "pay", "commit"}
    /\ req[p].kind = "look" => pc[p] \in {"head", "lines", "commit"}
    /\ "grant" \in wrote[p] => req[p].kind = "credit" /\ pc[p] = "commit"
    /\ "event" \in wrote[p] => /\ req[p].kind = "payment"
                               /\ pc[p] \in {"reference", "pay", "commit"}
    /\ pc[p] \in {"reference", "pay"} => "event" \in wrote[p]
    /\ "status" \in wrote[p] => "event" \in wrote[p] /\ pc[p] = "commit"

\* p holds FOR UPDATE, FOR KEY SHARE.
Overrides(p) == req[p].kind = "override" /\ pc[p] \in {"write", "commit"}
Refers(p) == "event" \in wrote[p] /\ pc[p] \in {"pay", "commit"}

\* What p has seen still holds.
Fact(p) ==
    /\ "grant" \in wrote[p] => Grants(req[p].key) = {}
    /\ req[p].kind = "credit" /\ pc[p] = "commit" /\ "grant" \notin wrote[p]
       => Grants(req[p].key) # {}
    /\ "event" \in wrote[p] => ~ Recorded(req[p].event)
    /\ req[p].kind = "payment" /\ pc[p] = "commit" /\ "event" \notin wrote[p]
       => Recorded(req[p].event)
    /\ "status" \in wrote[p] => invoices[req[p].invoice].status = "issued"
    /\ "event" \in wrote[p] /\ pc[p] = "commit" /\ "status" \notin wrote[p]
       => invoices[req[p].invoice].status = "paid"
    /\ Overrides(p) => invoices[InvoiceOf[req[p].line]].status = "issued"
    /\ req[p].kind = "override" /\ pc[p] = "commit"
       => totals[p] = Totals(AmountsOf(NewLines(p), InvoiceOf[req[p].line]))
    /\ req[p].kind = "look" /\ pc[p] \in {"lines", "commit"}
       => /\ shown[p].head \in InvoiceRow
          /\ shown[p].head.status = "paid" => invoices[req[p].invoice] = shown[p].head
    /\ req[p].kind = "look" /\ pc[p] = "commit" /\ shown[p].head.status = "paid"
       => shown[p].amounts = AmountsOf(lines, req[p].invoice)

\* p and q do not write the same row.
Apart(p, q) ==
    /\ "grant" \in wrote[p] /\ "grant" \in wrote[q] => req[p].key # req[q].key
    /\ "event" \in wrote[p] /\ "event" \in wrote[q] => req[p].event # req[q].event
    /\ "status" \in wrote[p] /\ "status" \in wrote[q] => req[p].invoice # req[q].invoice
    /\ Overrides(p) /\ Overrides(q) => InvoiceOf[req[p].line] # InvoiceOf[req[q].line]
    /\ Overrides(p) /\ Refers(q) => InvoiceOf[req[p].line] # req[q].invoice

Sessions == \A p \in Session : /\ Stage(p)
                               /\ Fact(p)
                               /\ \A q \in Session \ {p} : Apart(p, q)

\* What a client was told stays true.
Answered ==
    \A a \in answers :
        /\ a.req.kind = "payment" => Recorded(a.req.event)
        /\ a.req.kind = "credit" => Grants(a.req.key) = {a.grant}

IInv == TablesTyped /\ SessionsTyped /\ TablesAgree /\ TotalsAgree /\ Sessions /\ Answered

-----------------------------------------------------------------------------
(* Requests and totals *)

(* A request is of one of four kinds, and is not the absent one. *)
LEMMA RequestKinds ==
  ASSUME NEW r \in Request
  PROVE  r # NoRequest /\ r.kind \in {"credit", "override", "payment", "look"}
BY RequestAssumption DEF NoRequest

(* The absent request has a kind of its own. *)
LEMMA NoRequestKind == NoRequest.kind = "none"
BY DEF NoRequest

\* Totals are natural numbers: the subtotal adds up what is positive, the credit
\* takes the sign off what is negative.
LEMMA TotalsType ==
  ASSUME NEW a \in [Line -> Int], NEW i
  PROVE  Totals(AmountsOf(a, i)) \in TotalsRow
<1> DEFINE f == AmountsOf(a, i)
           D == {l \in Line : InvoiceOf[l] = i}
           P == {l \in DOMAIN f : f[l] > 0}
           N == {l \in DOMAIN f : f[l] < 0}
<1>1. DOMAIN f = D /\ \A l \in D : f[l] = a[l] /\ f[l] \in Int
  BY DEF AmountsOf
<1>2. IsFiniteSet(D) /\ IsFiniteSet(P) /\ IsFiniteSet(N)
  BY <1>1, LineAssumption, FS_Subset
<1> HIDE DEF f, D
<1>3. SumOver(f, D) \in Int
  BY <1>1, <1>2, SumType
<1>4. SumOver(f, P) \in Nat
  <2>1. \A l \in P : f[l] \in Nat
    BY <1>1
  <2>2. QED
    BY <1>2, <2>1, SumNat
<1>5. SumOver(f, N) \in Int /\ SumOver(f, N) <= 0
  <2>1. \A l \in N : f[l] \in Int /\ f[l] <= 0
    BY <1>1
  <2>2. QED
    BY <1>2, <2>1, SumNegative
<1>6. Totals(f) = [subtotal |-> SumOver(f, P), credit |-> 0 - SumOver(f, N),
                   total |-> IF SumOver(f, D) < 0 THEN 0 ELSE SumOver(f, D)]
  BY <1>1 DEF Totals
<1>7. 0 - SumOver(f, N) \in Nat
  BY <1>5
<1>8. (IF SumOver(f, D) < 0 THEN 0 ELSE SumOver(f, D)) \in Nat
  BY <1>3
<1>9. Totals(f) \in TotalsRow
  <2> HIDE DEF P, N
  <2> QED BY <1>4, <1>6, <1>7, <1>8 DEF TotalsRow
<1>10. QED
  BY <1>9 DEF f

(* The absent totals row is a totals row. *)
LEMMA NoTotalsType == NoTotals \in TotalsRow
<1>1. DOMAIN << >> = {}
  OBVIOUS
<1>2. NoTotals = [subtotal |-> SumOver(<<>>, {}), credit |-> 0 - SumOver(<<>>, {}),
                  total |-> IF SumOver(<<>>, {}) < 0 THEN 0 ELSE SumOver(<<>>, {})]
  BY <1>1 DEF NoTotals, Totals
<1>3. SumOver(<<>>, {}) = 0
  BY SumEmpty
<1>4. QED
  BY <1>2, <1>3 DEF TotalsRow

-----------------------------------------------------------------------------
(* What a step of p leaves alone *)

Others(p) == \A q \in Session \ {p} :
                /\ pc'[q] = pc[q] /\ req'[q] = req[q] /\ totals'[q] = totals[q]
                /\ shown'[q] = shown[q] /\ wrote'[q] = wrote[q]

(* A step that leaves a request alone leaves its stage alone. *)
LEMMA StageFrame ==
  ASSUME NEW p, NEW q \in Session \ {p}, Others(p), Stage(q)
  PROVE  Stage(q)'
BY DEF Others, Stage

(* A fact of the store holds while the store is unchanged. *)
LEMMA FactFrame ==
  ASSUME NEW p, NEW q \in Session \ {p}, Others(p), UNCHANGED tables, Fact(q)
  PROVE  Fact(q)'
BY DEF Others, Fact, tables, Grants, Recorded, Overrides, NewLines, AmountsOf

(* Two requests stay apart while neither moves. *)
LEMMA ApartFrame ==
  ASSUME NEW p, NEW q \in Session \ {p}, NEW r \in Session \ {p}, Others(p), Apart(q, r)
  PROVE  Apart(q, r)'
BY DEF Others, Apart, Overrides, Refers

\* The tables' part of the invariant is about the tables only.
LEMMA TablesFrame ==
  ASSUME TablesTyped, TablesAgree, TotalsAgree, UNCHANGED tables
  PROVE  TablesTyped' /\ TablesAgree' /\ TotalsAgree'
<1>1. TablesTyped'
  BY DEF TablesTyped, tables
<1>2. TablesAgree'
  BY DEF TablesAgree, tables
<1>3. TotalsAgree'
  BY DEF TotalsAgree, tables, AmountsOf
<1>4. QED
  BY <1>1, <1>2, <1>3

\* A step that leaves the tables and the answers alone has to care for what its
\* own session relies on, and for its session's rows.
LEMMA Quietly ==
  ASSUME IInv, NEW p \in Session, Others(p), UNCHANGED <<tables, answers>>,
         SessionsTyped', Stage(p)', Fact(p)',
         \A q \in Session \ {p} : Apart(p, q)' /\ Apart(q, p)'
  PROVE  IInv'
<1>1. TablesTyped' /\ TablesAgree' /\ TotalsAgree'
  BY TablesFrame DEF IInv
<1>2. ASSUME NEW q \in Session
      PROVE  Stage(q)' /\ Fact(q)' /\ \A r \in Session \ {q} : Apart(q, r)'
  <2>1. CASE q = p
    BY <2>1
  <2>2. CASE q # p
    <3>1. Stage(q)'
      BY <2>2, StageFrame DEF IInv, Sessions
    <3>2. Fact(q)'
      BY <2>2, FactFrame DEF IInv, Sessions
    <3>3. ASSUME NEW r \in Session \ {q}
          PROVE  Apart(q, r)'
      <4>1. CASE r = p
        BY <2>2, <4>1
      <4>2. CASE r # p
        BY <2>2, <4>2, ApartFrame DEF IInv, Sessions
      <4>3. QED
        BY <4>1, <4>2
    <3>4. QED
      BY <3>1, <3>2, <3>3
  <2>3. QED
    BY <2>1, <2>2
<1>3. Answered'
  BY DEF IInv, Answered, tables, Grants, Recorded
<1>4. QED
  BY <1>1, <1>2, <1>3 DEF IInv, Sessions

\* A request that ends relies on nothing.
LEMMA EndTyped ==
  ASSUME SessionsTyped, NEW p \in Session, EndRequest(p)
  PROVE  /\ SessionsTyped' /\ Others(p)
         /\ pc'[p] = "idle" /\ req'[p] = NoRequest /\ wrote'[p] = {}
<1>1. /\ pc' \in [Session -> Statement]
      /\ req' \in [Session -> Request \cup {NoRequest}]
      /\ old' \in [Session -> Int]
      /\ wrote' \in [Session -> SUBSET {"grant", "event", "status"}]
  BY DEF SessionsTyped, EndRequest, Statement
<1>2. totals' \in [Session -> TotalsRow]
  BY NoTotalsType DEF SessionsTyped, EndRequest
<1>3. /\ DOMAIN shown' = Session
      /\ \A q \in Session : shown'[q] = [head |-> shown'[q].head,
                                         amounts |-> shown'[q].amounts]
  BY DEF SessionsTyped, EndRequest, NothingShown
<1>4. SessionsTyped'
  BY <1>1, <1>2, <1>3 DEF SessionsTyped
<1>5. Others(p)
  BY DEF SessionsTyped, EndRequest, Others
<1>6. pc'[p] = "idle" /\ req'[p] = NoRequest /\ wrote'[p] = {}
  BY DEF SessionsTyped, EndRequest
<1>7. QED
  BY <1>4, <1>5, <1>6

(* Ending a request leaves nobody relying on anything it had read. *)
LEMMA EndRelies ==
  ASSUME SessionsTyped, NEW p \in Session, EndRequest(p)
  PROVE  /\ Stage(p)' /\ Fact(p)'
         /\ \A q \in Session \ {p} : Apart(p, q)' /\ Apart(q, p)'
<1>1. pc'[p] = "idle" /\ req'[p] = NoRequest /\ wrote'[p] = {} /\ req'[p].kind = "none"
  BY EndTyped, NoRequestKind
<1>2. Stage(p)'
  BY <1>1 DEF Stage
<1>3. Fact(p)'
  BY <1>1 DEF Fact, Overrides
<1>4. \A q \in Session \ {p} : Apart(p, q)' /\ Apart(q, p)'
  BY <1>1 DEF Apart, Overrides, Refers
<1>5. QED
  BY <1>2, <1>3, <1>4

(* A request that ends without writing leaves the invariant as it was. *)
LEMMA EndQuietly ==
  ASSUME IInv, NEW p \in Session, EndRequest(p), UNCHANGED <<tables, answers>>
  PROVE  IInv'
<1>1. SessionsTyped' /\ Others(p)
  BY EndTyped DEF IInv
<1>2. QED
  BY <1>1, EndRelies, Quietly DEF IInv
-----------------------------------------------------------------------------
(* Steps before a commit *)

(* The invariant holds initially. *)
LEMMA InitInv == Init => IInv
<1> SUFFICES ASSUME Init
             PROVE  IInv
  OBVIOUS
<1>1. TablesTyped
  <2>1. lines \in [Line -> Int]
    BY LineAssumption DEF Init
  <2>2. ASSUME NEW i \in Invoice
        PROVE  Issued(i) \in InvoiceRow
    BY LineAssumption, TotalsType DEF Issued, InvoiceRow, Status
  <2>3. invoices \in [Invoice -> InvoiceRow]
    BY <2>2 DEF Init
  <2>4. webhook_events = {} /\ credit_grants = <<>> /\ audit = <<>>
    BY DEF Init
  <2>5. QED
    BY <2>1, <2>3, <2>4 DEF TablesTyped
<1>2. SessionsTyped
  BY NoTotalsType DEF Init, SessionsTyped, Statement, NothingShown
<1>3. TablesAgree
  BY DEF Init, TablesAgree, Issued
<1>4. TotalsAgree
  BY DEF Init, TotalsAgree, Issued
<1>5. Sessions
  <2>1. \A p \in Session : /\ pc[p] = "idle" /\ req[p] = NoRequest /\ wrote[p] = {}
                           /\ req[p].kind = "none"
    BY NoRequestKind DEF Init
  <2>2. ASSUME NEW p \in Session
        PROVE  Stage(p) /\ Fact(p) /\ \A q \in Session \ {p} : Apart(p, q)
    BY <2>1 DEF Stage, Fact, Apart, Overrides, Refers
  <2>3. QED
    BY <2>2 DEF Sessions
<1>6. Answered
  BY DEF Init, Answered
<1>7. QED
  BY <1>1, <1>2, <1>3, <1>4, <1>5, <1>6 DEF IInv

\* What the next statement tells of a request.
LEMMA Reached ==
  ASSUME IInv, NEW p \in Session
  PROVE  /\ pc[p] = "idle" => req[p] = NoRequest
         /\ pc[p] # "idle" => req[p] \in Request /\ req[p] # NoRequest
         /\ pc[p] = "grant" => req[p].kind = "credit"
         /\ pc[p] \in {"read", "lock", "write"} => req[p].kind = "override"
         /\ pc[p] \in {"record", "reference", "pay"} => req[p].kind = "payment"
         /\ pc[p] \in {"head", "lines"} => req[p].kind = "look"
         /\ pc[p] \notin {"reference", "pay", "commit"} => wrote[p] = {}
         /\ pc[p] \in {"reference", "pay"} => wrote[p] = {"event"}
<1>1. /\ pc[p] = "idle" <=> req[p] = NoRequest
      /\ req[p] \in Request \cup {NoRequest}
      /\ pc[p] \in Statement
      /\ wrote[p] \in SUBSET {"grant", "event", "status"}
      /\ Stage(p)
  BY DEF IInv, Sessions, SessionsTyped, Stage
<1>2. pc[p] # "idle" =>
         /\ req[p] \in Request /\ req[p] # NoRequest
         /\ req[p].kind \in {"credit", "override", "payment", "look"}
  BY <1>1, RequestKinds
<1>3. /\ pc[p] = "grant" => req[p].kind = "credit"
      /\ pc[p] \in {"read", "lock", "write"} => req[p].kind = "override"
      /\ pc[p] \in {"record", "reference", "pay"} => req[p].kind = "payment"
      /\ pc[p] \in {"head", "lines"} => req[p].kind = "look"
  BY <1>1, <1>2 DEF Stage
<1>4. ASSUME pc[p] \notin {"reference", "pay", "commit"}
      PROVE  wrote[p] = {}
  <2>1. "grant" \notin wrote[p] /\ "event" \notin wrote[p] /\ "status" \notin wrote[p]
    BY <1>1, <1>4 DEF Stage
  <2>2. QED
    BY <1>1, <2>1
<1>5. ASSUME pc[p] \in {"reference", "pay"}
      PROVE  wrote[p] = {"event"}
  <2>1. "grant" \notin wrote[p] /\ "event" \in wrote[p] /\ "status" \notin wrote[p]
    BY <1>1, <1>5 DEF Stage
  <2>2. QED
    BY <1>1, <2>1
<1>6. QED
  BY <1>1, <1>2, <1>3, <1>4, <1>5

(* A request that begins holds no row and has read nothing. *)
LEMMA BeginInv ==
  ASSUME IInv, NEW p \in Session, NEW r \in Request, Begin(p, r)
  PROVE  IInv'
<1>1. r # NoRequest /\ r.kind \in {"credit", "override", "payment", "look"}
  BY RequestKinds
<1>2. /\ pc'[p] = FirstStatement(r) /\ req'[p] = r /\ wrote'[p] = {}
      /\ r.kind = "credit" => r.amount > 0
  <2>1. wrote[p] = {}
    BY Reached DEF Begin
  <2>2. QED
    BY <2>1 DEF IInv, SessionsTyped, Begin, Acceptable
<1>3. /\ r.kind = "credit" => pc'[p] = "grant"
      /\ r.kind = "override" => pc'[p] = "read"
      /\ r.kind = "payment" => pc'[p] = "record"
      /\ r.kind = "look" => pc'[p] = "head"
  BY <1>2 DEF FirstStatement
<1>4. SessionsTyped'
  BY <1>1, <1>2, <1>3 DEF IInv, SessionsTyped, Begin, Statement
<1>5. Others(p)
  BY DEF IInv, SessionsTyped, Begin, Others
<1>6. Stage(p)'
  BY <1>1, <1>2, <1>3 DEF Stage
<1>7. Fact(p)'
  BY <1>1, <1>2, <1>3 DEF Fact, Overrides
<1>8. \A q \in Session \ {p} : Apart(p, q)' /\ Apart(q, p)'
  BY <1>1, <1>2, <1>3 DEF Apart, Overrides, Refers
<1>9. QED
  BY <1>4, <1>5, <1>6, <1>7, <1>8, Quietly DEF Begin

\* p alone has inserted its key: whoever inserted it before has ended.
LEMMA InsertGrantInv ==
  ASSUME IInv, NEW p \in Session, InsertGrant(p)
  PROVE  IInv'
<1>1. /\ pc[p] = "grant" /\ req[p].kind = "credit" /\ req[p].amount > 0
      /\ req[p] # NoRequest /\ wrote[p] = {}
  BY Reached DEF IInv, Sessions, Stage, InsertGrant
<1>2. /\ pc'[p] = "commit" /\ req'[p] = req[p]
      /\ wrote'[p] = IF Grants(req[p].key) = {} THEN {"grant"} ELSE {}
  BY <1>1 DEF IInv, SessionsTyped, InsertGrant
<1>3. SessionsTyped'
  BY DEF IInv, SessionsTyped, InsertGrant, Statement
<1>4. Others(p)
  BY DEF IInv, SessionsTyped, InsertGrant, Others
<1>5. Stage(p)'
  BY <1>1, <1>2 DEF Stage
<1>6. Fact(p)'
  <2>1. Grants(req[p].key)' = Grants(req[p].key)
    BY <1>2 DEF InsertGrant, tables, Grants
  <2>2. QED
    BY <1>1, <1>2, <2>1 DEF Fact, Overrides
<1>7. ASSUME NEW q \in Session \ {p}
      PROVE  Apart(p, q)' /\ Apart(q, p)'
  <2>1. "grant" \in wrote'[q] => req'[q].key # req[p].key
    BY <1>4 DEF InsertGrant, GrantersOf, Others
  <2>2. QED
    BY <1>1, <1>2, <2>1 DEF Apart, Overrides, Refers
<1>8. QED
  BY <1>3, <1>4, <1>5, <1>6, <1>7, Quietly DEF InsertGrant

(* The override reads the old amount before it locks the invoice. *)
LEMMA ReadLineInv ==
  ASSUME IInv, NEW p \in Session, ReadLine(p)
  PROVE  IInv'
<1>1. pc[p] = "read" /\ req[p].kind = "override" /\ req[p] \in Request /\ wrote[p] = {}
  BY Reached DEF ReadLine
<1>2. pc'[p] = "lock" /\ req'[p] = req[p] /\ wrote'[p] = {} /\ req[p] # NoRequest
  BY <1>1, Reached DEF IInv, SessionsTyped, ReadLine
<1>3. SessionsTyped'
  <2>1. lines[req[p].line] \in Int
    BY <1>1, RequestAssumption DEF IInv, TablesTyped
  <2>2. QED
    BY <2>1 DEF IInv, SessionsTyped, ReadLine, Statement
<1>4. Others(p)
  BY DEF IInv, SessionsTyped, ReadLine, Others
<1>5. Stage(p)'
  BY <1>1, <1>2 DEF Stage
<1>6. Fact(p)'
  BY <1>1, <1>2 DEF Fact, Overrides
<1>7. \A q \in Session \ {p} : Apart(p, q)' /\ Apart(q, p)'
  BY <1>1, <1>2 DEF Apart, Overrides, Refers
<1>8. QED
  BY <1>3, <1>4, <1>5, <1>6, <1>7, Quietly DEF ReadLine

\* FOR UPDATE keeps other overrides and payments away from the invoice.
LEMMA LockInvoiceInv ==
  ASSUME IInv, NEW p \in Session, LockInvoice(p)
  PROVE  IInv'
<1>1. pc[p] = "lock" /\ req[p].kind = "override" /\ req[p] # NoRequest /\ wrote[p] = {}
  BY Reached DEF LockInvoice
<1>2. pc'[p] = "write" /\ req'[p] = req[p] /\ wrote'[p] = {}
  BY <1>1 DEF IInv, SessionsTyped, LockInvoice
<1>3. SessionsTyped'
  BY DEF IInv, SessionsTyped, LockInvoice, Statement
<1>4. Others(p)
  BY DEF IInv, SessionsTyped, LockInvoice, Others
<1>5. Stage(p)'
  BY <1>1, <1>2 DEF Stage
<1>6. Fact(p)'
  BY <1>1, <1>2 DEF Fact, Overrides, LockInvoice, tables
<1>7. ASSUME NEW q \in Session \ {p}
      PROVE  Apart(p, q)' /\ Apart(q, p)'
  <2>1. /\ Overrides(q)' => InvoiceOf[req[p].line] # InvoiceOf[req'[q].line]
        /\ Refers(q)' => InvoiceOf[req[p].line] # req'[q].invoice
    BY <1>4 DEF LockInvoice, CanLock, OverridersOf, ReferrersOf, Others, Overrides, Refers
  <2>2. QED
    BY <1>1, <1>2, <2>1 DEF Apart, Overrides, Refers
<1>8. QED
  BY <1>3, <1>4, <1>5, <1>6, <1>7, Quietly DEF LockInvoice

(* The override sums its new line and the others, which its lock keeps as they are. *)
LEMMA WriteLineInv ==
  ASSUME IInv, NEW p \in Session, WriteLine(p)
  PROVE  IInv'
<1>1. /\ pc[p] = "write" /\ req[p].kind = "override" /\ req[p] \in Request
      /\ req[p] # NoRequest /\ wrote[p] = {}
  BY Reached DEF WriteLine
<1> DEFINE i == InvoiceOf[req[p].line]
<1>2. /\ pc'[p] = "commit" /\ req'[p] = req[p] /\ wrote'[p] = {}
      /\ totals'[p] = Totals(AmountsOf(NewLines(p), i))
  BY <1>1 DEF IInv, SessionsTyped, WriteLine
<1>3. NewLines(p) \in [Line -> Int]
  BY <1>1, RequestAssumption DEF IInv, TablesTyped, NewLines
<1>4. SessionsTyped'
  <2>1. Totals(AmountsOf(NewLines(p), i)) \in TotalsRow
    BY <1>3, TotalsType
  <2>2. QED
    BY <2>1 DEF IInv, SessionsTyped, WriteLine, Statement
<1>5. Others(p)
  BY DEF IInv, SessionsTyped, WriteLine, Others
<1>6. Stage(p)'
  BY <1>1, <1>2 DEF Stage
<1>7. Fact(p)'
  <2>1. Overrides(p) /\ Fact(p)
    BY <1>1 DEF IInv, Sessions, Overrides
  <2>2. invoices[i].status = "issued" /\ invoices' = invoices /\ lines' = lines
    BY <2>1 DEF Fact, WriteLine, tables
  <2>3. NewLines(p)' = NewLines(p)
    BY <1>2, <2>2 DEF NewLines
  <2>4. totals'[p] = Totals(AmountsOf(NewLines(p)', InvoiceOf[req'[p].line]))
    BY <1>2, <2>3
  <2>5. QED
    BY <1>1, <1>2, <2>2, <2>4 DEF Fact, Overrides
<1>8. ASSUME NEW q \in Session \ {p}
      PROVE  Apart(p, q)' /\ Apart(q, p)'
  <2>1. Apart(p, q) /\ Apart(q, p) /\ Overrides(p)
    BY <1>1 DEF IInv, Sessions, Overrides
  <2>2. QED
    BY <1>1, <1>2, <1>5, <2>1 DEF Apart, Overrides, Refers, Others
<1>9. QED
  BY <1>4, <1>5, <1>6, <1>7, <1>8, Quietly DEF WriteLine
\* An event that is recorded stays recorded.
LEMMA RecordReplayInv ==
  ASSUME IInv, NEW p \in Session, RecordReplay(p)
  PROVE  IInv'
<1>1. pc[p] = "record" /\ req[p].kind = "payment" /\ req[p] # NoRequest /\ wrote[p] = {}
  BY Reached DEF RecordReplay
<1>2. pc'[p] = "commit" /\ req'[p] = req[p] /\ wrote'[p] = {}
  BY <1>1 DEF IInv, SessionsTyped, RecordReplay
<1>3. SessionsTyped'
  BY DEF IInv, SessionsTyped, RecordReplay, Statement
<1>4. Others(p)
  BY DEF IInv, SessionsTyped, RecordReplay, Others
<1>5. Stage(p)'
  BY <1>1, <1>2 DEF Stage
<1>6. Fact(p)'
  <2>1. Recorded(req[p].event)'
    BY <1>2 DEF RecordReplay, tables, Recorded
  <2>2. QED
    BY <1>1, <1>2, <2>1 DEF Fact, Overrides
<1>7. \A q \in Session \ {p} : Apart(p, q)' /\ Apart(q, p)'
  BY <1>1, <1>2 DEF Apart, Overrides, Refers
<1>8. QED
  BY <1>3, <1>4, <1>5, <1>6, <1>7, Quietly DEF RecordReplay

\* p alone has inserted its event.
LEMMA RecordEventInv ==
  ASSUME IInv, NEW p \in Session, RecordEvent(p)
  PROVE  IInv'
<1>1. pc[p] = "record" /\ req[p].kind = "payment" /\ req[p] # NoRequest
  BY Reached DEF RecordEvent
<1>2. pc'[p] = "reference" /\ req'[p] = req[p] /\ wrote'[p] = {"event"}
  BY <1>1 DEF IInv, SessionsTyped, RecordEvent
<1>3. SessionsTyped'
  BY DEF IInv, SessionsTyped, RecordEvent, Statement
<1>4. Others(p)
  BY DEF IInv, SessionsTyped, RecordEvent, Others
<1>5. Stage(p)'
  BY <1>1, <1>2 DEF Stage
<1>6. Fact(p)'
  <2>1. ~ Recorded(req[p].event)'
    BY <1>2 DEF RecordEvent, tables, Recorded
  <2>2. QED
    BY <1>1, <1>2, <2>1 DEF Fact, Overrides
<1>7. ASSUME NEW q \in Session \ {p}
      PROVE  Apart(p, q)' /\ Apart(q, p)'
  <2>1. "event" \in wrote'[q] => req'[q].event # req[p].event
    BY <1>4 DEF RecordEvent, RecordersOf, Others
  <2>2. QED
    BY <1>1, <1>2, <2>1 DEF Apart, Overrides, Refers
<1>8. QED
  BY <1>3, <1>4, <1>5, <1>6, <1>7, Quietly DEF RecordEvent

\* FOR KEY SHARE waits for an override of the invoice, and then keeps others
\* away.
LEMMA ReferenceInvoiceInv ==
  ASSUME IInv, NEW p \in Session, ReferenceInvoice(p)
  PROVE  IInv'
<1>1. /\ pc[p] = "reference" /\ req[p].kind = "payment" /\ req[p] # NoRequest
      /\ wrote[p] = {"event"} /\ Fact(p)
  BY Reached DEF ReferenceInvoice, IInv, Sessions
<1>2. pc'[p] = "pay" /\ req'[p] = req[p] /\ wrote'[p] = {"event"}
  BY <1>1 DEF IInv, SessionsTyped, ReferenceInvoice
<1>3. SessionsTyped'
  BY DEF IInv, SessionsTyped, ReferenceInvoice, Statement
<1>4. Others(p)
  BY DEF IInv, SessionsTyped, ReferenceInvoice, Others
<1>5. Stage(p)'
  BY <1>1, <1>2 DEF Stage
<1>6. Fact(p)'
  <2>1. ~ Recorded(req[p].event)'
    BY <1>1, <1>2 DEF ReferenceInvoice, tables, Recorded, Fact
  <2>2. QED
    BY <1>1, <1>2, <2>1 DEF Fact, Overrides
<1>7. ASSUME NEW q \in Session \ {p}
      PROVE  Apart(p, q)' /\ Apart(q, p)'
  <2>1. Overrides(q)' => InvoiceOf[req'[q].line] # req[p].invoice
    BY <1>4 DEF ReferenceInvoice, OverridersOf, Others, Overrides
  <2>2. Apart(p, q) /\ Apart(q, p)
    BY DEF IInv, Sessions
  <2>3. QED
    BY <1>1, <1>2, <1>4, <2>1, <2>2 DEF Apart, Overrides, Refers, Others
<1>8. QED
  BY <1>3, <1>4, <1>5, <1>6, <1>7, Quietly DEF ReferenceInvoice

\* p alone has changed the status of its invoice, or it was paid before.
LEMMA MarkPaidInv ==
  ASSUME IInv, NEW p \in Session, MarkPaid(p)
  PROVE  IInv'
<1>1. /\ pc[p] = "pay" /\ req[p].kind = "payment" /\ req[p] \in Request
      /\ req[p] # NoRequest /\ wrote[p] = {"event"} /\ Fact(p)
  BY Reached DEF MarkPaid, IInv, Sessions
<1>2. /\ pc'[p] = "commit" /\ req'[p] = req[p]
      /\ wrote'[p] = IF invoices[req[p].invoice].status = "issued"
                     THEN {"event", "status"} ELSE {"event"}
  BY <1>1 DEF IInv, SessionsTyped, MarkPaid
<1>3. SessionsTyped'
  BY DEF IInv, SessionsTyped, MarkPaid, Statement
<1>4. Others(p)
  BY DEF IInv, SessionsTyped, MarkPaid, Others
<1>5. Stage(p)'
  BY <1>1, <1>2 DEF Stage
<1>6. Fact(p)'
  <2>1. ~ Recorded(req[p].event)'
    BY <1>1, <1>2 DEF MarkPaid, tables, Recorded, Fact
  <2>2. invoices' = invoices /\ invoices[req[p].invoice].status \in Status
    BY <1>1, RequestAssumption DEF MarkPaid, tables, IInv, TablesTyped, InvoiceRow
  <2>3. QED
    BY <1>1, <1>2, <2>1, <2>2 DEF Fact, Overrides, Status
<1>7. ASSUME NEW q \in Session \ {p}
      PROVE  Apart(p, q)' /\ Apart(q, p)'
  <2>1. "status" \in wrote'[q] => req'[q].invoice # req[p].invoice
    BY <1>4 DEF MarkPaid, PayersOf, Others
  <2>2. Apart(p, q) /\ Apart(q, p) /\ Refers(p)
    BY <1>1 DEF IInv, Sessions, Refers
  <2>3. QED
    BY <1>1, <1>2, <1>4, <2>1, <2>2 DEF Apart, Overrides, Refers, Others
<1>8. QED
  BY <1>3, <1>4, <1>5, <1>6, <1>7, Quietly DEF MarkPaid

(* A look notes the invoice as committed when it reads its head. *)
LEMMA ReadHeadInv ==
  ASSUME IInv, NEW p \in Session, ReadHead(p)
  PROVE  IInv'
<1>1. /\ pc[p] = "head" /\ req[p].kind = "look" /\ req[p] \in Request
      /\ req[p] # NoRequest /\ wrote[p] = {}
  BY Reached DEF ReadHead
<1>2. /\ pc'[p] = "lines" /\ req'[p] = req[p] /\ wrote'[p] = {}
      /\ shown'[p].head = invoices[req[p].invoice]
  BY <1>1 DEF IInv, SessionsTyped, ReadHead
<1>3. SessionsTyped'
  BY DEF IInv, SessionsTyped, ReadHead, Statement
<1>4. Others(p)
  BY DEF IInv, SessionsTyped, ReadHead, Others
<1>5. Stage(p)'
  BY <1>1, <1>2 DEF Stage
<1>6. Fact(p)'
  <2>1. invoices' = invoices /\ invoices[req[p].invoice] \in InvoiceRow
    BY <1>1, RequestAssumption DEF ReadHead, tables, IInv, TablesTyped
  <2>2. QED
    BY <1>1, <1>2, <2>1 DEF Fact, Overrides
<1>7. \A q \in Session \ {p} : Apart(p, q)' /\ Apart(q, p)'
  BY <1>1, <1>2 DEF Apart, Overrides, Refers
<1>8. QED
  BY <1>3, <1>4, <1>5, <1>6, <1>7, Quietly DEF ReadHead

(* A look notes the lines of a later snapshot. *)
LEMMA ReadLinesInv ==
  ASSUME IInv, NEW p \in Session, ReadLines(p)
  PROVE  IInv'
<1>1. /\ pc[p] = "lines" /\ req[p].kind = "look" /\ req[p] \in Request
      /\ req[p] # NoRequest /\ wrote[p] = {} /\ Fact(p)
  BY Reached DEF ReadLines, IInv, Sessions
<1>2. /\ pc'[p] = "commit" /\ req'[p] = req[p] /\ wrote'[p] = {}
      /\ shown'[p].head = shown[p].head
      /\ shown'[p].amounts = AmountsOf(lines, req[p].invoice)
  BY <1>1 DEF IInv, SessionsTyped, ReadLines
<1>3. SessionsTyped'
  BY DEF IInv, SessionsTyped, ReadLines, Statement
<1>4. Others(p)
  BY DEF IInv, SessionsTyped, ReadLines, Others
<1>5. Stage(p)'
  BY <1>1, <1>2 DEF Stage
<1>6. Fact(p)'
  <2>1. invoices' = invoices /\ lines' = lines
    BY DEF ReadLines, tables
  <2>2. AmountsOf(lines, req[p].invoice)' = AmountsOf(lines, req[p].invoice)
    BY <1>2, <2>1
  <2>3. QED
    BY <1>1, <1>2, <2>1, <2>2 DEF Fact, Overrides
<1>7. \A q \in Session \ {p} : Apart(p, q)' /\ Apart(q, p)'
  BY <1>1, <1>2 DEF Apart, Overrides, Refers
<1>8. QED
  BY <1>3, <1>4, <1>5, <1>6, <1>7, Quietly DEF ReadLines
-----------------------------------------------------------------------------
(* Commits *)

\* A commit ends its session's request; what the other sessions rely on is for
\* each commit to show.
LEMMA CommitSessions ==
  ASSUME IInv, NEW p \in Session, EndRequest(p), \A q \in Session \ {p} : Fact(q)'
  PROVE  SessionsTyped' /\ Sessions'
<1>1. SessionsTyped' /\ Others(p)
  BY EndTyped DEF IInv
<1>2. /\ Stage(p)' /\ Fact(p)'
      /\ \A q \in Session \ {p} : Apart(p, q)' /\ Apart(q, p)'
  BY EndRelies DEF IInv
<1>3. ASSUME NEW q \in Session \ {p}
      PROVE  Stage(q)' /\ \A r \in Session \ {q} : Apart(q, r)'
  <2>1. Stage(q)'
    BY <1>1, StageFrame DEF IInv, Sessions
  <2>2. ASSUME NEW r \in Session \ {q}, r # p
        PROVE  Apart(q, r)'
    BY <1>1, <2>2, ApartFrame DEF IInv, Sessions
  <2>3. QED
    BY <1>2, <2>1, <2>2
<1>4. QED
  BY <1>1, <1>2, <1>3 DEF Sessions

\* The grants of a key after one more.
LEMMA GrantsAppended ==
  ASSUME IInv, NEW g, credit_grants' = Append(credit_grants, g)
  PROVE  /\ Len(credit_grants') = Len(credit_grants) + 1
         /\ DOMAIN credit_grants' = DOMAIN credit_grants \cup {Len(credit_grants')}
         /\ \A i \in DOMAIN credit_grants : credit_grants'[i] = credit_grants[i]
         /\ credit_grants'[Len(credit_grants')] = g
         /\ Grants(g.key)' = Grants(g.key) \cup {Len(credit_grants')}
         /\ \A k : k # g.key => Grants(k)' = Grants(k)
<1> DEFINE n == Len(credit_grants)
<1>1. n \in Nat /\ DOMAIN credit_grants = 1 .. n /\ credit_grants \in Seq(GrantRow)
  BY DEF IInv, TablesTyped
<1>2. credit_grants \in Seq(GrantRow \cup {g})
  BY <1>1
<1>3. /\ Len(credit_grants') = n + 1
      /\ DOMAIN credit_grants' = 1 .. n + 1
      /\ \A i \in 1 .. n : credit_grants'[i] = credit_grants[i]
      /\ credit_grants'[n + 1] = g
  BY <1>1, <1>2
<1>4. /\ DOMAIN credit_grants' = DOMAIN credit_grants \cup {n + 1}
      /\ n + 1 \notin DOMAIN credit_grants
  BY <1>1, <1>3
<1>5. Grants(g.key)' = Grants(g.key) \cup {n + 1}
  BY <1>1, <1>3, <1>4 DEF Grants
<1>6. ASSUME NEW k, k # g.key
      PROVE  Grants(k)' = Grants(k)
  BY <1>1, <1>3, <1>4, <1>6 DEF Grants
<1>7. QED
  BY <1>1, <1>3, <1>4, <1>5, <1>6

\* One key, one grant.
LEMMA OneGrant ==
  ASSUME IInv, NEW k, Grants(k) # {}
  PROVE  Grants(k) = {CHOOSE i \in Grants(k) : TRUE}
<1>1. PICK i \in Grants(k) : TRUE
  OBVIOUS
<1>2. \A j \in Grants(k) : j = i
  BY <1>1 DEF IInv, TablesAgree, Grants
<1>3. Grants(k) = {i}
  BY <1>1, <1>2
<1>4. QED
  BY <1>3

(* A credit commits at most once per key; a repeated key finds the first row. *)
LEMMA CommitCreditInv ==
  ASSUME IInv, NEW p \in Session, NEW answered \in BOOLEAN, CommitCredit(p, answered)
  PROVE  IInv'
<1>a. PICK k : k = req[p].key
  OBVIOUS
<1> DEFINE g == [key |-> k, customer |-> req[p].customer, amount |-> req[p].amount]
           n == Len(credit_grants')
<1>1. /\ pc[p] = "commit" /\ req[p].kind = "credit" /\ req[p] \in Request
      /\ req[p].amount > 0 /\ Fact(p) /\ EndRequest(p)
      /\ lines' = lines /\ invoices' = invoices /\ webhook_events' = webhook_events
      /\ audit' = audit
  BY Reached DEF CommitCredit, IInv, Sessions, Stage
<1>2. g \in GrantRow
  BY <1>a, <1>1, RequestAssumption DEF GrantRow, CreditRequest
<1>3. CASE "grant" \in wrote[p]
  <2>1. credit_grants' = Append(credit_grants, g) /\ Grants(k) = {}
    BY <1>a, <1>1, <1>3 DEF CommitCredit, Fact
  <2>2. /\ DOMAIN credit_grants' = DOMAIN credit_grants \cup {n}
        /\ \A i \in DOMAIN credit_grants : credit_grants'[i] = credit_grants[i]
        /\ credit_grants'[n] = g
        /\ Grants(k)' = Grants(k) \cup {n}
        /\ \A c : c # k => Grants(c)' = Grants(c)
    <3>1. g.key = k
      OBVIOUS
    <3> HIDE DEF g
    <3>2. QED
      BY <2>1, <3>1, GrantsAppended
  <2>3. credit_grants' \in Seq(GrantRow)
    BY <1>2, <2>1 DEF IInv, TablesTyped
  <2>4. TablesTyped'
    BY <1>1, <2>3 DEF IInv, TablesTyped
  <2>5. TablesAgree'
    <3>1. \A i \in DOMAIN credit_grants : credit_grants[i].key # k
      BY <2>1 DEF Grants
    <3>2. g.key = k /\ g.amount > 0
      BY <1>1
    <3>3. \A i \in DOMAIN credit_grants' : credit_grants'[i].amount > 0
      BY <2>2, <3>2 DEF IInv, TablesAgree
    <3>4. ASSUME NEW i \in DOMAIN credit_grants', NEW j \in DOMAIN credit_grants',
                 credit_grants'[i].key = credit_grants'[j].key
          PROVE  i = j
      <4> HIDE DEF n, g
      <4>1. QED
        BY <2>2, <3>1, <3>2, <3>4 DEF IInv, TablesAgree
    <3>5. QED
      BY <1>1, <3>3, <3>4 DEF IInv, TablesAgree
  <2>6. ASSUME NEW q \in Session \ {p}
        PROVE  Fact(q)'
    <3>1. Fact(q) /\ Apart(p, q)
      BY DEF IInv, Sessions
    <3>2. Others(p)
      BY <1>1, EndTyped DEF IInv
    <3>3. pc'[q] = pc[q] /\ req'[q] = req[q] /\ wrote'[q] = wrote[q]
      BY <3>2 DEF Others
    <3>4. "grant" \in wrote[q] => Grants(req[q].key)' = {}
      BY <1>a, <1>3, <2>2, <3>1, <3>3 DEF Apart, Fact
    <3>5. Grants(req[q].key) # {} => Grants(req[q].key)' # {}
      <4>1. CASE req[q].key = k
        BY <2>2, <3>3, <4>1
      <4>2. CASE req[q].key # k
        BY <2>2, <3>3, <4>2
      <4>3. QED
        BY <4>1, <4>2
    <3>6. /\ NewLines(q)' = NewLines(q)
          /\ \A e : Recorded(e)' = Recorded(e)
      BY <1>1, <3>3 DEF NewLines, Recorded
    <3>7. QED
      BY <1>1, <3>1, <3>2, <3>4, <3>5, <3>6 DEF Fact, Others, Overrides, AmountsOf
  <2>7. Answered'
    <3>1. answers' \subseteq answers \cup {[req |-> req[p], grant |-> n]}
      BY <1>3 DEF CommitCredit, Answer
    <3>2. ASSUME NEW a \in answers
          PROVE  /\ a.req.kind = "payment" => Recorded(a.req.event)'
                 /\ a.req.kind = "credit" => Grants(a.req.key)' = {a.grant}
      <4>1. a.req.kind = "payment" => Recorded(a.req.event)'
        BY <1>1 DEF IInv, Answered, Recorded
      <4>2. ASSUME a.req.kind = "credit"
            PROVE  Grants(a.req.key)' = {a.grant}
        <5>1. Grants(a.req.key) = {a.grant}
          BY <4>2 DEF IInv, Answered
        <5>2. a.req.key # k
          BY <2>1, <5>1
        <5>3. QED
          BY <2>2, <5>1, <5>2
      <4>3. QED
        BY <4>1, <4>2
    <3>3. Grants(k)' = {n}
      BY <2>1, <2>2
    <3>4. QED
      BY <1>a, <1>1, <3>1, <3>2, <3>3 DEF Answered
  <2>8. TotalsAgree'
    BY <1>1 DEF IInv, TotalsAgree
  <2>9. QED
    BY <1>1, <2>4, <2>5, <2>6, <2>7, <2>8, CommitSessions DEF IInv
<1>4. CASE "grant" \notin wrote[p]
  <2>1. credit_grants' = credit_grants /\ Grants(k) # {}
    BY <1>a, <1>1, <1>4 DEF CommitCredit, Fact
  <2>2. UNCHANGED tables
    BY <1>1, <2>1 DEF tables
  <2>3. TablesTyped' /\ TablesAgree' /\ TotalsAgree'
    BY <2>2, TablesFrame DEF IInv
  <2>4. \A q \in Session \ {p} : Fact(q)'
    BY <1>1, <2>2, EndTyped, FactFrame DEF IInv, Sessions
  <2>5. Answered'
    <3>0. PICK n1 : n1 = CHOOSE i \in Grants(k) : TRUE
      OBVIOUS
    <3>1. Grants(k) = {n1}
      BY <2>1, <3>0, OneGrant
    <3>2. answers' \subseteq answers \cup {[req |-> req[p], grant |-> n1]}
      BY <1>a, <1>4, <3>0 DEF CommitCredit, Answer
    <3>3. \A c : Grants(c)' = Grants(c) /\ (Recorded(c) => Recorded(c)')
      BY <2>2 DEF tables, Grants, Recorded
    <3>4. ASSUME NEW a \in answers
          PROVE  /\ a.req.kind = "payment" => Recorded(a.req.event)'
                 /\ a.req.kind = "credit" => Grants(a.req.key)' = {a.grant}
      BY <3>3 DEF IInv, Answered
    <3>5. Grants(k)' = {n1}
      BY <3>1, <3>3
    <3>6. QED
      BY <1>a, <1>1, <3>2, <3>4, <3>5 DEF Answered
  <2>6. QED
    BY <1>1, <2>3, <2>4, <2>5, CommitSessions DEF IInv
<1>5. QED
  BY <1>3, <1>4
\* The amounts of an invoice are those of its own lines.
LEMMA OtherAmounts ==
  ASSUME NEW a \in [Line -> Int], NEW b \in [Line -> Int], NEW i, NEW j, j # i,
         \A l \in Line : InvoiceOf[l] # i => b[l] = a[l]
  PROVE  AmountsOf(b, j) = AmountsOf(a, j)
BY DEF AmountsOf

\* An override changes the amounts and totals of one invoice, to what its
\* transaction computed from the lines it saw, and no status.
LEMMA OverrideEffect ==
  ASSUME IInv, NEW p \in Session, NEW answered \in BOOLEAN, CommitOverride(p, answered),
         NEW i, i = InvoiceOf[req[p].line]
  PROVE  /\ i \in Invoice /\ invoices[i].status = "issued"
         /\ lines' \in [Line -> Int]
         /\ invoices' \in [Invoice -> InvoiceRow]
         /\ \A j \in Invoice : /\ invoices'[j].status = invoices[j].status
                               /\ invoices'[j].paidBy = invoices[j].paidBy
                               /\ j # i => /\ invoices'[j] = invoices[j]
                                           /\ AmountsOf(lines', j) = AmountsOf(lines, j)
         /\ \A l \in Line : InvoiceOf[l] # i => lines'[l] = lines[l]
         /\ invoices'[i].totals = Totals(AmountsOf(lines', i))
<1>1. /\ req[p] \in Request /\ req[p].kind = "override" /\ Fact(p)
      /\ Overrides(p) /\ pc[p] = "commit"
  BY Reached DEF CommitOverride, IInv, Sessions, Overrides
<1>2. req[p].line \in Line /\ req[p].amount \in Int /\ i \in Invoice
  BY <1>1, RequestAssumption, LineAssumption
<1>3. invoices[i].status = "issued" /\ totals[p] = Totals(AmountsOf(NewLines(p), i))
  BY <1>1 DEF Fact
<1>4. lines' = [lines EXCEPT ![req[p].line] = req[p].amount] /\ lines' = NewLines(p)
  BY DEF CommitOverride, NewLines
<1>5. lines \in [Line -> Int] /\ lines' \in [Line -> Int]
  BY <1>2, <1>4 DEF IInv, TablesTyped
<1>6. totals[p] \in TotalsRow
  BY DEF IInv, SessionsTyped
<1>7. /\ invoices \in [Invoice -> InvoiceRow]
      /\ invoices' = [invoices EXCEPT ![i].totals = totals[p]]
  BY DEF CommitOverride, IInv, TablesTyped
<1>8. /\ invoices' \in [Invoice -> InvoiceRow]
      /\ \A j \in Invoice : /\ invoices'[j].status = invoices[j].status
                            /\ invoices'[j].paidBy = invoices[j].paidBy
                            /\ j # i => invoices'[j] = invoices[j]
      /\ invoices'[i].totals = totals[p]
  BY <1>2, <1>6, <1>7 DEF InvoiceRow
<1>9. \A l \in Line : InvoiceOf[l] # i => lines'[l] = lines[l]
  BY <1>2, <1>4, <1>5
<1>10. \A j \in Invoice : j # i => AmountsOf(lines', j) = AmountsOf(lines, j)
  BY <1>5, <1>9, OtherAmounts
<1>11. QED
  BY <1>2, <1>3, <1>4, <1>5, <1>8, <1>9, <1>10

(* The line, the totals and the audit row become visible together. *)
LEMMA CommitOverrideInv ==
  ASSUME IInv, NEW p \in Session, NEW answered \in BOOLEAN, CommitOverride(p, answered)
  PROVE  IInv'
<1>a. PICK i : i = InvoiceOf[req[p].line]
  OBVIOUS
<1>1. /\ req[p] \in Request /\ req[p].kind = "override" /\ pc[p] = "commit"
      /\ Overrides(p) /\ EndRequest(p)
      /\ webhook_events' = webhook_events /\ credit_grants' = credit_grants
  BY Reached DEF CommitOverride, Overrides
<1>2. /\ i \in Invoice /\ invoices[i].status = "issued"
      /\ lines' \in [Line -> Int]
      /\ invoices' \in [Invoice -> InvoiceRow]
      /\ \A j \in Invoice : /\ invoices'[j].status = invoices[j].status
                            /\ invoices'[j].paidBy = invoices[j].paidBy
                            /\ j # i => /\ invoices'[j] = invoices[j]
                                        /\ AmountsOf(lines', j) = AmountsOf(lines, j)
      /\ \A l \in Line : InvoiceOf[l] # i => lines'[l] = lines[l]
      /\ invoices'[i].totals = Totals(AmountsOf(lines', i))
  BY <1>a, OverrideEffect
<1>3. TablesTyped'
  <2>1. req[p].line \in Line /\ req[p].amount \in Int /\ old[p] \in Int
    BY <1>1, RequestAssumption DEF IInv, SessionsTyped
  <2>2. audit' \in Seq(AuditRow)
    BY <2>1 DEF CommitOverride, IInv, TablesTyped, AuditRow
  <2>3. QED
    BY <1>1, <1>2, <2>2 DEF IInv, TablesTyped
<1>4. TablesAgree'
  <2>1. \A row \in webhook_events : row.invoice \in Invoice
    BY DEF IInv, TablesTyped, EventRow
  <2>2. QED
    BY <1>1, <1>2, <2>1 DEF IInv, TablesAgree
<1>5. TotalsAgree'
  <2>1. ASSUME NEW j \in Invoice
        PROVE  invoices'[j].totals = Totals(AmountsOf(lines', j))
    BY <1>2 DEF IInv, TotalsAgree
  <2>2. QED
    BY <2>1 DEF TotalsAgree
<1>6. ASSUME NEW q \in Session \ {p}
      PROVE  Fact(q)'
  <2>1. Fact(q) /\ Apart(p, q)
    BY DEF IInv, Sessions
  <2>2. Others(p)
    BY <1>1, EndTyped DEF IInv
  <2>3. /\ pc'[q] = pc[q] /\ req'[q] = req[q] /\ wrote'[q] = wrote[q]
        /\ totals'[q] = totals[q] /\ shown'[q] = shown[q]
    BY <2>2 DEF Others
  <2>4. req[q] \in Request \/ req[q].kind = "none"
    BY NoRequestKind DEF IInv, SessionsTyped
  <2>5. Grants(req[q].key)' = Grants(req[q].key)
        /\ Recorded(req[q].event)' = Recorded(req[q].event)
    BY <1>1, <2>3 DEF Grants, Recorded
  <2>6. ASSUME Overrides(q)
        PROVE  /\ invoices'[InvoiceOf[req[q].line]].status = "issued"
               /\ AmountsOf(NewLines(q)', InvoiceOf[req[q].line]) =
                    AmountsOf(NewLines(q), InvoiceOf[req[q].line])
    <3> DEFINE j == InvoiceOf[req[q].line]
    <3>1. /\ req[q].line \in Line /\ req[q].amount \in Int
          /\ j \in Invoice /\ j # i /\ invoices[j].status = "issued"
      BY <1>a, <1>1, <2>1, <2>4, <2>6, RequestAssumption, LineAssumption
         DEF Overrides, Apart, Fact
    <3>2. /\ NewLines(q) = [lines EXCEPT ![req[q].line] = req[q].amount]
          /\ NewLines(q)' = [lines' EXCEPT ![req[q].line] = req[q].amount]
      BY <2>3 DEF NewLines
    <3>3. /\ NewLines(q) \in [Line -> Int] /\ NewLines(q)' \in [Line -> Int]
          /\ \A l \in Line : InvoiceOf[l] # i => NewLines(q)'[l] = NewLines(q)[l]
      BY <1>2, <3>1, <3>2 DEF IInv, TablesTyped
    <3>4. AmountsOf(NewLines(q)', j) = AmountsOf(NewLines(q), j)
      BY <3>1, <3>3, OtherAmounts
    <3>5. QED
      BY <1>2, <3>1, <3>4
  <2>7. ASSUME "event" \in wrote[q] \/ req[q].kind = "look"
        PROVE  /\ req[q].invoice \in Invoice
               /\ invoices'[req[q].invoice].status = invoices[req[q].invoice].status
               /\ invoices[req[q].invoice].status = "paid" =>
                    /\ invoices'[req[q].invoice] = invoices[req[q].invoice]
                    /\ AmountsOf(lines', req[q].invoice) = AmountsOf(lines, req[q].invoice)
    <3>1. req[q].kind \in {"payment", "look"}
      BY <2>7 DEF IInv, Sessions, Stage
    <3>2. req[q].invoice \in Invoice
      BY <2>4, <3>1, RequestAssumption
    <3>3. QED
      BY <1>2, <3>2
  <2>8. ASSUME "event" \in wrote[q]
        PROVE  /\ "status" \in wrote[q] => invoices'[req[q].invoice].status = "issued"
               /\ pc[q] = "commit" /\ "status" \notin wrote[q]
                  => invoices'[req[q].invoice].status = "paid"
    BY <2>1, <2>7, <2>8 DEF Fact
  <2>9. "status" \in wrote[q] => "event" \in wrote[q]
    BY DEF IInv, Sessions, Stage
  <2>10. ASSUME req[q].kind = "look", pc[q] \in {"lines", "commit"}
         PROVE  /\ shown[q].head \in InvoiceRow
                /\ shown[q].head.status = "paid" =>
                     /\ invoices'[req[q].invoice] = shown[q].head
                     /\ pc[q] = "commit" =>
                          shown[q].amounts = AmountsOf(lines', req[q].invoice)
    BY <2>1, <2>7, <2>10 DEF Fact
  <2>11. /\ AmountsOf(lines, req[q].invoice)' = AmountsOf(lines', req[q].invoice)
         /\ AmountsOf(NewLines(q), InvoiceOf[req[q].line])'
              = AmountsOf(NewLines(q)', InvoiceOf[req[q].line])
    BY <2>3
  <2>12. /\ "grant" \in wrote[q] => Grants(req[q].key) = {}
         /\ req[q].kind = "credit" /\ pc[q] = "commit" /\ "grant" \notin wrote[q]
            => Grants(req[q].key) # {}
         /\ "event" \in wrote[q] => ~ Recorded(req[q].event)
         /\ req[q].kind = "payment" /\ pc[q] = "commit" /\ "event" \notin wrote[q]
            => Recorded(req[q].event)
    BY <2>1 DEF Fact
  <2>13. req[q].kind = "override" /\ pc[q] = "commit"
         => totals[q] = Totals(AmountsOf(NewLines(q)', InvoiceOf[req[q].line]))
    BY <2>1, <2>6 DEF Fact, Overrides
  <2>14. Overrides(q)' = Overrides(q)
    BY <2>3 DEF Overrides
  <2>15. QED
    BY <2>3, <2>5, <2>6, <2>8, <2>9, <2>10, <2>11, <2>12, <2>13, <2>14 DEF Fact
<1>7. Answered'
  <2>1. answers' \subseteq answers \cup {[req |-> req[p], grant |-> 0]}
    BY DEF CommitOverride, Answer
  <2>2. \A c : Grants(c)' = Grants(c) /\ (Recorded(c) => Recorded(c)')
    BY <1>1 DEF Grants, Recorded
  <2>3. ASSUME NEW a \in answers
        PROVE  /\ a.req.kind = "payment" => Recorded(a.req.event)'
               /\ a.req.kind = "credit" => Grants(a.req.key)' = {a.grant}
    BY <2>2 DEF IInv, Answered
  <2>4. QED
    BY <1>1, <2>1, <2>3 DEF Answered
<1>8. QED
  BY <1>1, <1>3, <1>4, <1>5, <1>6, <1>7, CommitSessions DEF IInv
\* A payment records its event if it inserted it, and leaves its invoice paid; it
\* changes no other invoice, and no invoice at all that was paid before.
LEMMA PaymentEffect ==
  ASSUME IInv, NEW p \in Session, NEW answered \in BOOLEAN, CommitPayment(p, answered),
         NEW i, i = req[p].invoice, NEW e, e = req[p].event
  PROVE  /\ i \in Invoice /\ e \in {r.event : r \in PaymentRequest} /\ e # NoEvent
         /\ invoices' \in [Invoice -> InvoiceRow]
         /\ "event" \in wrote[p] =>
               /\ webhook_events' = webhook_events \cup {[event |-> e, invoice |-> i]}
               /\ invoices'[i].status = "paid"
         /\ "event" \notin wrote[p] =>
               webhook_events' = webhook_events /\ invoices' = invoices
         /\ Recorded(e)'
         /\ \A j \in Invoice : /\ invoices'[j].totals = invoices[j].totals
                               /\ invoices[j].status = "paid" => invoices'[j] = invoices[j]
                               /\ invoices'[j] # invoices[j] =>
                                    /\ j = i /\ "status" \in wrote[p]
                                    /\ invoices'[j].paidBy = e
                                    /\ invoices'[j].status = "paid"
<1>1. /\ req[p] \in Request /\ req[p].kind = "payment" /\ pc[p] = "commit" /\ Fact(p)
      /\ "status" \in wrote[p] => "event" \in wrote[p]
  BY Reached DEF CommitPayment, IInv, Sessions, Stage
<1>2. i \in Invoice /\ e \in {r.event : r \in PaymentRequest} /\ e # NoEvent
  BY <1>1, RequestAssumption DEF PaymentRequest
<1>3. /\ "event" \in wrote[p] =>
            webhook_events' = webhook_events \cup {[event |-> e, invoice |-> i]}
      /\ "event" \notin wrote[p] => webhook_events' = webhook_events
  BY DEF CommitPayment
<1>4. Recorded(e)'
  <2>1. CASE "event" \in wrote[p]
    <3>1. [event |-> e, invoice |-> i] \in webhook_events'
      BY <1>3, <2>1
    <3>2. QED
      BY <3>1 DEF Recorded
  <2>2. CASE "event" \notin wrote[p]
    <3>1. Recorded(e)
      BY <1>1, <2>2 DEF Fact
    <3>2. QED
      BY <1>3, <2>2, <3>1 DEF Recorded
  <2>3. QED
    BY <2>1, <2>2
<1>5. invoices \in [Invoice -> InvoiceRow]
  BY DEF IInv, TablesTyped
<1>6. ASSUME "status" \in wrote[p]
      PROVE  /\ invoices' = [invoices EXCEPT ![i].status = "paid", ![i].paidBy = e]
             /\ invoices[i].status = "issued"
             /\ "event" \in wrote[p]
  BY <1>1, <1>6 DEF CommitPayment, Fact
<1>7. ASSUME "status" \in wrote[p]
      PROVE  /\ invoices' \in [Invoice -> InvoiceRow]
             /\ invoices'[i].status = "paid" /\ invoices'[i].paidBy = e
             /\ \A j \in Invoice : /\ invoices'[j].totals = invoices[j].totals
                                   /\ j # i => invoices'[j] = invoices[j]
  BY <1>2, <1>5, <1>6, <1>7 DEF InvoiceRow, Status
<1>8. ASSUME "status" \notin wrote[p]
      PROVE  /\ invoices' = invoices
             /\ "event" \in wrote[p] => invoices[i].status = "paid"
  BY <1>1, <1>8 DEF CommitPayment, Fact
<1>9. CASE "status" \in wrote[p]
  BY <1>2, <1>3, <1>4, <1>6, <1>7, <1>9
<1>10. CASE "status" \notin wrote[p]
  BY <1>2, <1>3, <1>4, <1>5, <1>8, <1>10
<1>11. QED
  BY <1>9, <1>10

(* The event and the status it sets become visible together. *)
LEMMA CommitPaymentInv ==
  ASSUME IInv, NEW p \in Session, NEW answered \in BOOLEAN, CommitPayment(p, answered)
  PROVE  IInv'
<1>a. PICK i, e : i = req[p].invoice /\ e = req[p].event
  OBVIOUS
<1>1. /\ req[p] \in Request /\ req[p].kind = "payment" /\ pc[p] = "commit"
      /\ EndRequest(p) /\ Fact(p)
      /\ lines' = lines /\ credit_grants' = credit_grants /\ audit' = audit
  BY Reached DEF CommitPayment, IInv, Sessions
<1>2. /\ i \in Invoice /\ e \in {r.event : r \in PaymentRequest} /\ e # NoEvent
      /\ invoices' \in [Invoice -> InvoiceRow]
      /\ "event" \in wrote[p] =>
            /\ webhook_events' = webhook_events \cup {[event |-> e, invoice |-> i]}
            /\ invoices'[i].status = "paid"
      /\ "event" \notin wrote[p] =>
            webhook_events' = webhook_events /\ invoices' = invoices
      /\ Recorded(e)'
      /\ \A j \in Invoice : /\ invoices'[j].totals = invoices[j].totals
                            /\ invoices[j].status = "paid" => invoices'[j] = invoices[j]
                            /\ invoices'[j] # invoices[j] =>
                                 /\ j = i /\ "status" \in wrote[p]
                                 /\ invoices'[j].paidBy = e
                                 /\ invoices'[j].status = "paid"
  BY <1>a, PaymentEffect
<1>3. TablesTyped'
  <2>1. webhook_events' \in SUBSET EventRow
    BY <1>2 DEF IInv, TablesTyped, EventRow
  <2>2. QED
    BY <1>1, <1>2, <2>1 DEF IInv, TablesTyped
<1>4. TablesAgree'
  <2>1. ASSUME NEW row \in webhook_events'
        PROVE  invoices'[row.invoice].status = "paid"
    <3>1. CASE row \in webhook_events
      <4>1. row.invoice \in Invoice /\ invoices[row.invoice].status = "paid"
        BY <3>1 DEF IInv, TablesTyped, TablesAgree, EventRow
      <4>2. QED
        BY <1>2, <4>1
    <3>2. CASE row \notin webhook_events
      BY <1>2, <3>2
    <3>3. QED
      BY <3>1, <3>2
  <2>2. ASSUME NEW j \in Invoice
        PROVE  invoices'[j].status = "issued" <=> invoices'[j].paidBy = NoEvent
    BY <1>2 DEF IInv, TablesAgree
  <2>3. QED
    BY <1>1, <2>1, <2>2 DEF IInv, TablesAgree
<1>5. TotalsAgree'
  BY <1>1, <1>2 DEF IInv, TotalsAgree
<1>6. ASSUME NEW q \in Session \ {p}
      PROVE  Fact(q)'
  <2>1. Fact(q) /\ Apart(p, q) /\ Apart(q, p) /\ Stage(q)
    BY DEF IInv, Sessions
  <2>2. Others(p)
    BY <1>1, EndTyped DEF IInv
  <2>3. /\ pc'[q] = pc[q] /\ req'[q] = req[q] /\ wrote'[q] = wrote[q]
        /\ totals'[q] = totals[q] /\ shown'[q] = shown[q]
    BY <2>2 DEF Others
  <2>4. req[q] \in Request \/ req[q].kind = "none"
    BY NoRequestKind DEF IInv, SessionsTyped
  <2>5. /\ Grants(req[q].key)' = Grants(req[q].key)
        /\ NewLines(q)' = NewLines(q)
        /\ AmountsOf(NewLines(q), InvoiceOf[req[q].line])'
             = AmountsOf(NewLines(q), InvoiceOf[req[q].line])
        /\ AmountsOf(lines, req[q].invoice)' = AmountsOf(lines, req[q].invoice)
        /\ Overrides(q)' = Overrides(q)
    BY <1>1, <2>3 DEF Grants, NewLines, AmountsOf, Overrides
  <2>6. ASSUME "event" \in wrote[q]
        PROVE  ~ Recorded(req[q].event)'
    <3>1. ~ Recorded(req[q].event)
      BY <2>1, <2>6 DEF Fact
    <3>2. "event" \in wrote[p] => req[q].event # e
      BY <1>a, <2>1, <2>6 DEF Apart
    <3>3. QED
      BY <1>2, <2>3, <3>1, <3>2 DEF Recorded
  <2>7. Recorded(req[q].event) => Recorded(req[q].event)'
    BY <1>2, <2>3 DEF Recorded
  <2>8. ASSUME Overrides(q)
        PROVE  invoices'[InvoiceOf[req[q].line]].status = "issued"
    <3>1. InvoiceOf[req[q].line] \in Invoice
      BY <2>4, <2>8, RequestAssumption, LineAssumption DEF Overrides
    <3>2. invoices[InvoiceOf[req[q].line]].status = "issued"
      BY <2>1, <2>8 DEF Fact
    <3>3. "status" \in wrote[p] => Refers(p)
      BY <1>1 DEF IInv, Sessions, Stage, Refers
    <3>4. "status" \in wrote[p] => InvoiceOf[req[q].line] # i
      BY <1>a, <2>1, <2>8, <3>3 DEF Apart
    <3>5. QED
      BY <1>2, <3>1, <3>2, <3>4
  <2>9. ASSUME "event" \in wrote[q] \/ req[q].kind = "look"
        PROVE  req[q].invoice \in Invoice
    <3>1. req[q].kind \in {"payment", "look"}
      BY <2>1, <2>9 DEF Stage
    <3>2. QED
      BY <2>4, <3>1, RequestAssumption
  <2>10. ASSUME "event" \in wrote[q]
         PROVE  /\ "status" \in wrote[q] => invoices'[req[q].invoice].status = "issued"
                /\ pc[q] = "commit" /\ "status" \notin wrote[q]
                   => invoices'[req[q].invoice].status = "paid"
    <3>1. "status" \in wrote[p] /\ "status" \in wrote[q] => req[q].invoice # i
      BY <1>a, <2>1 DEF Apart
    <3>2. /\ "status" \in wrote[q] => invoices[req[q].invoice].status = "issued"
          /\ pc[q] = "commit" /\ "status" \notin wrote[q]
                   => invoices[req[q].invoice].status = "paid"
      BY <2>1, <2>10 DEF Fact
    <3>3. QED
      BY <1>2, <2>9, <2>10, <3>1, <3>2
  <2>11. "status" \in wrote[q] => "event" \in wrote[q]
    BY <2>1 DEF Stage
  <2>12. ASSUME req[q].kind = "look", pc[q] \in {"lines", "commit"}
         PROVE  /\ shown[q].head \in InvoiceRow
                /\ shown[q].head.status = "paid" =>
                     invoices'[req[q].invoice] = shown[q].head
    BY <1>2, <2>1, <2>9, <2>12 DEF Fact
  <2>13. /\ "grant" \in wrote[q] => Grants(req[q].key) = {}
         /\ req[q].kind = "credit" /\ pc[q] = "commit" /\ "grant" \notin wrote[q]
            => Grants(req[q].key) # {}
         /\ req[q].kind = "payment" /\ pc[q] = "commit" /\ "event" \notin wrote[q]
            => Recorded(req[q].event)'
         /\ req[q].kind = "override" /\ pc[q] = "commit"
            => totals[q] = Totals(AmountsOf(NewLines(q), InvoiceOf[req[q].line]))
         /\ req[q].kind = "look" /\ pc[q] = "commit" /\ shown[q].head.status = "paid"
            => shown[q].amounts = AmountsOf(lines, req[q].invoice)
    BY <2>1, <2>7 DEF Fact
  <2>14. QED
    BY <2>3, <2>5, <2>6, <2>8, <2>10, <2>11, <2>12, <2>13 DEF Fact
<1>7. Answered'
  <2>1. answers' \subseteq answers \cup {[req |-> req[p], grant |-> 0]}
    BY DEF CommitPayment, Answer
  <2>2. \A c : Grants(c)' = Grants(c) /\ (Recorded(c) => Recorded(c)')
    BY <1>1, <1>2 DEF Grants, Recorded
  <2>3. ASSUME NEW a \in answers
        PROVE  /\ a.req.kind = "payment" => Recorded(a.req.event)'
               /\ a.req.kind = "credit" => Grants(a.req.key)' = {a.grant}
    BY <2>2 DEF IInv, Answered
  <2>4. QED
    BY <1>a, <1>1, <1>2, <2>1, <2>3 DEF Answered
<1>8. QED
  BY <1>1, <1>3, <1>4, <1>5, <1>6, <1>7, CommitSessions DEF IInv

(* One case per action of Next. *)
LEMMA NextInv == IInv /\ [Next]_vars => IInv'
<1> SUFFICES ASSUME IInv, [Next]_vars
             PROVE  IInv'
  OBVIOUS
<1>1. ASSUME NEW p \in Session, NEW r \in Request, Begin(p, r)
      PROVE  IInv'
  BY <1>1, BeginInv
<1>2. ASSUME NEW p \in Session, Rollback(p) \/ RejectPaid(p) \/ CommitLook(p)
      PROVE  IInv'
  BY <1>2, EndQuietly DEF Rollback, RejectPaid, CommitLook
<1>3. ASSUME NEW p \in Session, Progress(p)
      PROVE  IInv'
  BY <1>2, <1>3, InsertGrantInv, ReadLineInv, LockInvoiceInv, WriteLineInv,
     RecordReplayInv, RecordEventInv, ReferenceInvoiceInv, MarkPaidInv, ReadHeadInv,
     ReadLinesInv, CommitCreditInv, CommitOverrideInv, CommitPaymentInv DEF Progress
<1>4. CASE UNCHANGED vars
  <2>1. UNCHANGED tables /\ pc' = pc /\ req' = req /\ old' = old /\ totals' = totals
        /\ shown' = shown /\ wrote' = wrote /\ answers' = answers
    BY <1>4 DEF vars
  <2>2. TablesTyped' /\ TablesAgree' /\ TotalsAgree'
    BY <2>1, TablesFrame DEF IInv
  <2>3. SessionsTyped'
    BY <2>1 DEF IInv, SessionsTyped
  <2>4. ASSUME NEW p \in Session
        PROVE  Stage(p)' /\ Fact(p)' /\ \A q \in Session \ {p} : Apart(p, q)'
    <3>1. Stage(p) /\ Fact(p) /\ \A q \in Session \ {p} : Apart(p, q)
      BY DEF IInv, Sessions
    <3>2. Stage(p)'
      BY <2>1, <3>1 DEF Stage
    <3>3. Fact(p)'
      BY <2>1, <3>1 DEF Fact, tables, Grants, Recorded, Overrides, NewLines, AmountsOf
    <3>4. \A q \in Session \ {p} : Apart(p, q)'
      BY <2>1, <3>1 DEF Apart, Overrides, Refers
    <3>5. QED
      BY <3>2, <3>3, <3>4
  <2>5. Answered'
    BY <2>1 DEF IInv, Answered, tables, Grants, Recorded
  <2>6. QED
    BY <2>2, <2>3, <2>4, <2>5 DEF IInv, Sessions
<1>5. QED
  BY <1>1, <1>2, <1>3, <1>4 DEF Next

(* The inductive invariant: every request has read what its stage says it has,
   what it relies on is still so in the store, and two requests under way hold
   different rows.  Everything proved below about the operations follows from it. *)
THEOREM Invariant == Spec => []IInv
<1>1. QED
  BY InitInv, NextInv, PTL DEF Spec
-----------------------------------------------------------------------------
(* The properties *)

\* Rows, statements and requests have their types, totals are natural numbers
\* and grants positive, whatever is asked for.
THEOREM TypeCorrect == Spec => []TypeOK
<1>1. IInv => TypeOK
  <2> SUFFICES ASSUME IInv
               PROVE  TypeOK
    OBVIOUS
  <2>1. ASSUME NEW i \in Invoice
        PROVE  /\ invoices[i].status \in {"issued", "paid"}
               /\ invoices[i].status = "issued" <=> invoices[i].paidBy = NoEvent
               /\ invoices[i].totals \in [subtotal : Nat, credit : Nat, total : Nat]
    BY DEF IInv, TablesTyped, TablesAgree, InvoiceRow, TotalsRow, Status
  <2>2. \A row \in webhook_events : row.invoice \in Invoice
    BY DEF IInv, TablesTyped, EventRow
  <2>3. ASSUME NEW i \in DOMAIN audit
        PROVE  audit[i].line \in Line
    <3>1. audit \in Seq(AuditRow)
      BY DEF IInv, TablesTyped
    <3>2. audit[i] \in AuditRow
      BY <3>1
    <3>3. QED
      BY <3>2 DEF AuditRow
  <2>4. lines \in [Line -> Int] /\ \A i \in DOMAIN credit_grants : credit_grants[i].amount > 0
    BY DEF IInv, TablesTyped, TablesAgree
  <2>5. /\ pc \in [Session -> {"idle", "grant", "read", "lock", "write", "record",
                               "reference", "pay", "head", "lines", "commit"}]
        /\ req \in [Session -> Request \cup {NoRequest}]
        /\ old \in [Session -> Int]
        /\ wrote \in [Session -> SUBSET {"grant", "event", "status"}]
    BY DEF IInv, SessionsTyped, Statement
  <2>6. QED
    BY <2>1, <2>2, <2>3, <2>4, <2>5 DEF TypeOK
<1>2. QED
  BY <1>1, Invariant, PTL

\* The totals of every invoice are those of its lines: an override computes them
\* from lines that nobody changes until it commits, and no other transaction
\* writes them.
THEOREM TotalsAlwaysAgree == Spec => []TotalsAgree
<1>1. IInv => TotalsAgree
  BY DEF IInv
<1>2. QED
  BY <1>1, Invariant, PTL

\* A payment that was acknowledged is recorded, for an invoice that is paid.
THEOREM AckedPaymentsArePaid == Spec => []AckedPaymentIsPaid
<1>1. IInv => AckedPaymentIsPaid
  BY DEF IInv, Answered, TablesAgree, Recorded, AckedPaymentIsPaid
<1>2. QED
  BY <1>1, Invariant, PTL

\* A key gives one credit, and every answer to it names that one.
THEOREM OneCreditPerKey == Spec => []CreditOncePerKey
<1>1. IInv => CreditOncePerKey
  BY DEF IInv, Answered, TablesAgree, CreditOncePerKey
<1>2. QED
  BY <1>1, Invariant, PTL

\* Whoever has read an invoice as paid reads the lines its totals are made of:
\* the row it read is still the invoice's.
THEOREM PaidInvoicesReadWhole == Spec => []PaidReadsAgree
<1>1. IInv => PaidReadsAgree
  <2> SUFFICES ASSUME IInv, NEW p \in Session,
                      req[p].kind = "look", pc[p] = "commit", shown[p].head.status = "paid"
               PROVE  shown[p].head.totals = Totals(shown[p].amounts)
    BY DEF PaidReadsAgree
  <2>1. Fact(p)
    BY DEF IInv, Sessions
  <2>2. /\ invoices[req[p].invoice] = shown[p].head
        /\ shown[p].amounts = AmountsOf(lines, req[p].invoice)
    BY <2>1 DEF Fact
  <2>3. req[p].invoice \in Invoice
    BY Reached, RequestAssumption
  <2>4. QED
    BY <2>2, <2>3 DEF IInv, TotalsAgree
<1>2. QED
  BY <1>1, Invariant, PTL

\* The steps that change an invoice or a line.
LEMMA WhoWrites ==
  ASSUME [Next]_vars
  PROVE  \/ invoices' = invoices /\ lines' = lines
         \/ \E p \in Session, answered \in BOOLEAN :
               CommitOverride(p, answered) \/ CommitPayment(p, answered)
BY DEF Next, Begin, Progress, Rollback, InsertGrant, ReadLine, LockInvoice, RejectPaid,
       WriteLine, RecordReplay, RecordEvent, ReferenceInvoice, MarkPaid, ReadHead,
       ReadLines, CommitLook, CommitCredit, vars, tables

\* Nothing changes an invoice that is paid: not its lines, its totals or the
\* event that paid it.
THEOREM PaidStaysFrozen == Spec => PaidIsFrozen
<1> DEFINE Frozen == \A i \in Invoice :
                        invoices[i].status = "paid" =>
                           /\ invoices'[i] = invoices[i]
                           /\ AmountsOf(lines', i) = AmountsOf(lines, i)
<1>1. IInv /\ [Next]_vars => [Frozen]_vars
  <2> SUFFICES ASSUME IInv, [Next]_vars
               PROVE  Frozen
    OBVIOUS
  <2>1. CASE invoices' = invoices /\ lines' = lines
    BY <2>1
  <2>2. ASSUME NEW p \in Session, NEW answered \in BOOLEAN, CommitOverride(p, answered)
        PROVE  Frozen
    <3>a. PICK i : i = InvoiceOf[req[p].line]
      OBVIOUS
    <3>1. /\ invoices[i].status = "issued"
          /\ \A j \in Invoice : j # i => /\ invoices'[j] = invoices[j]
                                         /\ AmountsOf(lines', j) = AmountsOf(lines, j)
      BY <2>2, <3>a, OverrideEffect
    <3>2. QED
      BY <3>1
  <2>3. ASSUME NEW p \in Session, NEW answered \in BOOLEAN, CommitPayment(p, answered)
        PROVE  Frozen
    <3>a. PICK i, e : i = req[p].invoice /\ e = req[p].event
      OBVIOUS
    <3>1. \A j \in Invoice : invoices[j].status = "paid" => invoices'[j] = invoices[j]
      BY <2>3, <3>a, PaymentEffect
    <3>2. lines' = lines
      BY <2>3 DEF CommitPayment
    <3>3. QED
      BY <3>1, <3>2
  <2>4. QED
    BY <2>1, <2>2, <2>3, WhoWrites
<1>2. QED
  BY <1>1, Invariant, PTL DEF Spec, PaidIsFrozen

-----------------------------------------------------------------------------
(* Ops implements Ledger *)

(* The abstract specification sums a function over a set as the detailed one does. *)
LEMMA SameSums == \A f, S : Abstract!SumOver(f, S) = SumOver(f, S)
BY DEF SumOver, MapThenSumSet, MapThenFoldSet, Abstract!SumOver, Abstract!MapThenSumSet,
       Abstract!MapThenFoldSet

(* The amounts of an invoice are the same in both. *)
LEMMA SameAmounts == \A a, i : Abstract!AmountsOf(a, i) = AmountsOf(a, i)
BY DEF AmountsOf, Abstract!AmountsOf

(* The totals of an invoice are the same in both. *)
LEMMA SameTotals == \A a : Abstract!Totals(a) = Totals(a)
BY SameSums DEF Totals, Abstract!Totals

(* The initial states map to the initial states of Ledger. *)
LEMMA AbstractInit == Init => Abstract!Init
BY SameTotals, SameAmounts DEF Init, Abstract!Init, Issued, Abstract!Issued

(* A committed credit is a Grant of the ledger, a repeated key a stutter. *)
LEMMA GrantStep ==
  ASSUME IInv, NEW p \in Session, NEW answered \in BOOLEAN, CommitCredit(p, answered)
  PROVE  Abstract!Next \/ UNCHANGED Abstract!vars
<1>1. /\ req[p] \in Request /\ req[p].kind = "credit" /\ Fact(p)
      /\ lines' = lines /\ invoices' = invoices /\ webhook_events' = webhook_events
  BY Reached DEF CommitCredit, IInv, Sessions
<1>2. CASE "grant" \in wrote[p]
  <2>1. \A i \in DOMAIN credit_grants : credit_grants[i].key # req[p].key
    BY <1>1, <1>2 DEF Fact, Grants
  <2>2. credit_grants' = Append(credit_grants, [key |-> req[p].key,
                            customer |-> req[p].customer, amount |-> req[p].amount])
    BY <1>2 DEF CommitCredit
  <2>3. Abstract!Grant(req[p])
    BY <1>1, <2>1, <2>2 DEF Abstract!Grant
  <2>4. QED
    BY <1>1, <2>3 DEF Abstract!Next
<1>3. CASE "grant" \notin wrote[p]
  BY <1>1, <1>3 DEF CommitCredit, Abstract!vars
<1>4. QED
  BY <1>2, <1>3

(* A committed override is an Override of the ledger. *)
LEMMA OverrideStep ==
  ASSUME IInv, NEW p \in Session, NEW answered \in BOOLEAN, CommitOverride(p, answered)
  PROVE  Abstract!Next
<1>1. /\ req[p] \in Request /\ req[p].kind = "override" /\ pc[p] = "commit"
      /\ Fact(p) /\ Overrides(p)
  BY Reached DEF CommitOverride, IInv, Sessions, Overrides
<1>2. /\ invoices[InvoiceOf[req[p].line]].status = "issued"
      /\ totals[p] = Totals(AmountsOf(NewLines(p), InvoiceOf[req[p].line]))
  BY <1>1 DEF Fact
<1>3. /\ lines' = [lines EXCEPT ![req[p].line] = req[p].amount] /\ lines' = NewLines(p)
      /\ invoices' = [invoices EXCEPT ![InvoiceOf[req[p].line]].totals = totals[p]]
      /\ UNCHANGED <<webhook_events, credit_grants>>
  BY DEF CommitOverride, NewLines
<1>4. totals[p] = Abstract!Totals(Abstract!AmountsOf(lines', InvoiceOf[req[p].line]))
  BY <1>2, <1>3, SameTotals, SameAmounts
<1>5. Abstract!Override(req[p])
  BY <1>1, <1>2, <1>3, <1>4 DEF Abstract!Override
<1>6. QED
  BY <1>1, <1>5 DEF Abstract!Next

(* A committed payment is a Pay of the ledger, a repeated one a stutter. *)
LEMMA PayStep ==
  ASSUME IInv, NEW p \in Session, NEW answered \in BOOLEAN, CommitPayment(p, answered)
  PROVE  Abstract!Next \/ UNCHANGED Abstract!vars
<1>1. /\ req[p] \in Request /\ req[p].kind = "payment" /\ Fact(p) /\ Stage(p)
      /\ pc[p] = "commit" /\ lines' = lines /\ credit_grants' = credit_grants
  BY Reached DEF CommitPayment, IInv, Sessions
<1>2. CASE "event" \in wrote[p]
  <2>1. \A row \in webhook_events : row.event # req[p].event
    BY <1>1, <1>2 DEF Fact, Recorded
  <2>2. webhook_events' = webhook_events \cup
                             {[event |-> req[p].event, invoice |-> req[p].invoice]}
    BY <1>2 DEF CommitPayment
  <2>3. "status" \in wrote[p] <=> invoices[req[p].invoice].status = "issued"
    BY <1>1, <1>2 DEF Fact
  <2>4. Abstract!Pay(req[p])
    BY <1>1, <2>1, <2>2, <2>3 DEF CommitPayment, Abstract!Pay
  <2>5. QED
    BY <1>1, <2>4 DEF Abstract!Next
<1>3. CASE "event" \notin wrote[p]
  BY <1>1, <1>3 DEF CommitPayment, Stage, Abstract!vars
<1>4. QED
  BY <1>2, <1>3

\* Every other step leaves what Ledger sees alone.
LEMMA OtherSteps ==
  ASSUME [Next]_vars
  PROVE  \/ UNCHANGED Abstract!vars
         \/ \E p \in Session, answered \in BOOLEAN :
               \/ CommitCredit(p, answered)
               \/ CommitOverride(p, answered)
               \/ CommitPayment(p, answered)
BY DEF Next, Begin, Progress, Rollback, InsertGrant, ReadLine, LockInvoice, RejectPaid,
       WriteLine, RecordReplay, RecordEvent, ReferenceInvoice, MarkPaid, ReadHead,
       ReadLines, CommitLook, vars, tables, Abstract!vars

\* Readers of the tables see what indivisible operations would have done: each
\* commit is one operation of the ledger, or none, and nothing else is visible.
THEOREM ImplementsLedger == Spec => LedgerSpec
<1>1. IInv /\ [Next]_vars => [Abstract!Next]_(Abstract!vars)
  BY OtherSteps, GrantStep, OverrideStep, PayStep
<1>2. QED
  BY <1>1, AbstractInit, Invariant, PTL DEF Spec, LedgerSpec, Abstract!Spec
==============================================================================
