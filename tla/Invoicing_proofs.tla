--------------------------- MODULE Invoicing_proofs ---------------------------
(***************************************************************************)
(* Proofs about the invoice job, for any number of workers, customers,     *)
(* events, grants and months.  The invariants are layered: usage (what the *)
(* windows are worth), then runs (what a worker knows), then invoices.     *)
(* The last part is about the seed, for any script and any number of       *)
(* restarts: what holds of a run of the job holds of the seed's own run,   *)
(* which starts without reading the clock.                                 *)
(***************************************************************************)
EXTENDS Seeding, Pricing_proofs

-----------------------------------------------------------------------------
(* Hours *)

\* Meter has copies of the operators of Usage: they are the same.
LEMMA SameUsage ==
  /\ Meter!Slot = Slot
  /\ \A e : Meter!SlotOf(e) = SlotOf(e)
  /\ \A rows, s : Meter!HourUnits(rows, s) = HourUnits(rows, s)
<1>1. \A e : Meter!SlotOf(e) = SlotOf(e)
  BY DEF SlotOf, Meter!SlotOf
<1>2. Meter!Slot = Slot
  BY <1>1 DEF Slot, Meter!Slot
<1>3. \A rows, s : Meter!RowsOf(rows, s) = RowsOf(rows, s)
  BY <1>1 DEF RowsOf, Meter!RowsOf
<1>4. \A rows, s : Meter!UnitTokens(rows, s) = UnitTokens(rows, s)
  BY <1>3 DEF UnitTokens, Meter!UnitTokens
<1>5. ASSUME NEW rows, NEW s
      PROVE  Meter!HourUnits(rows, s) = HourUnits(rows, s)
  <2>1. Meter!UnitTokens(rows, s) = UnitTokens(rows, s)
    BY <1>4
  <2>2. Meter!Cardinality(UnitTokens(rows, s)) = Cardinality(UnitTokens(rows, s))
    BY DEF Cardinality, Meter!Cardinality, IsFiniteSet, Meter!IsFiniteSet
  <2>3. QED
    BY <2>1, <2>2 DEF HourUnits, Meter!HourUnits
<1>6. QED
  BY <1>1, <1>2, <1>5

\* A finite set of events has a sum for every slot.
LEMMA HourUnitsType ==
  ASSUME NEW rows \in SUBSET Event, IsFiniteSet(rows), NEW s
  PROVE  IsFiniteSet(UnitTokens(rows, s)) /\ HourUnits(rows, s) \in Nat
<1> DEFINE Of == RowsOf(rows, s)
<1>1. IsFiniteSet(Of)
  BY FS_Subset DEF RowsOf
<1>2. \A r \in Of : r.units \in Int
  BY EventAssumption DEF RowsOf
<1> HIDE DEF Of
<1>3. IsFiniteSet(UNION {{r} \X (1 .. r.units) : r \in Of})
  BY <1>1, <1>2, TokensFinite
<1>4. QED
  BY <1>3, FS_CardinalityType DEF HourUnits, UnitTokens, Of

\* More rows never make a smaller sum, and rows of other slots the same one.
LEMMA HourUnitsGrow ==
  ASSUME NEW rows \in SUBSET Event, NEW more \in SUBSET Event, NEW s,
         IsFiniteSet(rows), IsFiniteSet(more)
  PROVE  /\ HourUnits(rows, s) <= HourUnits(rows \cup more, s)
         /\ (\A r \in more : SlotOf(r) # s) => HourUnits(rows \cup more, s) = HourUnits(rows, s)
<1>1. IsFiniteSet(rows \cup more) /\ rows \cup more \in SUBSET Event
  BY FS_Union
<1>2. IsFiniteSet(UnitTokens(rows \cup more, s))
  BY <1>1, HourUnitsType
<1>3. UnitTokens(rows, s) \subseteq UnitTokens(rows \cup more, s)
  BY DEF UnitTokens, RowsOf
<1>4. (\A r \in more : SlotOf(r) # s) => RowsOf(rows \cup more, s) = RowsOf(rows, s)
  BY DEF RowsOf
<1>5. QED
  BY <1>2, <1>3, <1>4, FS_Subset DEF HourUnits, UnitTokens

\* A month has finitely many hours of a customer.
LEMMA SlotsFinite ==
  ASSUME NEW c, NEW m \in Int
  PROVE  IsFiniteSet(SlotsOf(c, m)) /\ SlotsOf(c, m) \subseteq Slot
<1> DEFINE Keys == {e.key : e \in Event}
           H == HoursPerMonth
           Hours == (m * H) .. (m * H + H)
<1>1. H \in Nat \ {0}
  BY MonthAssumption
<1>2. IsFiniteSet(Hours)
  <2>1. m * H \in Int /\ m * H + H \in Int
    BY <1>1
  <2>2. QED
    BY <2>1, FS_Interval
<1>3. IsFiniteSet(Keys \X Hours)
  <2>1. IsFiniteSet(Keys)
    BY KeysAssumption
  <2> HIDE DEF Keys, Hours
  <2>2. QED
    BY <1>2, <2>1, FS_Product
<1>4. ASSUME NEW s \in SlotsOf(c, m)
      PROVE  s \in Keys \X Hours
  <2>1. PICK e \in Event : s = <<e.key, e.hour>>
    BY DEF SlotsOf, Slot, SlotOf
  <2>2. e.hour \in Int /\ e.hour \div H = m
    BY <2>1, EventAssumption DEF SlotsOf, MonthOf
  <2>3. e.hour \in Hours
    <3>1. PICK h : h = e.hour
      OBVIOUS
    <3>2. m * H <= h /\ h < m * H + H
      BY <1>1, <2>2, <3>1
    <3>3. QED
      BY <1>1, <2>2, <3>1, <3>2
  <2>4. QED
    BY <2>1, <2>3
<1>5. SlotsOf(c, m) \subseteq Keys \X Hours
  BY <1>4
<1>6. IsFiniteSet(SlotsOf(c, m))
  <2> HIDE DEF Keys, Hours
  <2>1. QED
    BY <1>3, <1>5, FS_Subset
<1>7. QED
  BY <1>6 DEF SlotsOf
\* The windows of a month add up to what is stored for it at most, and to all of
\* it if none of its hours is stale.
LEMMA MonthSums ==
  ASSUME NEW rows \in SUBSET Event, IsFiniteSet(rows),
         NEW wins, \A s \in Slot : wins[s] \in Nat /\ wins[s] <= HourUnits(rows, s),
         NEW lag, \A s \in Slot : s \notin lag => wins[s] = HourUnits(rows, s),
         NEW c, NEW m \in Int
  PROVE  /\ SumOver(wins, SlotsOf(c, m)) \in Nat
         /\ UnitsIn(rows, c, m) \in Nat
         /\ SumOver(wins, SlotsOf(c, m)) <= UnitsIn(rows, c, m)
         /\ SlotsOf(c, m) \cap lag = {} =>
               SumOver(wins, SlotsOf(c, m)) = UnitsIn(rows, c, m)
<1> DEFINE S == SlotsOf(c, m)
           f == [s \in Slot |-> HourUnits(rows, s)]
<1>1. IsFiniteSet(S) /\ S \subseteq Slot
  BY SlotsFinite
<1>2. \A s \in S : f[s] \in Nat /\ f[s] = HourUnits(rows, s) /\ wins[s] \in Nat /\ wins[s] <= f[s]
  BY <1>1, HourUnitsType
<1> HIDE DEF S, f
<1>3. SumOver(wins, S) \in Nat /\ SumOver(f, S) \in Nat
  BY <1>1, <1>2, SumNat
<1>4. SumOver(wins, S) <= SumOver(f, S)
  <2>1. \A s \in S : wins[s] \in Int /\ f[s] \in Int /\ wins[s] <= f[s]
    BY <1>2
  <2>2. QED
    BY <1>1, <2>1, SumMonotone
<1>5. S \cap lag = {} => SumOver(wins, S) = SumOver(f, S)
  <2>1. S \cap lag = {} => \A s \in S : wins[s] = f[s]
    BY <1>1, <1>2
  <2>2. QED
    BY <1>1, <2>1, SumSame
<1>6. QED
  BY <1>3, <1>4, <1>5 DEF UnitsIn, S, f

\* A month grows with its hours.
LEMMA MonthGrows ==
  ASSUME NEW f, NEW g, \A s \in Slot : f[s] \in Nat /\ g[s] \in Nat /\ f[s] <= g[s],
         NEW c, NEW m \in Int
  PROVE  SumOver(f, SlotsOf(c, m)) <= SumOver(g, SlotsOf(c, m))
<1> DEFINE S == SlotsOf(c, m)
<1>1. IsFiniteSet(S) /\ S \subseteq Slot
  BY SlotsFinite
<1>2. \A s \in S : f[s] \in Int /\ g[s] \in Int /\ f[s] <= g[s]
  BY <1>1
<1> HIDE DEF S
<1>3. QED
  BY <1>1, <1>2, SumMonotone DEF S

-----------------------------------------------------------------------------
(* Usage *)

\* A window never shows more than what is stored, and all of it in an hour that
\* is not stale.
UsageInv ==
    /\ events \in SUBSET Event /\ IsFiniteSet(events)
    /\ stale \in SUBSET Slot
    /\ windows \in [Slot -> Nat]
    /\ \A s \in Slot : windows[s] <= HourUnits(events, s)
    /\ \A s \in Slot : s \notin stale => windows[s] = HourUnits(events, s)

\* A step takes nothing away from an hour, published or stored.
UsageGrows == \A s \in Slot : /\ windows[s] <= windows'[s]
                              /\ HourUnits(events, s) <= HourUnits(events', s)

(* The usage layer holds when nothing has been stored. *)
LEMMA UsageInit == Meter!Init => UsageInv
<1> SUFFICES ASSUME Meter!Init PROVE UsageInv
  OBVIOUS
<1>1. events = {} /\ stale = {} /\ windows = [s \in Slot |-> 0]
  BY SameUsage DEF Meter!Init
<1>2. \A s : HourUnits({}, s) = 0
  <2>1. \A s : UnitTokens({}, s) = {}
    BY DEF UnitTokens, RowsOf
  <2>2. QED
    BY <2>1, FS_EmptySet DEF HourUnits
<1>3. QED
  BY <1>1, <1>2, FS_EmptySet DEF UsageInv

(* A step that leaves the meter alone preserves the usage layer. *)
LEMMA UsageSame == UsageInv /\ UNCHANGED meter => UsageInv' /\ UsageGrows
<1> SUFFICES ASSUME UsageInv, UNCHANGED meter
             PROVE  UsageInv' /\ UsageGrows
  OBVIOUS
<1>1. events' = events /\ stale' = stale /\ windows' = windows
  BY DEF meter
<1>2. UsageInv'
  BY <1>1 DEF UsageInv
<1>3. \A s \in Slot : HourUnits(events, s) \in Nat
  BY HourUnitsType DEF UsageInv
<1>4. QED
  BY <1>1, <1>2, <1>3 DEF UsageInv, UsageGrows

\* New events: their hours are stale from the same instant.
LEMMA UsageRecord ==
  ASSUME UsageInv, NEW E \in SUBSET Event, IsFiniteSet(E), Meter!Record(E)
  PROVE  UsageInv' /\ UsageGrows
<1>1. /\ events' = events \cup E
      /\ stale' = stale \cup {SlotOf(e) : e \in E}
      /\ windows' = windows
  BY SameUsage DEF Meter!Record
<1>2. events' \in SUBSET Event /\ IsFiniteSet(events')
  BY <1>1, FS_Union DEF UsageInv
<1>3. stale' \in SUBSET Slot
  BY <1>1 DEF UsageInv, Slot
<1>4. ASSUME NEW s \in Slot
      PROVE  /\ HourUnits(events, s) \in Nat /\ HourUnits(events', s) \in Nat
             /\ HourUnits(events, s) <= HourUnits(events', s)
             /\ s \notin stale' => HourUnits(events', s) = HourUnits(events, s)
  <2>1. events \in SUBSET Event /\ IsFiniteSet(events)
    BY DEF UsageInv
  <2>2. HourUnits(events, s) \in Nat /\ HourUnits(events', s) \in Nat
    BY <1>2, <2>1, HourUnitsType
  <2>3. /\ HourUnits(events, s) <= HourUnits(events \cup E, s)
        /\ (\A r \in E : SlotOf(r) # s) => HourUnits(events \cup E, s) = HourUnits(events, s)
    BY <2>1, HourUnitsGrow
  <2>4. s \notin stale' => \A r \in E : SlotOf(r) # s
    BY <1>1
  <2>5. QED
    BY <1>1, <2>2, <2>3, <2>4
<1>5. ASSUME NEW s \in Slot
      PROVE  /\ windows[s] \in Nat /\ windows[s] <= HourUnits(events, s)
             /\ s \notin stale => windows[s] = HourUnits(events, s)
  BY DEF UsageInv
<1>6. windows' \in [Slot -> Nat]
  BY <1>1 DEF UsageInv
<1>7. \A s \in Slot : windows'[s] <= HourUnits(events', s)
  BY <1>1, <1>4, <1>5
<1>8. \A s \in Slot : s \notin stale' => windows'[s] = HourUnits(events', s)
  BY <1>1, <1>4, <1>5
<1>9. UsageInv'
  BY <1>2, <1>3, <1>6, <1>7, <1>8 DEF UsageInv
<1>10. QED
  BY <1>1, <1>4, <1>5, <1>9 DEF UsageGrows

\* Stale hours are brought up to date.
LEMMA UsageRefresh ==
  ASSUME UsageInv, NEW S \in SUBSET stale, Meter!Refresh(S)
  PROVE  UsageInv' /\ UsageGrows
<1>1. /\ events' = events
      /\ stale' = stale \ S
      /\ windows' = [s \in Slot |-> IF s \in S THEN HourUnits(events, s) ELSE windows[s]]
  BY SameUsage DEF Meter!Refresh
<1>2. ASSUME NEW s \in Slot
      PROVE  /\ HourUnits(events, s) \in Nat
             /\ windows[s] \in Nat /\ windows[s] <= HourUnits(events, s)
             /\ s \notin stale => windows[s] = HourUnits(events, s)
  BY HourUnitsType DEF UsageInv
<1>3. windows' \in [Slot -> Nat]
  BY <1>1, <1>2
<1>4. \A s \in Slot : /\ windows'[s] <= HourUnits(events, s)
                      /\ windows[s] <= windows'[s]
                      /\ s \notin stale' => windows'[s] = HourUnits(events, s)
  BY <1>1, <1>2
<1>5. UsageInv'
  BY <1>1, <1>3, <1>4 DEF UsageInv
<1>6. QED
  BY <1>1, <1>2, <1>4, <1>5 DEF UsageGrows

\* What the job reads of a month, and what is stored for it.
LEMMA MonthUnits ==
  ASSUME UsageInv, NEW c, NEW m \in Int
  PROVE  /\ SumUnits(c, m) \in Nat
         /\ StoredUnits(c, m) \in Nat
         /\ SumUnits(c, m) <= StoredUnits(c, m)
         /\ SlotsOf(c, m) \cap stale = {} => SumUnits(c, m) = StoredUnits(c, m)
<1>1. /\ events \in SUBSET Event /\ IsFiniteSet(events)
      /\ \A s \in Slot : windows[s] \in Nat /\ windows[s] <= HourUnits(events, s)
      /\ \A s \in Slot : s \notin stale => windows[s] = HourUnits(events, s)
  BY DEF UsageInv
<1>2. QED
  BY <1>1, MonthSums DEF SumUnits, StoredUnits

\* Neither of the two ever shrinks.
LEMMA MonthUnitsGrow ==
  ASSUME UsageInv, UsageInv', UsageGrows, NEW c, NEW m \in Int
  PROVE  /\ SumOver(windows, SlotsOf(c, m)) <= SumOver(windows', SlotsOf(c, m))
         /\ UnitsIn(events, c, m) <= UnitsIn(events', c, m)
         /\ SumOver(windows', SlotsOf(c, m)) \in Nat /\ UnitsIn(events', c, m) \in Nat
<1>1. \A s \in Slot : windows[s] \in Nat /\ windows'[s] \in Nat /\ windows[s] <= windows'[s]
  BY DEF UsageInv, UsageGrows
<1>2. SumOver(windows, SlotsOf(c, m)) <= SumOver(windows', SlotsOf(c, m))
  BY <1>1, MonthGrows
<1> DEFINE f == [s \in Slot |-> HourUnits(events, s)]
           g == [s \in Slot |-> HourUnits(events', s)]
<1>3. \A s \in Slot : f[s] \in Nat /\ g[s] \in Nat /\ f[s] <= g[s]
  BY HourUnitsType DEF UsageInv, UsageGrows
<1>4. SumOver(f, SlotsOf(c, m)) <= SumOver(g, SlotsOf(c, m))
  <2> HIDE DEF f, g
  <2>1. QED
    BY <1>3, MonthGrows
<1>5. SumOver(windows', SlotsOf(c, m)) \in Nat /\ UnitsIn(events', c, m) \in Nat
  <2>1. /\ events' \in SUBSET Event /\ IsFiniteSet(events')
        /\ \A s \in Slot : windows'[s] \in Nat /\ windows'[s] <= HourUnits(events', s)
        /\ \A s \in Slot : s \notin stale' => windows'[s] = HourUnits(events', s)
    BY DEF UsageInv
  <2>2. QED
    BY <2>1, MonthSums
<1>6. QED
  BY <1>2, <1>4, <1>5 DEF UnitsIn
-----------------------------------------------------------------------------
(* Runs, credits and invoices *)

RunsTyped ==
    /\ month \in 1 .. LastMonth
    /\ wpc \in [Worker -> {"idle", "clock", "list", "sum", "credits", "save"}]
    /\ period \in [Worker -> 0 .. LastMonth - 1]
    /\ queue \in [Worker -> SUBSET Customer]
    /\ customer \in [Worker -> Customer \cup {NoCustomer}]
    /\ units \in [Worker -> Nat]
    /\ DOMAIN read = Worker
    /\ seen \in [Worker -> [Customer -> Nat]]

GrantRow == [customer : Customer, amount : GrantAmounts, remaining : Nat]

GrantsInv ==
    /\ grants \in Seq(GrantRow)
    /\ \A i \in DOMAIN grants : grants[i].remaining <= grants[i].amount

\* What worker w knows stays true until it is used: its month is over, all that
\* was seen of the customers in its queue is in the windows, the units it has
\* summed were reported, and what it read are grants.
Run(w) ==
    /\ period[w] < month
    /\ wpc[w] \in {"idle", "clock", "list"} => queue[w] = {}
    /\ \A c \in queue[w] : seen[w][c] <= SumUnits(c, period[w])
    /\ wpc[w] \in {"credits", "save"} =>
          /\ customer[w] \in Customer
          /\ 0 < units[w]
          /\ units[w] <= StoredUnits(customer[w], period[w])
          /\ seen[w][customer[w]] <= units[w]
    /\ DOMAIN read[w] \subseteq DOMAIN grants
    /\ \A i \in DOMAIN read[w] : read[w][i] \in 0 .. grants[i].amount

InvoiceOK(i) ==
    /\ i.customer \in Customer /\ i.period \in 0 .. LastMonth - 1
    /\ i.units \in Nat \ {0} /\ i.seen \in Nat
    /\ i.subtotal \in Nat /\ i.credit \in 0 .. i.subtotal
    /\ i.total = i.subtotal - i.credit
    /\ i.lines \subseteq Line
    /\ i.units <= StoredUnits(i.customer, i.period)
    /\ i.seen <= i.units

InvoicesInv == /\ IsFiniteSet(invoices)
               /\ \A i \in invoices : InvoiceOK(i)
               /\ OneInvoicePerMonth

Inv == /\ UsageInv /\ RunsTyped /\ GrantsInv
       /\ \A w \in Worker : Run(w)
       /\ InvoicesInv

\* Grants are never taken back, and keep their customer and amount.
GrantsGrow == /\ DOMAIN grants \subseteq DOMAIN grants'
              /\ \A i \in DOMAIN grants : /\ grants'[i].customer = grants[i].customer
                                          /\ grants'[i].amount = grants[i].amount

\* The amounts of grants fit.
LEMMA GrantTypes ==
  ASSUME GrantsInv, NEW i \in DOMAIN grants
  PROVE  /\ i \in Nat \ {0}
         /\ grants[i] \in GrantRow
         /\ grants[i].customer \in Customer
         /\ grants[i].amount \in GrantAmounts
         /\ grants[i].amount \in Nat /\ grants[i].amount <= MaxInt
         /\ grants[i].remaining \in 0 .. grants[i].amount
<1>1. grants \in Seq(GrantRow) /\ i \in 1 .. Len(grants)
  BY DEF GrantsInv
<1>2. grants[i] \in GrantRow
  <2> HIDE DEF GrantRow
  <2>1. QED
    BY <1>1
<1>3. GrantAmounts \subseteq Nat /\ \A a \in GrantAmounts : a <= MaxInt
  BY GrantAssumption, HalfAssumption DEF MaxInt
<1>4. grants[i].amount \in GrantAmounts /\ grants[i].customer \in Customer
      /\ grants[i].remaining \in Nat
  BY <1>2 DEF GrantRow
<1>5. grants[i].amount \in Nat /\ grants[i].amount <= MaxInt
  BY <1>3, <1>4
<1>6. grants[i].remaining <= grants[i].amount
  BY DEF GrantsInv
<1>7. i \in Nat \ {0}
  BY <1>1
<1>8. QED
  BY <1>2, <1>4, <1>5, <1>6, <1>7

(* The whole invariant holds initially: no usage, no run under way, no invoice. *)
LEMMA InvInit == Init => Inv
<1> SUFFICES ASSUME Init PROVE Inv
  OBVIOUS
<1>1. UsageInv
  BY UsageInit DEF Init
<1>2. RunsTyped
  BY LastMonthAssumption DEF Init, RunsTyped
<1>3. GrantsInv
  BY DEF Init, GrantsInv
<1>4. ASSUME NEW w \in Worker
      PROVE  Run(w)
  <2>1. read[w] = <<>> /\ DOMAIN <<>> = {} /\ queue[w] = {} /\ wpc[w] = "idle"
        /\ period[w] = 0 /\ month = 1
    BY <1>2 DEF Init
  <2>2. QED
    BY <2>1 DEF Run
<1>5. InvoicesInv
  BY FS_EmptySet DEF Init, InvoicesInv, OneInvoicePerMonth
<1>6. QED
  BY <1>1, <1>2, <1>3, <1>4, <1>5 DEF Inv

\* What a worker knows survives the steps of the others.
LEMMA RunKept ==
  ASSUME UsageInv, UsageInv', UsageGrows, GrantsInv, GrantsGrow, RunsTyped,
         NEW v \in Worker, Run(v), month <= month', month' \in Int,
         UNCHANGED <<period[v], wpc[v], queue[v], seen[v], customer[v], units[v], read[v]>>
  PROVE  Run(v)'
<1>1. period[v] \in Int /\ period[v] < month' /\ queue[v] \subseteq Customer
  BY DEF RunsTyped, Run
<1>2. ASSUME NEW c \in queue[v]
      PROVE  seen[v][c] <= SumOver(windows', SlotsOf(c, period[v]))
  <2>1. SumOver(windows, SlotsOf(c, period[v])) <= SumOver(windows', SlotsOf(c, period[v]))
        /\ SumOver(windows', SlotsOf(c, period[v])) \in Nat
    BY <1>1, MonthUnitsGrow
  <2>2. SumUnits(c, period[v]) \in Nat
    BY <1>1, MonthUnits
  <2>3. seen[v][c] \in Nat
    BY <1>1 DEF RunsTyped
  <2>4. seen[v][c] <= SumUnits(c, period[v])
    BY DEF Run
  <2>5. QED
    BY <2>1, <2>2, <2>3, <2>4 DEF SumUnits
<1>3. ASSUME wpc[v] \in {"credits", "save"}
      PROVE  units[v] <= UnitsIn(events', customer[v], period[v])
  <2>1. UnitsIn(events, customer[v], period[v]) <= UnitsIn(events', customer[v], period[v])
        /\ UnitsIn(events', customer[v], period[v]) \in Nat
    BY <1>1, MonthUnitsGrow
  <2>2. StoredUnits(customer[v], period[v]) \in Nat
    BY <1>1, MonthUnits
  <2>3. units[v] \in Nat /\ units[v] <= StoredUnits(customer[v], period[v])
    BY <1>3 DEF RunsTyped, Run
  <2>4. QED
    BY <2>1, <2>2, <2>3 DEF StoredUnits
<1>4. /\ DOMAIN read[v] \subseteq DOMAIN grants'
      /\ \A i \in DOMAIN read[v] : read[v][i] \in 0 .. grants'[i].amount
  BY DEF Run, GrantsGrow
<1>5. QED
  BY <1>1, <1>2, <1>3, <1>4 DEF Run, SumUnits, StoredUnits

\* So does what an invoice says of the usage.
LEMMA InvoicesKept ==
  ASSUME UsageInv, UsageInv', UsageGrows, InvoicesInv, UNCHANGED invoices
  PROVE  InvoicesInv'
<1>1. ASSUME NEW i \in invoices
      PROVE  i.units <= UnitsIn(events', i.customer, i.period)
  <2>1. i.period \in Int /\ i.units \in Int /\ i.units <= UnitsIn(events, i.customer, i.period)
    BY LastMonthAssumption DEF InvoicesInv, InvoiceOK, StoredUnits
  <2>2. UnitsIn(events, i.customer, i.period) <= UnitsIn(events', i.customer, i.period)
        /\ UnitsIn(events', i.customer, i.period) \in Nat
    BY <2>1, MonthUnitsGrow
  <2>3. UnitsIn(events, i.customer, i.period) \in Nat
    BY <2>1, MonthUnits DEF StoredUnits
  <2>4. QED
    BY <2>1, <2>2, <2>3
<1>2. QED
  BY <1>1 DEF InvoicesInv, InvoiceOK, StoredUnits, OneInvoicePerMonth
-----------------------------------------------------------------------------
(* Steps *)

\* A step of the world: no run and no invoice is touched.
LEMMA WorldStep ==
  ASSUME Inv, UsageInv', UsageGrows, GrantsInv', GrantsGrow,
         UNCHANGED <<invoices, runVars>>, month' \in month .. LastMonth
  PROVE  Inv'
<1>1. UNCHANGED <<wpc, period, queue, customer, units, read, seen>>
  BY DEF runVars
<1>2. RunsTyped' /\ month <= month' /\ month' \in Int
  BY <1>1, LastMonthAssumption DEF Inv, RunsTyped
<1>3. ASSUME NEW v \in Worker
      PROVE  Run(v)'
  <2>1. UNCHANGED <<period[v], wpc[v], queue[v], seen[v], customer[v], units[v], read[v]>>
    BY <1>1
  <2>2. QED
    BY <1>2, <2>1, RunKept DEF Inv
<1>4. InvoicesInv'
  BY InvoicesKept DEF Inv
<1>5. QED
  BY <1>2, <1>3, <1>4 DEF Inv

\* The runs of the other workers are where they were.
OthersWait(w) ==
    \A v \in Worker \ {w} :
        UNCHANGED <<period[v], wpc[v], queue[v], seen[v], customer[v], units[v], read[v]>>

\* A step of worker w.
LEMMA WorkerStep ==
  ASSUME Inv, NEW w \in Worker, UsageInv', UsageGrows, GrantsInv', GrantsGrow,
         UNCHANGED month, OthersWait(w), RunsTyped', Run(w)', InvoicesInv'
  PROVE  Inv'
<1>1. ASSUME NEW v \in Worker
      PROVE  Run(v)'
  <2>1. CASE v = w
    BY <2>1
  <2>2. CASE v # w
    <3>1. UNCHANGED <<period[v], wpc[v], queue[v], seen[v], customer[v], units[v], read[v]>>
      BY <2>2 DEF OthersWait
    <3>2. month <= month' /\ month' \in Int
      BY DEF Inv, RunsTyped
    <3>3. QED
      BY <3>1, <3>2, RunKept DEF Inv
  <2>3. QED
    BY <2>1, <2>2
<1>2. QED
  BY <1>1 DEF Inv

\* A step in which worker w only reads: nothing outside its run changes.
LEMMA ReaderStep ==
  ASSUME Inv, NEW w \in Worker, UNCHANGED <<meter, month, grants, invoices>>,
         OthersWait(w), RunsTyped', Run(w)'
  PROVE  Inv'
<1>1. UsageInv' /\ UsageGrows
  BY UsageSame DEF Inv
<1>2. GrantsInv' /\ GrantsGrow
  BY DEF Inv, GrantsInv, GrantsGrow
<1>3. InvoicesInv'
  BY <1>1, InvoicesKept DEF Inv
<1>4. QED
  BY <1>1, <1>2, <1>3, WorkerStep

(* An ingested event adds units to an hour already under way and disturbs no run. *)
LEMMA StoreEventInv == Inv /\ StoreEvent => Inv'
<1> SUFFICES ASSUME Inv, StoreEvent PROVE Inv'
  OBVIOUS
<1>1. PICK e \in Event : Meter!Record({e})
  BY DEF StoreEvent
<1>2. UsageInv' /\ UsageGrows
  <2> DEFINE E == {e}
  <2>1. E \in SUBSET Event /\ IsFiniteSet(E) /\ Meter!Record(E)
    BY <1>1, FS_Singleton
  <2> HIDE DEF E
  <2>2. QED
    BY <2>1, UsageRecord DEF Inv
<1>3. UNCHANGED <<month, grants, invoices, runVars>>
  BY DEF StoreEvent
<1>4. GrantsInv' /\ GrantsGrow
  BY <1>3 DEF Inv, GrantsInv, GrantsGrow
<1>5. month' \in month .. LastMonth
  BY <1>3, LastMonthAssumption DEF Inv, RunsTyped
<1>6. QED
  BY <1>2, <1>3, <1>4, <1>5, WorldStep

(* The clock passes an hour: months only close, so what a run took as closed stays so. *)
LEMMA TickInv == Inv /\ Tick => Inv'
<1> SUFFICES ASSUME Inv, Tick PROVE Inv'
  OBVIOUS
<1>1. UsageInv' /\ UsageGrows
  BY UsageSame DEF Inv, Tick
<1>2. GrantsInv' /\ GrantsGrow
  BY DEF Inv, Tick, GrantsInv, GrantsGrow
<1>3. month' \in month .. LastMonth
  BY LastMonthAssumption DEF Inv, RunsTyped, Tick
<1>4. QED
  BY <1>1, <1>2, <1>3, WorldStep DEF Tick

\* A grant more.
LEMMA IssueCreditGrants ==
  ASSUME GrantsInv, NEW c \in Customer, NEW a \in GrantAmounts, IssueCredit(c, a)
  PROVE  /\ GrantsInv' /\ GrantsGrow
         /\ DOMAIN grants' = DOMAIN grants \cup {Len(grants) + 1}
         /\ \A i \in DOMAIN grants : grants'[i] = grants[i] /\ i < Len(grants) + 1
         /\ Len(grants) + 1 \notin DOMAIN grants
         /\ grants'[Len(grants) + 1] = [customer |-> c, amount |-> a, remaining |-> a]
<1> DEFINE row == [customer |-> c, amount |-> a, remaining |-> a]
           new == Len(grants) + 1
<1>1. a \in Nat
  BY GrantAssumption
<1>2. row \in GrantRow /\ row.amount = a /\ row.remaining = a
  BY <1>1 DEF GrantRow
<1>3. grants' = Append(grants, row) /\ grants \in Seq(GrantRow)
  BY DEF IssueCredit, GrantsInv
<1> HIDE DEF row
<1>4. /\ grants' \in Seq(GrantRow)
      /\ DOMAIN grants' = DOMAIN grants \cup {new}
      /\ \A i \in DOMAIN grants : grants'[i] = grants[i] /\ i < new
      /\ new \notin DOMAIN grants
      /\ grants'[new] = row
  <2> HIDE DEF GrantRow
  <2>1. QED
    BY <1>2, <1>3
<1>5. \A i \in DOMAIN grants' : grants'[i].remaining <= grants'[i].amount
  <2> HIDE DEF new
  <2>1. a <= a
    BY <1>1
  <2>2. QED
    BY <1>2, <1>4, <2>1 DEF GrantsInv
<1>6. QED
  BY <1>4, <1>5 DEF GrantsInv, GrantsGrow, row

(* An operator's credit adds a grant with its whole amount left. *)
LEMMA IssueCreditInv ==
  ASSUME Inv, NEW c \in Customer, NEW a \in GrantAmounts, IssueCredit(c, a)
  PROVE  Inv'
<1>1. UsageInv' /\ UsageGrows
  BY UsageSame DEF Inv, IssueCredit
<1>2. GrantsInv' /\ GrantsGrow
  BY IssueCreditGrants DEF Inv
<1>3. UNCHANGED <<month, invoices, runVars>>
  BY DEF IssueCredit
<1>4. month' \in month .. LastMonth
  BY <1>3, LastMonthAssumption DEF Inv, RunsTyped
<1>5. QED
  BY <1>1, <1>2, <1>3, <1>4, WorldStep

\* A run that is over knows nothing.
LEMMA ResetRun ==
  ASSUME RunsTyped, NEW w \in Worker, Reset(w), UNCHANGED month
  PROVE  RunsTyped' /\ Run(w)' /\ OthersWait(w)
<1>1. /\ wpc'[w] = "idle" /\ period'[w] = 0 /\ queue'[w] = {} /\ read'[w] = <<>>
      /\ 0 \in 0 .. LastMonth - 1
  BY LastMonthAssumption DEF Reset, RunsTyped
<1>2. /\ wpc' \in [Worker -> {"idle", "clock", "list", "sum", "credits", "save"}]
      /\ queue' \in [Worker -> SUBSET Customer]
      /\ customer' \in [Worker -> Customer \cup {NoCustomer}]
      /\ units' \in [Worker -> Nat]
      /\ DOMAIN read' = Worker
  BY DEF Reset, RunsTyped
<1>3. period' \in [Worker -> 0 .. LastMonth - 1]
  BY <1>1 DEF Reset, RunsTyped
<1>4. seen' \in [Worker -> [Customer -> Nat]]
  <2>1. [c \in Customer |-> 0] \in [Customer -> Nat]
    OBVIOUS
  <2>2. QED
    BY <2>1 DEF Reset, RunsTyped
<1>5. RunsTyped'
  BY <1>2, <1>3, <1>4 DEF RunsTyped
<1>6. DOMAIN <<>> = {}
  OBVIOUS
<1>7. Run(w)'
  BY <1>1, <1>5, <1>6, LastMonthAssumption DEF Run, RunsTyped
<1>8. OthersWait(w)
  BY DEF Reset, RunsTyped, OthersWait
<1>9. QED
  BY <1>5, <1>7, <1>8

\* All the ways a run ends.
LEMMA ResetInv ==
  ASSUME Inv, NEW w \in Worker, Reset(w), UNCHANGED <<meter, month, grants, invoices>>
  PROVE  Inv'
<1>1. RunsTyped' /\ Run(w)' /\ OthersWait(w)
  BY ResetRun DEF Inv
<1>2. QED
  BY <1>1, ReaderStep
(* The hour job recomputes dirty windows; invoices already saved do not move. *)
LEMMA HourJobInv ==
  ASSUME Inv, NEW w \in Worker, NEW S \in SUBSET stale, HourJob(w, S)
  PROVE  Inv'
<1>1. UsageInv' /\ UsageGrows
  <2>1. CASE S = {}
    BY <2>1, UsageSame DEF HourJob, Inv
  <2>2. CASE S # {}
    <3>1. Meter!Refresh(S)
      BY <2>2 DEF HourJob
    <3>2. QED
      BY <3>1, UsageRefresh DEF Inv
  <2>3. QED
    BY <2>1, <2>2
<1>2. /\ wpc[w] = "idle" /\ wpc' = [wpc EXCEPT ![w] = "clock"]
      /\ UNCHANGED <<month, grants, invoices, period, queue, customer, units, read, seen>>
  BY DEF HourJob
<1>3. GrantsInv' /\ GrantsGrow
  BY <1>2 DEF Inv, GrantsInv, GrantsGrow
<1>4. RunsTyped' /\ OthersWait(w)
  BY <1>2 DEF Inv, RunsTyped, OthersWait
<1>5. InvoicesInv'
  BY <1>1, <1>2, InvoicesKept DEF Inv
<1>6. Run(w)'
  <2>1. wpc'[w] = "clock" /\ queue[w] = {}
    BY <1>2 DEF Inv, RunsTyped, Run
  <2>2. QED
    BY <1>2, <2>1 DEF Inv, Run
<1>7. QED
  BY <1>1, <1>2, <1>3, <1>4, <1>5, <1>6, WorkerStep

(* The invoice job fixes the month it is to bill from the clock it reads. *)
LEMMA ReadClockInv ==
  ASSUME Inv, NEW w \in Worker, ReadClock(w)
  PROVE  Inv'
<1>1. /\ wpc[w] = "clock" /\ wpc' = [wpc EXCEPT ![w] = "list"]
      /\ period' = [period EXCEPT ![w] = month - 1]
      /\ UNCHANGED <<meter, month, grants, invoices, queue, customer, units, read, seen>>
  BY DEF ReadClock, PreviousMonth
<1>2. month - 1 \in 0 .. LastMonth - 1 /\ month - 1 < month
  BY LastMonthAssumption DEF Inv, RunsTyped
<1>3. RunsTyped' /\ OthersWait(w)
  BY <1>1, <1>2 DEF Inv, RunsTyped, OthersWait
<1>4. Run(w)'
  <2>1. wpc'[w] = "list" /\ period'[w] = month - 1 /\ queue[w] = {}
    BY <1>1 DEF Inv, RunsTyped, Run
  <2>2. QED
    BY <1>1, <1>2, <2>1 DEF Inv, Run
<1>5. QED
  BY <1>1, <1>3, <1>4, ReaderStep

\* A customer that can be billed has no stale hour in the month, so the windows
\* show all that is stored for it.
LEMMA ListCustomersInv ==
  ASSUME Inv, NEW w \in Worker, ListCustomers(w)
  PROVE  Inv'
<1>1. PICK p : p = period[w]
  OBVIOUS
<1> DEFINE billable == {c \in Customer : Billable(c, p)}
           stored == [c \in Customer |-> StoredUnits(c, p)]
<1>2. /\ wpc[w] = "list" /\ wpc' = [wpc EXCEPT ![w] = "sum"]
      /\ queue' = [queue EXCEPT ![w] = billable]
      /\ seen' = [seen EXCEPT ![w] = stored]
      /\ UNCHANGED <<meter, month, grants, invoices, period, customer, units, read>>
  BY <1>1 DEF ListCustomers
<1>3. p \in Int /\ p < month
  BY <1>1 DEF Inv, RunsTyped, Run
<1>4. stored \in [Customer -> Nat] /\ billable \in SUBSET Customer
  BY <1>3, MonthUnits DEF Inv
<1>5. ASSUME NEW c \in billable
      PROVE  stored[c] <= SumOver(windows, SlotsOf(c, p))
  <2>1. SlotsOf(c, p) \cap stale = {}
    BY DEF Billable
  <2>2. SumUnits(c, p) = StoredUnits(c, p) /\ StoredUnits(c, p) \in Nat
    BY <1>3, <2>1, MonthUnits DEF Inv
  <2>3. stored[c] = StoredUnits(c, p)
    OBVIOUS
  <2> HIDE DEF stored, billable
  <2>4. QED
    BY <2>2, <2>3 DEF SumUnits
<1> HIDE DEF billable, stored
<1>6. RunsTyped' /\ OthersWait(w)
  BY <1>2, <1>4 DEF Inv, RunsTyped, OthersWait
<1>7. /\ wpc'[w] = "sum" /\ queue'[w] = billable /\ seen'[w] = stored
      /\ windows' = windows /\ period'[w] = p
  BY <1>1, <1>2 DEF Inv, RunsTyped, meter
<1>8. \A c \in queue'[w] : seen'[w][c] <= SumOver(windows', SlotsOf(c, period'[w]))
  BY <1>5, <1>7
<1>9. Run(w)'
  BY <1>2, <1>7, <1>8 DEF Inv, Run, SumUnits
<1>10. QED
  BY <1>2, <1>6, <1>9, ReaderStep

\* The units of the customer the run turns to are what it had been seen to have,
\* or more, and no more than it has.
LEMMA SumMonthInv ==
  ASSUME Inv, NEW w \in Worker, SumMonth(w)
  PROVE  Inv'
<1>1. PICK p : p = period[w]
  OBVIOUS
<1>2. PICK c, n :
         /\ c \in queue[w] /\ n = SumUnits(c, p)
         /\ queue' = [queue EXCEPT ![w] = @ \ {c}]
         /\ IF n <= 0
            THEN UNCHANGED <<wpc, customer, units>>
            ELSE /\ customer' = [customer EXCEPT ![w] = c]
                 /\ units' = [units EXCEPT ![w] = n]
                 /\ wpc' = [wpc EXCEPT ![w] = "credits"]
  BY <1>1 DEF SumMonth
<1>3. wpc[w] = "sum" /\ UNCHANGED <<meter, month, grants, invoices, period, read, seen>>
  BY DEF SumMonth
<1>4. p \in Int /\ c \in Customer
  BY <1>1, <1>2 DEF Inv, RunsTyped
<1>5. n \in Nat /\ n <= StoredUnits(c, p)
  BY <1>2, <1>4, MonthUnits DEF Inv
<1>6. seen[w][c] <= n
  BY <1>1, <1>2 DEF Inv, Run
<1>7. RunsTyped' /\ OthersWait(w)
  <2>1. CASE n <= 0
    BY <1>2, <1>3, <1>4, <2>1 DEF Inv, RunsTyped, OthersWait
  <2>2. CASE ~ (n <= 0)
    <3>1. /\ queue' = [queue EXCEPT ![w] = @ \ {c}]
          /\ customer' = [customer EXCEPT ![w] = c]
          /\ units' = [units EXCEPT ![w] = n]
          /\ wpc' = [wpc EXCEPT ![w] = "credits"]
      BY <1>2, <2>2
    <3>2. RunsTyped'
      BY <1>3, <1>4, <1>5, <3>1 DEF Inv, RunsTyped
    <3>3. OthersWait(w)
      BY <1>3, <3>1 DEF Inv, RunsTyped, OthersWait
    <3>4. QED
      BY <3>2, <3>3
  <2>3. QED
    BY <2>1, <2>2
<1>8. queue'[w] = queue[w] \ {c} /\ windows' = windows /\ events' = events
  BY <1>2, <1>3 DEF Inv, RunsTyped, meter
<1>9. \A d \in queue'[w] : seen'[w][d] <= SumOver(windows', SlotsOf(d, period'[w]))
  BY <1>3, <1>8 DEF Inv, Run, SumUnits
<1>10. /\ wpc'[w] \notin {"idle", "clock", "list"}
       /\ wpc'[w] \in {"credits", "save"} =>
             /\ customer'[w] = c /\ units'[w] = n /\ 0 < n
  <2>1. CASE n <= 0
    BY <1>2, <1>3, <2>1
  <2>2. CASE ~ (n <= 0)
    BY <1>2, <1>3, <1>5, <2>2 DEF Inv, RunsTyped
  <2>3. QED
    BY <2>1, <2>2
<1>11. Run(w)'
  BY <1>1, <1>3, <1>4, <1>5, <1>6, <1>8, <1>9, <1>10 DEF Inv, Run, SumUnits, StoredUnits
<1>12. QED
  BY <1>3, <1>7, <1>11, ReaderStep

\* What was read is what is there.
LEMMA ReadCreditsInv ==
  ASSUME Inv, NEW w \in Worker, ReadCredits(w)
  PROVE  Inv'
<1>1. PICK c : c = customer[w]
  OBVIOUS
<1> DEFINE open == OpenGrants(c)
<1>2. /\ wpc[w] = "credits" /\ wpc' = [wpc EXCEPT ![w] = "save"]
      /\ read' = [read EXCEPT ![w] = open]
      /\ UNCHANGED <<meter, month, grants, invoices, period, queue, customer, units, seen>>
  BY <1>1 DEF ReadCredits
<1>3. /\ DOMAIN open \subseteq DOMAIN grants
      /\ \A i \in DOMAIN open : open[i] \in 0 .. grants[i].amount
  <2>1. /\ DOMAIN open \subseteq DOMAIN grants
        /\ \A i \in DOMAIN open : open[i] = grants[i].remaining
    BY DEF OpenGrants, RemainingOf
  <2> HIDE DEF open
  <2>2. QED
    BY <2>1, GrantTypes DEF Inv
<1> HIDE DEF open
<1>4. RunsTyped' /\ OthersWait(w)
  BY <1>2 DEF Inv, RunsTyped, OthersWait
<1>5. wpc'[w] = "save" /\ read'[w] = open /\ windows' = windows /\ events' = events
  BY <1>2 DEF Inv, RunsTyped, meter
<1>6. Run(w)'
  BY <1>2, <1>3, <1>5 DEF Inv, Run, SumUnits, StoredUnits
<1>7. QED
  BY <1>2, <1>4, <1>6, ReaderStep
\* Writing the credits back changes what remains of the grants that were read,
\* and nothing else.
LEMMA WrittenBack ==
  ASSUME GrantsInv, NEW rest, DOMAIN rest \subseteq DOMAIN grants,
         \A i \in DOMAIN rest : rest[i] \in 0 .. grants[i].amount,
         grants' = WriteBack(rest)
  PROVE  /\ GrantsInv' /\ GrantsGrow
         /\ DOMAIN grants' = DOMAIN grants
         /\ \A i \in DOMAIN rest : grants'[i] = [grants[i] EXCEPT !.remaining = rest[i]]
         /\ \A i \in DOMAIN rest : grants'[i].remaining = rest[i]
         /\ \A i \in DOMAIN grants \ DOMAIN rest : grants'[i] = grants[i]
<1>1. /\ DOMAIN grants' = DOMAIN grants
      /\ \A i \in DOMAIN rest : grants'[i] = [grants[i] EXCEPT !.remaining = rest[i]]
      /\ \A i \in DOMAIN grants \ DOMAIN rest : grants'[i] = grants[i]
  BY DEF WriteBack
<1>2. ASSUME NEW i \in DOMAIN grants
      PROVE  /\ grants[i] \in GrantRow
             /\ grants[i].amount \in Nat
             /\ grants[i].remaining \in 0 .. grants[i].amount
  BY GrantTypes
<1>3. ASSUME NEW i \in DOMAIN rest
      PROVE  /\ grants'[i] \in GrantRow
             /\ grants'[i].remaining = rest[i]
             /\ grants'[i].customer = grants[i].customer
             /\ grants'[i].amount = grants[i].amount
             /\ rest[i] \in 0 .. grants[i].amount
  <2>1. rest[i] \in Nat /\ grants[i] \in GrantRow /\ rest[i] \in 0 .. grants[i].amount
    BY <1>2
  <2>2. grants'[i] = [grants[i] EXCEPT !.remaining = rest[i]]
    BY <1>1
  <2>3. QED
    BY <2>1, <2>2 DEF GrantRow
<1>4. \A i \in DOMAIN grants : /\ grants'[i] \in GrantRow
                               /\ grants'[i].remaining <= grants'[i].amount
                               /\ grants'[i].customer = grants[i].customer
                               /\ grants'[i].amount = grants[i].amount
  <2> SUFFICES ASSUME NEW i \in DOMAIN grants
               PROVE  /\ grants'[i] \in GrantRow
                      /\ grants'[i].remaining <= grants'[i].amount
                      /\ grants'[i].customer = grants[i].customer
                      /\ grants'[i].amount = grants[i].amount
    OBVIOUS
  <2>1. CASE i \in DOMAIN rest
    BY <1>2, <1>3, <2>1
  <2>2. CASE i \notin DOMAIN rest
    BY <1>1, <1>2, <2>2
  <2>3. QED
    BY <2>1, <2>2
<1>5. grants' \in Seq(GrantRow)
  <2>1. PICK n \in Nat : DOMAIN grants = 1 .. n
    BY DEF GrantsInv
  <2>2. grants' = [i \in 1 .. n |-> grants'[i]]
    BY <2>1 DEF WriteBack
  <2> DEFINE R == GrantRow
  <2>3. grants' \in [1 .. n -> R]
    BY <1>4, <2>1, <2>2
  <2> HIDE DEF R
  <2>4. grants' \in Seq(R)
    BY <2>1, <2>3
  <2>5. QED
    BY <2>4 DEF R
<1>6. QED
  BY <1>1, <1>3, <1>4, <1>5 DEF GrantsInv, GrantsGrow

\* What a worker has read are open grants.
LEMMA ReadIsOpen ==
  ASSUME GrantsInv, NEW w, Run(w)
  PROVE  Open(read[w]) /\ Fitting(read[w])
<1>1. ASSUME NEW i \in DOMAIN read[w]
      PROVE  /\ i \in Nat \ {0} /\ grants[i].amount \in Nat /\ grants[i].amount <= MaxInt
             /\ read[w][i] \in 0 .. grants[i].amount
  BY GrantTypes DEF Run
<1>2. IsFiniteSet(DOMAIN read[w])
  <2>1. IsFiniteSet(DOMAIN grants)
    <3>1. PICK n \in Nat : DOMAIN grants = 1 .. n
      BY DEF GrantsInv
    <3>2. QED
      BY <3>1, FS_Interval
  <2>2. QED
    BY <2>1, FS_Subset DEF Run
<1>3. \A i \in DOMAIN read[w] : read[w][i] \in Nat /\ read[w][i] <= MaxInt
  BY <1>1, HalfAssumption DEF MaxInt
<1>4. QED
  BY <1>1, <1>2, <1>3 DEF Open, Fitting

\* The bill a worker is about to save.
LEMMA BillOfRun ==
  ASSUME Inv, NEW w \in Worker, wpc[w] = "save", Storable(BillOf(w))
  PROVE  LET bill == BillOf(w)
         IN  /\ bill.subtotal = SumAmounts(PriceUnits(units[w], Plan[customer[w]]))
             /\ bill.subtotal \in 0 .. MaxInt
             /\ bill.credit = SumOver(Takes(bill.subtotal, read[w]), DOMAIN read[w])
             /\ bill.credit \in 0 .. bill.subtotal
             /\ bill.total = bill.subtotal - bill.credit
             /\ DOMAIN bill.left = DOMAIN read[w]
             /\ \A i \in DOMAIN read[w] :
                   /\ bill.left[i] = read[w][i] - Take(bill.subtotal, read[w], i)
                   /\ bill.left[i] \in 0 .. read[w][i]
             /\ bill.lines \subseteq Line
<1> DEFINE n == units[w]
           tiers == Plan[customer[w]]
           g == read[w]
<1>1. Run(w)
  BY DEF Inv
<1>2. Open(g) /\ Fitting(g)
  BY <1>1, ReadIsOpen DEF Inv
<1>3. n \in Nat
  BY DEF Inv, RunsTyped
<1>4. tiers \in Tiers
  <2>1. customer[w] \in Customer
    BY <1>1 DEF Run
  <2>2. QED
    BY <2>1, PlanAssumption DEF Tiers
<1>5. BillOf(w) = Bill(n, tiers, g)
  BY DEF BillOf
<1>6. Bill(n, tiers, g).subtotal >= 0
  BY <1>5 DEF Storable
<1> HIDE DEF n, tiers, g
<1>7. LET bill == Bill(n, tiers, g)
      IN  /\ bill.subtotal = SumAmounts(PriceUnits(n, tiers))
          /\ bill.subtotal \in 0 .. MaxInt
          /\ bill.credit = SumOver(Takes(bill.subtotal, g), DOMAIN g)
          /\ bill.credit \in 0 .. bill.subtotal
          /\ bill.total = bill.subtotal - bill.credit
          /\ DOMAIN bill.left = DOMAIN g
          /\ \A i \in DOMAIN g : /\ bill.left[i] = g[i] - Take(bill.subtotal, g, i)
                                 /\ bill.left[i] \in 0 .. g[i]
          /\ bill.lines \subseteq LineRow
  BY <1>2, <1>3, <1>4, <1>6, BillFits
<1>8. LineRow = Line
  BY DEF LineRow, Line
<1>9. QED
  BY <1>5, <1>7, <1>8 DEF n, tiers, g
\* The worker goes on with the rest of its queue.
LEMMA EndOneRun ==
  ASSUME Inv, NEW w \in Worker, EndOne(w), UNCHANGED <<meter, month, period, queue, seen>>,
         wpc[w] = "save"
  PROVE  RunsTyped' /\ Run(w)' /\ OthersWait(w)
<1>1. RunsTyped' /\ OthersWait(w)
  BY DEF EndOne, Inv, RunsTyped, OthersWait
<1>2. wpc'[w] = "sum" /\ read'[w] = <<>> /\ DOMAIN <<>> = {}
  BY DEF EndOne, Inv, RunsTyped
<1>3. /\ period'[w] < month'
      /\ \A c \in queue'[w] : seen'[w][c] <= SumOver(windows', SlotsOf(c, period'[w]))
  BY DEF Inv, Run, SumUnits, meter
<1>4. Run(w)'
  BY <1>2, <1>3 DEF Run, SumUnits
<1>5. QED
  BY <1>1, <1>4

\* What saving an invoice does, if it does anything: the invoice is there, and
\* the credits that were read are written back.
Issues(w, bill) ==
    /\ Storable(bill)
    /\ ~HasInvoice(customer[w], period[w])
    /\ invoices' = invoices \cup {NewInvoice(w, bill)}
    /\ grants' = WriteBack(bill.left)

(* What the transaction of one invoice leaves: the invoice, its draws, the credits left. *)
LEMMA SaveInvoiceEffect ==
  ASSUME NEW w \in Worker, SaveInvoice(w)
  PROVE  /\ wpc[w] = "save" /\ EndOne(w)
         /\ UNCHANGED <<meter, month, period, queue, seen>>
         /\ Storable(BillOf(w))
         /\ \/ HasInvoice(customer[w], period[w]) /\ UNCHANGED <<invoices, grants>>
            \/ Issues(w, BillOf(w))
<1>1. PICK bill \in {BillOf(w)} :
         /\ Storable(bill)
         /\ IF HasInvoice(customer[w], period[w])
            THEN UNCHANGED <<invoices, grants>>
            ELSE /\ invoices' = invoices \cup {NewInvoice(w, bill)}
                 /\ grants' = WriteBack(bill.left)
  BY DEF SaveInvoice
<1>2. bill = BillOf(w)
  OBVIOUS
<1>3. \/ HasInvoice(customer[w], period[w]) /\ UNCHANGED <<invoices, grants>>
      \/ Issues(w, bill)
  BY <1>1 DEF Issues
<1>4. Storable(BillOf(w))
  BY <1>1, <1>2
<1>5. QED
  BY <1>2, <1>3, <1>4 DEF SaveInvoice

\* The grants after that.
LEMMA IssuesGrants ==
  ASSUME Inv, NEW w \in Worker, wpc[w] = "save", Issues(w, BillOf(w))
  PROVE  LET rest == BillOf(w).left
         IN  /\ GrantsInv' /\ GrantsGrow
             /\ DOMAIN rest = DOMAIN read[w]
             /\ DOMAIN rest \subseteq DOMAIN grants
             /\ DOMAIN grants' = DOMAIN grants
             /\ \A i \in DOMAIN rest : grants'[i] = [grants[i] EXCEPT !.remaining = rest[i]]
             /\ \A i \in DOMAIN rest : grants'[i].remaining = rest[i]
             /\ \A i \in DOMAIN grants \ DOMAIN rest : grants'[i] = grants[i]
<1> DEFINE rest == BillOf(w).left
<1>1. /\ DOMAIN rest = DOMAIN read[w]
      /\ \A i \in DOMAIN read[w] : rest[i] \in 0 .. read[w][i]
  BY BillOfRun DEF Issues
<1>2. grants' = WriteBack(rest)
  BY DEF Issues
<1>3. DOMAIN read[w] \subseteq DOMAIN grants
      /\ \A i \in DOMAIN read[w] : read[w][i] \in 0 .. grants[i].amount
  BY DEF Inv, Run
<1>4. DOMAIN rest \subseteq DOMAIN grants
  BY <1>1, <1>3
<1> HIDE DEF rest
<1>5. \A i \in DOMAIN rest : rest[i] \in 0 .. grants[i].amount
  <2> SUFFICES ASSUME NEW i \in DOMAIN rest
               PROVE  rest[i] \in 0 .. grants[i].amount
    OBVIOUS
  <2>1. rest[i] \in 0 .. read[w][i] /\ read[w][i] \in 0 .. grants[i].amount
    BY <1>1, <1>3
  <2>2. grants[i].amount \in Nat
    BY <1>4, GrantTypes DEF Inv
  <2>3. QED
    BY <2>1, <2>2
<1>6. GrantsInv
  BY DEF Inv
<1>7. QED
  BY <1>1, <1>2, <1>4, <1>5, <1>6, WrittenBack DEF rest

\* The new invoice.
LEMMA IssuesInvoice ==
  ASSUME Inv, NEW w \in Worker, wpc[w] = "save", Issues(w, BillOf(w)),
         UNCHANGED meter
  PROVE  InvoicesInv'
<1> DEFINE bill == BillOf(w)
           new == NewInvoice(w, bill)
<1>1. /\ invoices' = invoices \cup {new}
      /\ ~ \E i \in invoices : i.customer = customer[w] /\ i.period = period[w]
  BY DEF Issues, HasInvoice
<1>2. /\ bill.subtotal \in 0 .. MaxInt
      /\ bill.credit \in 0 .. bill.subtotal
      /\ bill.total = bill.subtotal - bill.credit
      /\ bill.lines \subseteq Line
  BY BillOfRun DEF Issues
<1> HIDE DEF bill
<1>3. /\ new.customer = customer[w] /\ new.period = period[w] /\ new.units = units[w]
      /\ new.subtotal = bill.subtotal /\ new.credit = bill.credit
      /\ new.total = bill.total /\ new.lines = bill.lines
      /\ new.seen = seen[w][customer[w]]
  BY DEF NewInvoice
<1>4. /\ customer[w] \in Customer
      /\ units[w] \in Nat /\ 0 < units[w]
      /\ units[w] <= UnitsIn(events, customer[w], period[w])
      /\ seen[w][customer[w]] <= units[w]
      /\ period[w] \in 0 .. LastMonth - 1
      /\ seen[w][customer[w]] \in Nat
  BY DEF Inv, RunsTyped, Run, StoredUnits
<1>5. bill.subtotal \in Nat
  BY <1>2
<1> HIDE DEF new
<1>6. /\ new.customer \in Customer /\ new.period \in 0 .. LastMonth - 1
      /\ new.units \in Nat \ {0} /\ new.seen \in Nat
      /\ new.subtotal \in Nat /\ new.credit \in 0 .. new.subtotal
      /\ new.total = new.subtotal - new.credit
      /\ new.lines \subseteq Line
      /\ new.units <= UnitsIn(events, new.customer, new.period)
      /\ new.seen <= new.units
  BY <1>2, <1>3, <1>4, <1>5
<1>7. ASSUME NEW i \in invoices
      PROVE  /\ i.customer \in Customer /\ i.period \in 0 .. LastMonth - 1
             /\ i.units \in Nat \ {0} /\ i.seen \in Nat
             /\ i.subtotal \in Nat /\ i.credit \in 0 .. i.subtotal
             /\ i.total = i.subtotal - i.credit
             /\ i.lines \subseteq Line
             /\ i.units <= UnitsIn(events, i.customer, i.period)
             /\ i.seen <= i.units
  BY DEF Inv, InvoicesInv, InvoiceOK, StoredUnits
<1>8. events' = events
  BY DEF meter
<1>9. \A i \in invoices' : InvoiceOK(i)'
  BY <1>1, <1>6, <1>7, <1>8 DEF InvoiceOK, StoredUnits
<1>10. IsFiniteSet(invoices')
  BY <1>1, FS_AddElement DEF Inv, InvoicesInv
<1>11. OneInvoicePerMonth'
  BY <1>1, <1>3 DEF Inv, InvoicesInv, OneInvoicePerMonth
<1>12. QED
  BY <1>9, <1>10, <1>11 DEF InvoicesInv

(* Saving an invoice preserves every layer of the invariant. *)
LEMMA SaveInvoiceInv ==
  ASSUME Inv, NEW w \in Worker, SaveInvoice(w)
  PROVE  Inv'
<1>1. /\ wpc[w] = "save" /\ EndOne(w)
      /\ UNCHANGED <<meter, month, period, queue, seen>>
      /\ \/ HasInvoice(customer[w], period[w]) /\ UNCHANGED <<invoices, grants>>
         \/ Issues(w, BillOf(w))
  BY SaveInvoiceEffect
<1>2. RunsTyped' /\ Run(w)' /\ OthersWait(w)
  BY <1>1, EndOneRun
<1>3. CASE UNCHANGED <<invoices, grants>>
  BY <1>1, <1>2, <1>3, ReaderStep
<1>4. CASE Issues(w, BillOf(w))
  <2>1. GrantsInv' /\ GrantsGrow
    BY <1>1, <1>4, IssuesGrants
  <2>2. InvoicesInv'
    BY <1>1, <1>4, IssuesInvoice
  <2>3. UsageInv' /\ UsageGrows
    BY <1>1, UsageSame DEF Inv
  <2>4. QED
    BY <1>1, <1>2, <2>1, <2>2, <2>3, WorkerStep
<1>5. QED
  BY <1>1, <1>3, <1>4

-----------------------------------------------------------------------------
(* The invariant *)

\* A step of worker w in its run.
LEMMA RunStepInv ==
  ASSUME Inv, NEW w \in Worker, RunStep(w) \/ AbortRun(w)
  PROVE  Inv'
<1>1. CASE ReadClock(w) \/ ListCustomers(w) \/ SumMonth(w) \/ ReadCredits(w)
           \/ SaveInvoice(w)
  BY <1>1, ReadClockInv, ListCustomersInv, SumMonthInv, ReadCreditsInv, SaveInvoiceInv
<1>2. CASE FinishRun(w) \/ FailRun(w) \/ AbortRun(w)
  <2>1. Reset(w) /\ UNCHANGED <<meter, month, grants, invoices>>
    BY <1>2 DEF FinishRun, FailRun, AbortRun
  <2>2. QED
    BY <2>1, ResetInv
<1>3. QED
  BY <1>1, <1>2 DEF RunStep

(* One case per action of Next. *)
LEMMA InvStep == Inv /\ [Next]_vars => Inv'
<1> SUFFICES ASSUME Inv, [Next]_vars PROVE Inv'
  OBVIOUS
<1>1. CASE UNCHANGED vars
  <2>1. UNCHANGED <<meter, month, grants, invoices, runVars>>
    BY <1>1 DEF vars
  <2>2. UsageInv' /\ UsageGrows
    BY <2>1, UsageSame DEF Inv
  <2>3. GrantsInv' /\ GrantsGrow
    BY <2>1 DEF Inv, GrantsInv, GrantsGrow
  <2>4. month' \in month .. LastMonth
    BY <2>1, LastMonthAssumption DEF Inv, RunsTyped
  <2>5. QED
    BY <2>1, <2>2, <2>3, <2>4, WorldStep
<1>2. CASE Tick
  BY <1>2, TickInv
<1>3. CASE StoreEvent
  BY <1>3, StoreEventInv
<1>4. ASSUME NEW c \in Customer, NEW a \in GrantAmounts, IssueCredit(c, a)
      PROVE  Inv'
  BY <1>4, IssueCreditInv
<1>5. ASSUME NEW w \in Worker, NEW S \in SUBSET stale, HourJob(w, S)
      PROVE  Inv'
  BY <1>5, HourJobInv
<1>6. ASSUME NEW w \in Worker, RunStep(w) \/ AbortRun(w)
      PROVE  Inv'
  BY <1>6, RunStepInv
<1>7. QED
  BY <1>1, <1>2, <1>3, <1>4, <1>5, <1>6 DEF Next, WithinMonth

\* Usage, runs, credits and invoices fit together in every state.
THEOREM Invariant == Spec => []Inv
<1>1. QED
  BY InvInit, InvStep, PTL DEF Spec

\* No invoice charges a unit that was not reported for its month.
THEOREM RealUsageBilled == Spec => []OnlyRealUsageIsBilled
<1>1. Inv => OnlyRealUsageIsBilled
  BY DEF Inv, InvoicesInv, InvoiceOK, OnlyRealUsageIsBilled
<1>2. QED
  BY <1>1, Invariant, PTL

\* An invoice charges all the usage there was when its customer was listed.
THEOREM ListedUsageBilled == Spec => []ListedUsageIsBilled
<1>1. Inv => ListedUsageIsBilled
  BY DEF Inv, InvoicesInv, InvoiceOK, ListedUsageIsBilled
<1>2. QED
  BY <1>1, Invariant, PTL

\* However many workers issue a month, a customer has one invoice for it.
THEOREM OneInvoice == Spec => []OneInvoicePerMonth
<1>1. Inv => OneInvoicePerMonth
  BY DEF Inv, InvoicesInv
<1>2. QED
  BY <1>1, Invariant, PTL

\* Grants are never overdrawn, invoices never show more credit than they charge,
\* and every field has its type.
THEOREM TypeCorrect == Spec => []TypeOK
<1>1. Inv => TypeOK
  <2> SUFFICES ASSUME Inv PROVE TypeOK
    OBVIOUS
  <2>1. events \subseteq Event /\ stale \subseteq Slot /\ windows \in [Slot -> Nat]
    BY DEF Inv, UsageInv
  <2>2. \A i \in DOMAIN grants : /\ grants[i].customer \in Customer
                                 /\ grants[i].amount \in GrantAmounts
                                 /\ grants[i].remaining \in 0 .. grants[i].amount
    BY GrantTypes DEF Inv
  <2>3. \A i \in invoices :
          /\ i.customer \in Customer /\ i.period \in 0 .. LastMonth - 1
          /\ i.units \in Nat \ {0} /\ i.seen \in Nat
          /\ i.subtotal \in Nat /\ i.credit \in 0 .. i.subtotal
          /\ i.total = i.subtotal - i.credit
          /\ i.lines \subseteq Line
    BY DEF Inv, InvoicesInv, InvoiceOK
  <2>4. \A w \in Worker : DOMAIN read[w] \subseteq DOMAIN grants
    BY DEF Inv, Run
  <2>5. QED
    BY <2>1, <2>2, <2>3, <2>4 DEF Inv, RunsTyped, TypeOK
<1>2. QED
  BY <1>1, Invariant, PTL
-----------------------------------------------------------------------------
(* Credits *)

\* No customer is being invoiced for two months at the same time.  Without this
\* two workers can spend the same credit twice.
OneMonthAtATime ==
    \A v, w \in Worker :
        wpc[v] = "save" /\ wpc[w] = "save" /\ customer[v] = customer[w]
            => period[v] = period[w]

\* What a worker read of the credits is what they are, unless its invoice will
\* be refused as the second of the month.
Fresh(w) ==
    wpc[w] = "save" /\ ~HasInvoice(customer[w], period[w]) =>
        /\ \A i \in DOMAIN read[w] : /\ grants[i].customer = customer[w]
                                     /\ grants[i].remaining = read[w][i]
        /\ \A i \in DOMAIN grants, j \in DOMAIN read[w] :
              i < j /\ grants[i].customer = customer[w] /\ grants[i].remaining > 0
                  => i \in DOMAIN read[w]

\* Nothing that matters to the worker has changed.
LEMMA FreshKept ==
  ASSUME NEW v, Fresh(v), UNCHANGED <<grants, wpc[v], customer[v], period[v], read[v]>>,
         invoices \subseteq invoices'
  PROVE  Fresh(v)'
<1> SUFFICES ASSUME wpc[v] = "save", ~HasInvoice(customer[v], period[v])'
             PROVE  /\ \A i \in DOMAIN read[v] : /\ grants[i].customer = customer[v]
                                                 /\ grants[i].remaining = read[v][i]
                    /\ \A i \in DOMAIN grants, j \in DOMAIN read[v] :
                          i < j /\ grants[i].customer = customer[v] /\ grants[i].remaining > 0
                              => i \in DOMAIN read[v]
  BY DEF Fresh
<1>1. ~HasInvoice(customer[v], period[v])
  BY DEF HasInvoice
<1>2. QED
  BY <1>1 DEF Fresh

\* What an invoice takes from each grant, when the credits are as they were read.
LEMMA IssuesTakes ==
  ASSUME Inv, NEW w \in Worker, wpc[w] = "save", Fresh(w), Issues(w, BillOf(w))
  PROVE  LET bill == BillOf(w)
             taken == Takes(bill.subtotal, read[w])
         IN  /\ DOMAIN read[w] \subseteq DOMAIN grants
             /\ DOMAIN grants' = DOMAIN grants
             /\ bill.credit = SumOver(taken, DOMAIN read[w])
             /\ \A i \in DOMAIN read[w] :
                   /\ grants[i].customer = customer[w]
                   /\ taken[i] \in 0 .. grants[i].remaining
                   /\ grants'[i] = [grants[i] EXCEPT !.remaining = @ - taken[i]]
                   /\ grants'[i].remaining = grants[i].remaining - taken[i]
                   /\ grants'[i].customer = grants[i].customer
                   /\ grants'[i].amount = grants[i].amount
             /\ \A i \in DOMAIN grants \ DOMAIN read[w] : grants'[i] = grants[i]
<1> DEFINE bill == BillOf(w)
           rest == bill.left
           subtotal == bill.subtotal
           taken == Takes(subtotal, read[w])
<1>1. /\ bill.credit = SumOver(taken, DOMAIN read[w])
      /\ subtotal \in 0 .. MaxInt
      /\ \A i \in DOMAIN read[w] : rest[i] = read[w][i] - Take(subtotal, read[w], i)
  BY BillOfRun DEF Issues
<1>2. /\ GrantsGrow
      /\ DOMAIN rest = DOMAIN read[w]
      /\ DOMAIN rest \subseteq DOMAIN grants
      /\ DOMAIN grants' = DOMAIN grants
      /\ \A i \in DOMAIN rest : grants'[i] = [grants[i] EXCEPT !.remaining = rest[i]]
      /\ \A i \in DOMAIN rest : grants'[i].remaining = rest[i]
      /\ \A i \in DOMAIN grants \ DOMAIN rest : grants'[i] = grants[i]
  BY IssuesGrants
<1>3. \A i \in DOMAIN read[w] : /\ grants[i].customer = customer[w]
                                /\ grants[i].remaining = read[w][i]
  BY DEF Fresh, Issues
<1>4. subtotal \in Nat
  BY <1>1
<1>5. Open(read[w])
  BY ReadIsOpen DEF Inv
<1> HIDE DEF rest, subtotal, bill
<1>6. ASSUME NEW i \in DOMAIN read[w]
      PROVE  /\ grants[i].customer = customer[w]
             /\ taken[i] \in 0 .. grants[i].remaining
             /\ grants'[i] = [grants[i] EXCEPT !.remaining = @ - taken[i]]
             /\ grants'[i].remaining = grants[i].remaining - taken[i]
             /\ grants'[i].customer = grants[i].customer
             /\ grants'[i].amount = grants[i].amount
  <2>1. taken[i] = Take(subtotal, read[w], i)
    BY DEF Takes
  <2>2. Take(subtotal, read[w], i) \in 0 .. read[w][i]
    BY <1>4, <1>5, TakeNat
  <2>3. rest[i] = grants[i].remaining - taken[i]
    BY <1>1, <1>3, <2>1
  <2> HIDE DEF taken
  <2>4. grants'[i] = [grants[i] EXCEPT !.remaining = rest[i]]
    BY <1>2
  <2>5. grants'[i] = [grants[i] EXCEPT !.remaining = @ - taken[i]]
    BY <2>3, <2>4
  <2>6. /\ grants'[i].customer = grants[i].customer
        /\ grants'[i].amount = grants[i].amount
    BY <1>2 DEF GrantsGrow
  <2>7. QED
    BY <1>2, <1>3, <2>1, <2>2, <2>3, <2>5, <2>6
<1> HIDE DEF taken
<1>7. QED
  BY <1>1, <1>2, <1>6 DEF taken, subtotal, bill

\* When an invoice is issued, what the other workers read stays right: either
\* it was of another customer, or they are at the same invoice.
LEMMA FreshIssues ==
  ASSUME Inv, OneMonthAtATime, NEW w \in Worker, wpc[w] = "save", Fresh(w),
         Issues(w, BillOf(w)), NEW v \in Worker, Fresh(v),
         UNCHANGED <<wpc[v], customer[v], period[v], read[v]>>
  PROVE  Fresh(v)'
<1> SUFFICES ASSUME wpc[v] = "save", ~HasInvoice(customer[v], period[v])'
             PROVE  /\ \A i \in DOMAIN read[v] : /\ grants'[i].customer = customer[v]
                                                 /\ grants'[i].remaining = read[v][i]
                    /\ \A i \in DOMAIN grants', j \in DOMAIN read[v] :
                          i < j /\ grants'[i].customer = customer[v] /\ grants'[i].remaining > 0
                              => i \in DOMAIN read[v]
  BY DEF Fresh
<1> DEFINE new == NewInvoice(w, BillOf(w))
<1>1. /\ invoices' = invoices \cup {new}
      /\ new.customer = customer[w] /\ new.period = period[w]
  BY DEF Issues, NewInvoice
<1>2. ~HasInvoice(customer[v], period[v])
  BY <1>1 DEF HasInvoice
<1>3. /\ \A i \in DOMAIN read[v] : /\ grants[i].customer = customer[v]
                                   /\ grants[i].remaining = read[v][i]
      /\ \A i \in DOMAIN grants, j \in DOMAIN read[v] :
            i < j /\ grants[i].customer = customer[v] /\ grants[i].remaining > 0
                => i \in DOMAIN read[v]
  BY <1>2 DEF Fresh
<1>4. customer[v] # customer[w]
  <2>1. new \in invoices'
    BY <1>1
  <2> HIDE DEF new
  <2>2. ~ (customer[v] = customer[w] /\ period[v] = period[w])
    BY <1>1, <2>1 DEF HasInvoice
  <2>3. QED
    BY <2>2 DEF OneMonthAtATime
<1>5. /\ DOMAIN grants' = DOMAIN grants
      /\ \A i \in DOMAIN read[w] : /\ grants[i].customer = customer[w]
                                   /\ grants'[i].customer = grants[i].customer
      /\ \A i \in DOMAIN grants \ DOMAIN read[w] : grants'[i] = grants[i]
  BY IssuesTakes
<1>6. \A i \in DOMAIN grants : grants'[i].customer = customer[v] => grants'[i] = grants[i]
  BY <1>4, <1>5
<1>7. \A i \in DOMAIN read[v] : i \in DOMAIN grants /\ grants'[i] = grants[i]
  BY <1>3, <1>4, <1>5 DEF Inv, Run
<1>8. QED
  BY <1>3, <1>5, <1>6, <1>7
\* What each grant has lost, and what the invoices took.
Lost == [i \in DOMAIN grants |-> grants[i].amount - grants[i].remaining]
GrantsOf(c) == {i \in DOMAIN grants : grants[i].customer = c}
Credited == [i \in invoices |-> i.credit]
InvoicesOf(c) == {i \in invoices : i.customer = c}

(* The sums of the books move by what a step adds to one row of them. *)
LEMMA CreditSums ==
  ASSUME GrantsInv, InvoicesInv, NEW c
  PROVE  /\ CreditsSpent(c) = SumOver(Lost, GrantsOf(c))
         /\ CreditsApplied(c) = SumOver(Credited, InvoicesOf(c))
         /\ IsFiniteSet(GrantsOf(c)) /\ GrantsOf(c) \subseteq DOMAIN grants
         /\ \A i \in DOMAIN grants : Lost[i] \in Int
         /\ IsFiniteSet(InvoicesOf(c)) /\ InvoicesOf(c) \subseteq invoices
         /\ \A i \in invoices : Credited[i] \in Int
<1>1. IsFiniteSet(DOMAIN grants)
  <2>1. PICK n \in Nat : DOMAIN grants = 1 .. n
    BY DEF GrantsInv
  <2>2. QED
    BY <2>1, FS_Interval
<1>2. IsFiniteSet(GrantsOf(c)) /\ IsFiniteSet(InvoicesOf(c))
  BY <1>1, FS_Subset DEF GrantsOf, InvoicesOf, InvoicesInv
<1>3. ASSUME NEW i \in DOMAIN grants
      PROVE  Lost[i] \in Int
  BY GrantTypes DEF Lost
<1>4. \A i \in invoices : Credited[i] \in Int
  BY DEF Credited, InvoicesInv, InvoiceOK
<1>5. QED
  BY <1>2, <1>3, <1>4
  DEF CreditsSpent, CreditsApplied, Lost, GrantsOf, Credited, InvoicesOf

\* A new grant has lost nothing.
LEMMA GrantConserves ==
  ASSUME Inv, CreditsConserved, NEW d \in Customer, NEW a \in GrantAmounts,
         IssueCredit(d, a)
  PROVE  CreditsConserved'
<1> SUFFICES ASSUME NEW c \in Customer
             PROVE  CreditsSpent(c)' = CreditsApplied(c)'
  BY DEF CreditsConserved
<1> DEFINE f == Lost
           h == [i \in DOMAIN grants' |-> grants'[i].amount - grants'[i].remaining]
           S == GrantsOf(c)
           S2 == {i \in DOMAIN grants' : grants'[i].customer = c}
           new == Len(grants) + 1
<1>1. /\ CreditsSpent(c) = SumOver(f, S)
      /\ CreditsApplied(c) = SumOver(Credited, InvoicesOf(c))
      /\ IsFiniteSet(S) /\ S \subseteq DOMAIN grants
      /\ \A i \in DOMAIN grants : f[i] \in Int
  BY CreditSums DEF Inv
<1>2. /\ DOMAIN grants' = DOMAIN grants \cup {new}
      /\ \A i \in DOMAIN grants : grants'[i] = grants[i]
      /\ new \notin DOMAIN grants
      /\ grants'[new] = [customer |-> d, amount |-> a, remaining |-> a]
      /\ a \in Int
  <2>1. a \in Int
    BY GrantAssumption
  <2>2. GrantsInv
    BY DEF Inv
  <2>3. QED
    BY <2>1, <2>2, IssueCreditGrants
<1>3. CreditsApplied(c)' = CreditsApplied(c)
  BY DEF IssueCredit, CreditsApplied
<1>4. \A i \in S : h[i] = f[i]
  BY <1>1, <1>2 DEF Lost
<1>5. h[new] = 0
  BY <1>2
<1>6. CASE d = c
  <2>1. S2 = S \cup {new} /\ new \notin S
    BY <1>2, <1>6 DEF GrantsOf
  <2>2. IsFiniteSet(S2) /\ \A i \in S2 : h[i] \in Int
    <3>1. IsFiniteSet(S \cup {new})
      BY <1>1, FS_AddElement
    <3>2. \A i \in S : f[i] \in Int
      BY <1>1
    <3> HIDE DEF h, f, S, S2, new
    <3>3. QED
      BY <1>4, <1>5, <2>1, <3>1, <3>2
  <2>3. S2 \ {new} = S /\ new \in S2
    BY <2>1
  <2> HIDE DEF h, f, S, S2, new
  <2>4. SumOver(h, S2) = h[new] + SumOver(h, S2 \ {new})
    BY <2>2, <2>3, SumRemove
  <2>5. SumOver(h, S) = SumOver(f, S)
    BY <1>1, <1>4, SumSame
  <2>6. SumOver(f, S) \in Int
    BY <1>1, SumType
  <2>7. SumOver(h, S2) = SumOver(f, S)
    BY <1>5, <2>3, <2>4, <2>5, <2>6
  <2>8. CreditsSpent(c)' = SumOver(h, S2)
    BY DEF CreditsSpent, h, S2
  <2>9. QED
    BY <1>1, <1>3, <2>7, <2>8 DEF CreditsConserved
<1>7. CASE d # c
  <2>1. S2 = S
    BY <1>2, <1>7 DEF GrantsOf
  <2> HIDE DEF h, f, S, S2, new
  <2>2. SumOver(h, S2) = SumOver(f, S)
    BY <1>1, <1>4, <2>1, SumSame
  <2>3. CreditsSpent(c)' = SumOver(h, S2)
    BY DEF CreditsSpent, h, S2
  <2>4. QED
    BY <1>1, <1>3, <2>2, <2>3 DEF CreditsConserved
<1>8. QED
  BY <1>6, <1>7

\* What an invoice takes off is what the grants of its customer lose.
LEMMA IssuesConserves ==
  ASSUME Inv, CreditsConserved, NEW w \in Worker, wpc[w] = "save", Fresh(w),
         Issues(w, BillOf(w)), UNCHANGED meter
  PROVE  CreditsConserved'
<1> SUFFICES ASSUME NEW c \in Customer
             PROVE  CreditsSpent(c)' = CreditsApplied(c)'
  BY DEF CreditsConserved
<1> DEFINE f == Lost
           h == [i \in DOMAIN grants' |-> grants'[i].amount - grants'[i].remaining]
           S == GrantsOf(c)
           S2 == {i \in DOMAIN grants' : grants'[i].customer = c}
           R == DOMAIN read[w]
           bill == BillOf(w)
           taken == Takes(bill.subtotal, read[w])
           new == NewInvoice(w, bill)
           g == Credited
           k == [i \in invoices' |-> i.credit]
           T == InvoicesOf(c)
           T2 == {i \in invoices' : i.customer = c}
<1>1. /\ CreditsSpent(c) = SumOver(f, S)
      /\ CreditsApplied(c) = SumOver(g, T)
      /\ IsFiniteSet(S) /\ S \subseteq DOMAIN grants
      /\ \A i \in DOMAIN grants : f[i] \in Int
      /\ IsFiniteSet(T) /\ T \subseteq invoices
      /\ \A i \in invoices : g[i] \in Int
  BY CreditSums DEF Inv
<1>2. /\ R \subseteq DOMAIN grants
      /\ DOMAIN grants' = DOMAIN grants
      /\ bill.credit = SumOver(taken, R)
      /\ \A i \in R : /\ grants[i].customer = customer[w]
                      /\ taken[i] \in 0 .. grants[i].remaining
                      /\ grants'[i].remaining = grants[i].remaining - taken[i]
                      /\ grants'[i].customer = grants[i].customer
                      /\ grants'[i].amount = grants[i].amount
      /\ \A i \in DOMAIN grants \ R : grants'[i] = grants[i]
  BY IssuesTakes
<1>3. /\ invoices' = invoices \cup {new} /\ new \notin invoices
      /\ new.customer = customer[w] /\ new.credit = bill.credit
  BY DEF Issues, HasInvoice, NewInvoice
<1>4. CreditsSpent(c)' = SumOver(h, S2) /\ CreditsApplied(c)' = SumOver(k, T2)
  BY DEF CreditsSpent, CreditsApplied
<1>5. SumOver(f, S) = SumOver(g, T) /\ SumOver(f, S) \in Int
  <2>1. SumOver(f, S) = SumOver(g, T)
    <3> HIDE DEF f, g, S, T
    <3>1. QED
      BY <1>1 DEF CreditsConserved
  <2>2. \A i \in S : f[i] \in Int
    BY <1>1
  <2> HIDE DEF f, g, S, T
  <2>3. QED
    BY <1>1, <2>1, <2>2, SumType
<1>6. ASSUME NEW i \in R
      PROVE  taken[i] \in Int /\ f[i] \in Int /\ h[i] = f[i] + taken[i]
  <2>1. /\ grants[i].amount \in Int /\ grants[i].remaining \in Int
        /\ taken[i] \in 0 .. grants[i].remaining
        /\ grants'[i].remaining = grants[i].remaining - taken[i]
        /\ grants'[i].amount = grants[i].amount
        /\ i \in DOMAIN grants /\ i \in DOMAIN grants'
    BY <1>2, GrantTypes DEF Inv
  <2>2. /\ f[i] = grants[i].amount - grants[i].remaining
        /\ h[i] = grants'[i].amount - grants'[i].remaining
    BY <2>1 DEF Lost
  <2> HIDE DEF f, h, taken
  <2>3. QED
    BY <2>1, <2>2
<1>7. \A i \in DOMAIN grants \ R : h[i] = f[i]
  BY <1>2 DEF Lost
<1>8. S2 = S
  BY <1>2 DEF GrantsOf
<1>9. \A i \in T : k[i] = g[i]
  BY <1>3 DEF Credited, InvoicesOf
<1>10. CASE customer[w] = c
  <2>1. R \subseteq S
    BY <1>2, <1>10 DEF GrantsOf
  <2>2. T2 = T \cup {new} /\ new \notin T /\ k[new] = bill.credit
    BY <1>3, <1>10 DEF InvoicesOf
  <2>3. \A i \in T2 : k[i] \in Int
    <3>1. bill.credit \in Int
      BY BillOfRun DEF Issues
    <3> HIDE DEF k, g, T, T2, bill, new
    <3>2. QED
      BY <1>1, <1>9, <2>2, <3>1
  <2> HIDE DEF f, h, S, S2, R, taken, bill, new, g, k, T, T2
  <2>4. SumOver(h, S) = SumOver(f, S) + SumOver(taken, R)
    <3>1. /\ \A i \in S : f[i] \in Int
          /\ \A i \in R : taken[i] \in Int
          /\ \A i \in R : h[i] = f[i] + taken[i]
          /\ \A i \in S \ R : h[i] = f[i]
      BY <1>1, <1>6, <1>7
    <3>2. QED
      BY <1>1, <2>1, <3>1, SumShift
  <2>5. IsFiniteSet(T2) /\ T2 \ {new} = T /\ new \in T2
    BY <1>1, <2>2, FS_AddElement
  <2>6. SumOver(k, T2) = k[new] + SumOver(k, T)
    <3>1. SumOver(k, T2) = k[new] + SumOver(k, T2 \ {new})
      BY <2>3, <2>5, SumRemove
    <3>2. QED
      BY <2>5, <3>1
  <2>7. SumOver(k, T) = SumOver(g, T)
    BY <1>1, <1>9, SumSame
  <2>8. SumOver(taken, R) \in Int
    BY <2>2, <2>3, <1>2
  <2>9. SumOver(h, S2) = SumOver(k, T2)
    BY <1>2, <1>5, <1>8, <2>2, <2>4, <2>6, <2>7, <2>8
  <2>10. QED
    BY <1>4, <2>9
<1>11. CASE customer[w] # c
  <2>1. S \subseteq DOMAIN grants \ R
    BY <1>2, <1>11 DEF GrantsOf
  <2>2. T2 = T
    BY <1>3, <1>11 DEF InvoicesOf
  <2> HIDE DEF f, h, S, S2, R, taken, bill, new, g, k, T, T2
  <2>3. SumOver(h, S) = SumOver(f, S)
    BY <1>1, <1>7, <2>1, SumSame
  <2>4. SumOver(k, T) = SumOver(g, T)
    BY <1>1, <1>9, SumSame
  <2>5. QED
    BY <1>4, <1>5, <1>8, <2>2, <2>3, <2>4
<1>12. QED
  BY <1>10, <1>11
CreditInv == CreditsConserved /\ \A w \in Worker : Fresh(w)

(* No credit, nothing drawn: the books balance. *)
LEMMA CreditInit == Init => CreditInv
<1> SUFFICES ASSUME Init PROVE CreditInv
  OBVIOUS
<1>1. \A w \in Worker : Fresh(w)
  BY DEF Init, Fresh
<1>2. ASSUME NEW c \in Customer
      PROVE  CreditsSpent(c) = CreditsApplied(c)
  <2>1. GrantsInv /\ InvoicesInv
    BY InvInit DEF Inv
  <2>2. GrantsOf(c) = {} /\ InvoicesOf(c) = {}
    BY DEF Init, GrantsOf, InvoicesOf
  <2>3. SumOver(Lost, {}) = 0 /\ SumOver(Credited, {}) = 0
    BY SumEmpty
  <2>4. /\ CreditsSpent(c) = SumOver(Lost, GrantsOf(c))
        /\ CreditsApplied(c) = SumOver(Credited, InvoicesOf(c))
    BY <2>1, CreditSums
  <2>5. QED
    BY <2>2, <2>3, <2>4
<1>3. QED
  BY <1>1, <1>2 DEF CreditInv, CreditsConserved

\* A step of worker w that touches no credit and no invoice, and after which it
\* is not about to save one.
LEMMA CreditQuiet ==
  ASSUME CreditInv, NEW w \in Worker, OthersWait(w), wpc'[w] # "save",
         UNCHANGED <<grants, invoices>>
  PROVE  CreditInv'
<1>1. ASSUME NEW v \in Worker
      PROVE  Fresh(v)'
  <2>1. CASE v = w
    BY <2>1 DEF Fresh
  <2>2. CASE v # w
    <3>1. UNCHANGED <<wpc[v], customer[v], period[v], read[v]>>
      BY <2>2 DEF OthersWait
    <3>2. Fresh(v)
      BY DEF CreditInv
    <3>3. QED
      BY <3>1, <3>2, FreshKept
  <2>3. QED
    BY <2>1, <2>2
<1>2. CreditsConserved'
  BY DEF CreditInv, CreditsConserved, CreditsSpent, CreditsApplied
<1>3. QED
  BY <1>1, <1>2 DEF CreditInv

\* What was just read is fresh.
LEMMA CreditRead ==
  ASSUME Inv, CreditInv, NEW w \in Worker, ReadCredits(w)
  PROVE  CreditInv'
<1>1. PICK c : c = customer[w]
  OBVIOUS
<1>2. /\ read' = [read EXCEPT ![w] = OpenGrants(c)]
      /\ wpc' = [wpc EXCEPT ![w] = "save"]
      /\ UNCHANGED <<grants, invoices, period, queue, customer, units, seen>>
  BY <1>1 DEF ReadCredits
<1>3. DOMAIN read = Worker /\ DOMAIN wpc = Worker
  BY DEF Inv, RunsTyped
<1>4. Fresh(w)'
  <2>1. read'[w] = OpenGrants(c) /\ customer'[w] = c /\ grants' = grants
    BY <1>1, <1>2, <1>3
  <2>2. DOMAIN OpenGrants(c) = {i \in DOMAIN grants : /\ grants[i].customer = c
                                                      /\ grants[i].remaining > 0}
        /\ \A i \in DOMAIN OpenGrants(c) : OpenGrants(c)[i] = grants[i].remaining
    BY DEF OpenGrants, RemainingOf
  <2>3. QED
    BY <2>1, <2>2 DEF Fresh
<1>5. ASSUME NEW v \in Worker, v # w
      PROVE  Fresh(v)'
  <2>1. UNCHANGED <<wpc[v], customer[v], period[v], read[v]>>
    BY <1>2, <1>3, <1>5
  <2>2. Fresh(v)
    BY DEF CreditInv
  <2>3. QED
    BY <1>2, <2>1, <2>2, FreshKept
<1>6. CreditsConserved'
  BY <1>2 DEF CreditInv, CreditsConserved, CreditsSpent, CreditsApplied
<1>7. QED
  BY <1>4, <1>5, <1>6 DEF CreditInv

\* A new grant is newer than all that were read.
LEMMA CreditGrant ==
  ASSUME Inv, CreditInv, NEW c \in Customer, NEW a \in GrantAmounts, IssueCredit(c, a)
  PROVE  CreditInv'
<1>1. /\ DOMAIN grants' = DOMAIN grants \cup {Len(grants) + 1}
      /\ \A i \in DOMAIN grants : grants'[i] = grants[i] /\ i < Len(grants) + 1
      /\ Len(grants) + 1 \notin DOMAIN grants
  BY IssueCreditGrants DEF Inv
<1>2. UNCHANGED <<invoices, wpc, customer, period, read>>
  BY DEF IssueCredit, runVars
<1>3. ASSUME NEW v \in Worker
      PROVE  Fresh(v)'
  <2> SUFFICES ASSUME wpc[v] = "save", ~HasInvoice(customer[v], period[v])
               PROVE  /\ \A i \in DOMAIN read[v] : /\ grants'[i].customer = customer[v]
                                                   /\ grants'[i].remaining = read[v][i]
                      /\ \A i \in DOMAIN grants', j \in DOMAIN read[v] :
                            i < j /\ grants'[i].customer = customer[v] /\ grants'[i].remaining > 0
                                => i \in DOMAIN read[v]
    BY <1>2 DEF Fresh, HasInvoice
  <2>1. /\ \A i \in DOMAIN read[v] : /\ grants[i].customer = customer[v]
                                     /\ grants[i].remaining = read[v][i]
        /\ \A i \in DOMAIN grants, j \in DOMAIN read[v] :
              i < j /\ grants[i].customer = customer[v] /\ grants[i].remaining > 0
                  => i \in DOMAIN read[v]
    BY DEF CreditInv, Fresh
  <2>2. DOMAIN read[v] \subseteq DOMAIN grants
    BY DEF Inv, Run
  <2>3. \A i \in DOMAIN grants', j \in DOMAIN read[v] : i < j => i \in DOMAIN grants
    <3> SUFFICES ASSUME NEW j \in DOMAIN read[v], Len(grants) + 1 < j
                 PROVE  FALSE
      BY <1>1
    <3>1. j \in DOMAIN grants
      BY <2>2
    <3>2. j < Len(grants) + 1
      BY <1>1, <3>1
    <3>3. j \in Nat /\ Len(grants) \in Nat
      BY <3>1, GrantTypes DEF Inv, GrantsInv
    <3>4. QED
      BY <3>2, <3>3
  <2>4. QED
    BY <1>1, <2>1, <2>2, <2>3
<1>4. CreditsConserved'
  BY GrantConserves DEF CreditInv
<1>5. QED
  BY <1>3, <1>4 DEF CreditInv

(* An invoice takes from each credit what it records as drawn from it. *)
LEMMA CreditSave ==
  ASSUME Inv, CreditInv, OneMonthAtATime, NEW w \in Worker, SaveInvoice(w)
  PROVE  CreditInv'
<1>1. /\ wpc[w] = "save" /\ EndOne(w)
      /\ UNCHANGED <<meter, month, period, queue, seen>>
      /\ \/ HasInvoice(customer[w], period[w]) /\ UNCHANGED <<invoices, grants>>
         \/ Issues(w, BillOf(w))
  BY SaveInvoiceEffect
<1>2. OthersWait(w) /\ wpc'[w] = "sum"
  BY <1>1 DEF EndOne, Inv, RunsTyped, OthersWait
<1>3. CASE UNCHANGED <<invoices, grants>>
  BY <1>2, <1>3, CreditQuiet
<1>4. CASE Issues(w, BillOf(w))
  <2>1. ASSUME NEW v \in Worker
        PROVE  Fresh(v)'
    <3>1. CASE v = w
      BY <1>2, <3>1 DEF Fresh
    <3>2. CASE v # w
      <4>1. UNCHANGED <<wpc[v], customer[v], period[v], read[v]>>
        BY <1>2, <3>2 DEF OthersWait
      <4>2. Fresh(v) /\ Fresh(w)
        BY DEF CreditInv
      <4>3. QED
        BY <1>1, <1>4, <4>1, <4>2, FreshIssues
    <3>3. QED
      BY <3>1, <3>2
  <2>2. CreditsConserved'
    BY <1>1, <1>4, IssuesConserves DEF CreditInv
  <2>3. QED
    BY <2>1, <2>2 DEF CreditInv
<1>5. QED
  BY <1>1, <1>3, <1>4

\* The steps of a run that neither read nor save.
LEMMA RunQuiet ==
  ASSUME Inv, NEW w \in Worker,
         \/ ReadClock(w) \/ ListCustomers(w) \/ SumMonth(w)
         \/ FinishRun(w) \/ FailRun(w) \/ AbortRun(w)
         \/ \E S \in SUBSET stale : HourJob(w, S)
  PROVE  OthersWait(w) /\ wpc'[w] # "save" /\ UNCHANGED <<grants, invoices>>
<1>1. RunsTyped
  BY DEF Inv
<1>2. CASE ReadClock(w) \/ ListCustomers(w) \/ \E S \in SUBSET stale : HourJob(w, S)
  BY <1>1, <1>2 DEF ReadClock, ListCustomers, HourJob, RunsTyped, OthersWait
<1>3. CASE SumMonth(w)
  <2>1. PICK c, n :
           /\ c \in queue[w]
           /\ queue' = [queue EXCEPT ![w] = @ \ {c}]
           /\ IF n <= 0
              THEN UNCHANGED <<wpc, customer, units>>
              ELSE /\ customer' = [customer EXCEPT ![w] = c]
                   /\ units' = [units EXCEPT ![w] = n]
                   /\ wpc' = [wpc EXCEPT ![w] = "credits"]
    BY <1>3 DEF SumMonth
  <2>2. wpc[w] = "sum" /\ UNCHANGED <<grants, invoices, period, read, seen>>
    BY <1>3 DEF SumMonth
  <2>3. CASE n <= 0
    BY <1>1, <2>1, <2>2, <2>3 DEF RunsTyped, OthersWait
  <2>4. CASE ~ (n <= 0)
    <3>1. /\ customer' = [customer EXCEPT ![w] = c]
          /\ units' = [units EXCEPT ![w] = n]
          /\ wpc' = [wpc EXCEPT ![w] = "credits"]
      BY <2>1, <2>4
    <3>2. QED
      BY <1>1, <2>1, <2>2, <3>1 DEF RunsTyped, OthersWait
  <2>5. QED
    BY <2>3, <2>4
<1>4. CASE FinishRun(w) \/ FailRun(w) \/ AbortRun(w)
  <2>1. Reset(w) /\ UNCHANGED <<grants, invoices>>
    BY <1>4 DEF FinishRun, FailRun, AbortRun
  <2>2. QED
    BY <1>1, <2>1 DEF Reset, RunsTyped, OthersWait
<1>5. QED
  BY <1>2, <1>3, <1>4

(* Only IssueCredit and SaveInvoice move the books. *)
LEMMA CreditStep ==
  Inv /\ CreditInv /\ OneMonthAtATime /\ [Next]_vars => CreditInv'
<1> SUFFICES ASSUME Inv, CreditInv, OneMonthAtATime, [Next]_vars
             PROVE  CreditInv'
  OBVIOUS
<1>1. CASE UNCHANGED <<grants, invoices, runVars>>
  <2>1. UNCHANGED <<grants, invoices, wpc, customer, period, read>>
    BY <1>1 DEF runVars
  <2>2. \A v \in Worker : Fresh(v)'
    BY <2>1 DEF CreditInv, Fresh, HasInvoice
  <2>3. CreditsConserved'
    BY <2>1 DEF CreditInv, CreditsConserved, CreditsSpent, CreditsApplied
  <2>4. QED
    BY <2>2, <2>3 DEF CreditInv
<1>2. ASSUME NEW c \in Customer, NEW a \in GrantAmounts, IssueCredit(c, a)
      PROVE  CreditInv'
  BY <1>2, CreditGrant
<1>3. ASSUME NEW w \in Worker,
             \/ ReadClock(w) \/ ListCustomers(w) \/ SumMonth(w)
             \/ FinishRun(w) \/ FailRun(w) \/ AbortRun(w)
             \/ \E S \in SUBSET stale : HourJob(w, S)
      PROVE  CreditInv'
  BY <1>3, RunQuiet, CreditQuiet
<1>4. ASSUME NEW w \in Worker, ReadCredits(w)
      PROVE  CreditInv'
  BY <1>4, CreditRead
<1>5. ASSUME NEW w \in Worker, SaveInvoice(w)
      PROVE  CreditInv'
  BY <1>5, CreditSave
<1>6. StoreEvent \/ Tick \/ UNCHANGED vars => UNCHANGED <<grants, invoices, runVars>>
  BY DEF StoreEvent, Tick, vars
<1>7. QED
  BY <1>1, <1>2, <1>3, <1>4, <1>5, <1>6 DEF Next, WithinMonth, RunStep

\* As long as no customer is being invoiced for two months at once, by however
\* many workers, what the invoices of a customer took off is what its grants lost.
THEOREM CreditsAreConserved == Spec /\ []OneMonthAtATime => []CreditsConserved
<1>1. CreditInv => CreditsConserved
  BY DEF CreditInv
<1>2. QED
  BY <1>1, CreditInit, CreditStep, Invariant, PTL DEF Spec
\* With one worker that is always so.
THEOREM CreditsConservedAlone ==
  ASSUME \A v, w \in Worker : v = w
  PROVE  Spec => []CreditsConserved
<1>1. OneMonthAtATime
  BY DEF OneMonthAtATime
<1>2. QED
  BY <1>1, CreditsAreConserved, PTL

-----------------------------------------------------------------------------
(* Invoicing implements Billing *)

\* Billing has copies of the operators both are written with: they are the same.
LEMMA SameSums == \A f, S : Billing!SumOver(f, S) = SumOver(f, S)
BY DEF SumOver, MapThenSumSet, MapThenFoldSet, Billing!SumOver, Billing!MapThenSumSet,
       Billing!MapThenFoldSet

(* The abstract specification sums usage as the detailed one does. *)
LEMMA SameUnitsIn == \A rows, c, m : Billing!UnitsIn(rows, c, m) = UnitsIn(rows, c, m)
<1>1. \A e : Billing!SlotOf(e) = SlotOf(e)
  BY DEF SlotOf, Billing!SlotOf
<1>2. Billing!Slot = Slot
  BY <1>1 DEF Slot, Billing!Slot
<1>3. \A rows, s : Billing!RowsOf(rows, s) = RowsOf(rows, s)
  BY <1>1 DEF RowsOf, Billing!RowsOf
<1>4. \A rows, s : Billing!UnitTokens(rows, s) = UnitTokens(rows, s)
  BY <1>3 DEF UnitTokens, Billing!UnitTokens
<1>5. ASSUME NEW rows, NEW s
      PROVE  Billing!HourUnits(rows, s) = HourUnits(rows, s)
  <2>1. Billing!UnitTokens(rows, s) = UnitTokens(rows, s)
    BY <1>4
  <2>2. Billing!Cardinality(UnitTokens(rows, s)) = Cardinality(UnitTokens(rows, s))
    BY DEF Cardinality, Billing!Cardinality, IsFiniteSet, Billing!IsFiniteSet
  <2>3. QED
    BY <2>1, <2>2 DEF HourUnits, Billing!HourUnits
<1>6. \A c, m : Billing!SlotsOf(c, m) = SlotsOf(c, m)
  BY <1>2 DEF SlotsOf, Billing!SlotsOf, MonthOf, Billing!MonthOf
<1>7. ASSUME NEW rows, NEW c, NEW m
      PROVE  Billing!UnitsIn(rows, c, m) = UnitsIn(rows, c, m)
  <2> DEFINE f == [s \in Slot |-> HourUnits(rows, s)]
             g == [s \in Billing!Slot |-> Billing!HourUnits(rows, s)]
  <2>1. f = g
    BY <1>2, <1>5
  <2>2. Billing!UnitsIn(rows, c, m) = Billing!SumOver(g, Billing!SlotsOf(c, m))
    BY DEF Billing!UnitsIn
  <2>3. UnitsIn(rows, c, m) = SumOver(f, SlotsOf(c, m))
    BY DEF UnitsIn
  <2> HIDE DEF f, g
  <2>4. QED
    BY <1>6, <2>1, <2>2, <2>3, SameSums
<1>8. QED
  BY <1>7

(* The abstract specification prices a bill as the detailed one does. *)
LEMMA SamePrices ==
  \A u, t : Billing!SumAmounts(Billing!PriceUnits(u, t)) = SumAmounts(PriceUnits(u, t))
<1>1. \A n : Billing!Wrap(n) = Wrap(n)
  BY DEF Wrap, Billing!Wrap
<1>2. \A u, t : Billing!Quantity(u, t) = Quantity(u, t)
  BY DEF Quantity, Billing!Quantity, NoLimit, Billing!NoLimit
<1>3. \A u, t : Billing!BilledTiers(u, t) = BilledTiers(u, t)
  BY <1>2 DEF BilledTiers, Billing!BilledTiers, Reached, Billing!Reached
<1>4. ASSUME NEW K, NEW n
      PROVE  Billing!Rank(K, n) = Rank(K, n)
  <2> DEFINE J == {j \in K : j <= n}
  <2>1. Billing!Cardinality(J) = Cardinality(J)
    BY DEF Cardinality, Billing!Cardinality, IsFiniteSet, Billing!IsFiniteSet
  <2>2. QED
    BY <2>1 DEF Rank, Billing!Rank
<1>5. ASSUME NEW u, NEW t, NEW i
      PROVE  Billing!TierLine(u, t, i) = TierLine(u, t, i)
  <2>1. Billing!Rank(BilledTiers(u, t), i) = Rank(BilledTiers(u, t), i)
    BY <1>4
  <2>2. QED
    BY <1>1, <1>2, <1>3, <2>1 DEF TierLine, Billing!TierLine
<1>6. \A u, t : Billing!PriceUnits(u, t) = PriceUnits(u, t)
  BY <1>3, <1>5 DEF PriceUnits, Billing!PriceUnits
<1>7. \A lines : Billing!SumAmounts(lines) = SumAmounts(lines)
  BY <1>1, SameSums DEF SumAmounts, Billing!SumAmounts
<1>8. QED
  BY <1>6, <1>7
\* What Billing sees of an invoice.
Shown(i) == [customer |-> i.customer, period |-> i.period, units |-> i.units,
             subtotal |-> i.subtotal, credit |-> i.credit, total |-> i.total]

\* Issuing an invoice spends credit as Billing does: of the customer, oldest
\* grant first, and all of it before anything is left to pay.
LEMMA IssuesSpend ==
  ASSUME Inv, NEW w \in Worker, wpc[w] = "save", Fresh(w), Issues(w, BillOf(w))
  PROVE  Billing!Spend(customer[w], BillOf(w).credit, BillOf(w).subtotal)
<1> DEFINE bill == BillOf(w)
           subtotal == bill.subtotal
           R == DOMAIN read[w]
           taken == Takes(subtotal, read[w])
           c == customer[w]
<1>1. /\ R \subseteq DOMAIN grants
      /\ DOMAIN grants' = DOMAIN grants
      /\ bill.credit = SumOver(taken, R)
      /\ \A i \in R : /\ grants[i].customer = c
                      /\ taken[i] \in 0 .. grants[i].remaining
                      /\ grants'[i] = [grants[i] EXCEPT !.remaining = @ - taken[i]]
                      /\ grants'[i].remaining = grants[i].remaining - taken[i]
      /\ \A i \in DOMAIN grants \ R : grants'[i] = grants[i]
  BY IssuesTakes
<1>2. subtotal \in Nat
  BY BillOfRun DEF Issues
<1>3. Open(read[w])
  BY ReadIsOpen DEF Inv
<1>4. /\ \A i \in R : read[w][i] = grants[i].remaining
      /\ \A i \in DOMAIN grants, j \in R :
            i < j /\ grants[i].customer = c /\ grants[i].remaining > 0 => i \in R
  BY DEF Fresh, Issues
<1>5. \A i \in DOMAIN grants : grants[i] \in GrantRow /\ grants[i].remaining \in Nat
  BY GrantTypes DEF GrantRow, Inv
<1>6. \A i \in R : taken[i] = Take(subtotal, read[w], i)
  BY DEF Takes
<1>7. bill.credit < subtotal => \A i \in R : grants'[i].remaining = 0
  <2>1. SumOver(taken, R) < subtotal => \A i \in R : Take(subtotal, read[w], i) = read[w][i]
    BY <1>2, <1>3, TakenIsSmaller
  <2> HIDE DEF taken, subtotal, bill
  <2> SUFFICES ASSUME bill.credit < subtotal, NEW i \in R
               PROVE  grants'[i].remaining = 0
    OBVIOUS
  <2>2. taken[i] = grants[i].remaining
    BY <1>1, <1>4, <1>6, <2>1
  <2>3. /\ grants'[i].remaining = grants[i].remaining - taken[i]
        /\ grants[i].remaining \in Nat
    BY <1>1, <1>5
  <2>4. QED
    BY <2>2, <2>3
<1>8. ASSUME NEW i \in DOMAIN grants, NEW j \in R, i < j, taken[j] # 0,
             grants[i].customer = c
      PROVE  grants'[i].remaining = 0
  <2>1. CASE i \in R
    <3>1. Take(subtotal, read[w], j) # 0
      BY <1>6, <1>8
    <3>2. Take(subtotal, read[w], i) = read[w][i]
      BY <1>2, <1>3, <1>8, <2>1, <3>1, OldestFirst
    <3>3. taken[i] = grants[i].remaining
      BY <1>4, <1>6, <2>1, <3>2
    <3> HIDE DEF taken
    <3>4. /\ grants'[i].remaining = grants[i].remaining - taken[i]
          /\ grants[i].remaining \in Nat
      BY <1>1, <1>5, <2>1
    <3>5. QED
      BY <3>3, <3>4
  <2>2. CASE i \notin R
    <3>1. ~ (grants[i].remaining > 0)
      BY <1>4, <1>8, <2>2
    <3>2. QED
      BY <1>1, <1>5, <2>2, <3>1
  <2>3. QED
    BY <2>1, <2>2
<1> HIDE DEF taken, subtotal, bill, c, R
<1>9. ASSUME NEW i \in DOMAIN grants
      PROVE  /\ grants'[i] = [grants[i] EXCEPT !.remaining = grants'[i].remaining]
             /\ i \in R => Billing!Taken(i) = taken[i] /\ taken[i] \in Nat
             /\ i \notin R => Billing!Taken(i) = 0
             /\ grants'[i].remaining \in Nat
  <2>1. CASE i \in R
    <3>1. taken[i] \in 0 .. grants[i].remaining
          /\ grants'[i].remaining = grants[i].remaining - taken[i]
          /\ grants'[i] = [grants[i] EXCEPT !.remaining = @ - taken[i]]
          /\ grants[i].remaining \in Nat
      BY <1>1, <1>5, <2>1
    <3>2. QED
      BY <2>1, <3>1 DEF Billing!Taken
  <2>2. CASE i \notin R
    <3>1. grants'[i] = grants[i]
      BY <1>1, <2>2
    <3>2. QED
      BY <1>5, <2>2, <3>1 DEF Billing!Taken, GrantRow
  <2>3. QED
    BY <2>1, <2>2
<1>10. bill.credit = SumOver([i \in DOMAIN grants |-> Billing!Taken(i)], DOMAIN grants)
  <2> DEFINE f == [i \in DOMAIN grants |-> Billing!Taken(i)]
             Q == DOMAIN grants \ R
  <2>1. IsFiniteSet(DOMAIN grants)
    <3>1. PICK n \in Nat : DOMAIN grants = 1 .. n
      BY DEF Inv, GrantsInv
    <3>2. QED
      BY <3>1, FS_Interval
  <2>2. IsFiniteSet(R) /\ IsFiniteSet(Q) /\ R \cap Q = {} /\ DOMAIN grants = R \cup Q
    BY <1>1, <2>1, FS_Subset
  <2>3. \A i \in R : f[i] = taken[i] /\ f[i] \in Int
    BY <1>1, <1>9
  <2>4. \A i \in Q : f[i] = 0
    BY <1>9
  <2> HIDE DEF f, Q
  <2>5. SumOver(f, R) = SumOver(taken, R)
    BY <2>2, <2>3, SumSame
  <2>6. SumOver(f, Q) = 0
    BY <2>2, <2>4, SumZero
  <2>7. SumOver(f, R \cup Q) = SumOver(f, R) + SumOver(f, Q)
    <3>1. \A i \in R \cup Q : f[i] \in Int
      BY <2>3, <2>4
    <3>2. QED
      BY <2>2, <3>1, SumUnion
  <2>8. SumOver(f, R) \in Int
    BY <2>2, <2>3, SumType
  <2>9. QED
    BY <1>1, <2>2, <2>5, <2>6, <2>7, <2>8 DEF f
<1>11. /\ DOMAIN grants' = DOMAIN grants
       /\ \A i \in DOMAIN grants :
             /\ grants'[i] = [grants[i] EXCEPT !.remaining = grants'[i].remaining]
             /\ Billing!Taken(i) >= 0
             /\ Billing!Taken(i) > 0 =>
                   /\ grants[i].customer = c
                   /\ grants'[i].remaining >= 0
                   /\ bill.credit < subtotal => grants'[i].remaining = 0
  <2> SUFFICES ASSUME NEW i \in DOMAIN grants
               PROVE  /\ grants'[i] = [grants[i] EXCEPT !.remaining = grants'[i].remaining]
                      /\ Billing!Taken(i) >= 0
                      /\ Billing!Taken(i) > 0 =>
                            /\ grants[i].customer = c
                            /\ grants'[i].remaining >= 0
                            /\ bill.credit < subtotal => grants'[i].remaining = 0
    BY <1>1
  <2>1. /\ grants'[i] = [grants[i] EXCEPT !.remaining = grants'[i].remaining]
        /\ grants'[i].remaining >= 0
        /\ i \in R => Billing!Taken(i) \in Nat
        /\ i \notin R => Billing!Taken(i) = 0
    BY <1>9
  <2>2. CASE i \in R
    <3>1. grants[i].customer = c /\ (bill.credit < subtotal => grants'[i].remaining = 0)
      BY <1>1, <1>7, <2>2
    <3>2. Billing!Taken(i) >= 0
      BY <2>1, <2>2
    <3>3. QED
      BY <2>1, <3>1, <3>2
  <2>3. CASE i \notin R
    BY <2>1, <2>3
  <2>4. QED
    BY <2>2, <2>3
<1>12. \A i, j \in DOMAIN grants :
          i < j /\ Billing!Taken(j) > 0 /\ grants[i].customer = c => grants'[i].remaining = 0
  <2> SUFFICES ASSUME NEW i \in DOMAIN grants, NEW j \in DOMAIN grants,
                      i < j, Billing!Taken(j) > 0, grants[i].customer = c
               PROVE  grants'[i].remaining = 0
    OBVIOUS
  <2>1. j \in R /\ taken[j] # 0
    <3>1. /\ j \in R => Billing!Taken(j) = taken[j]
          /\ j \notin R => Billing!Taken(j) = 0
      BY <1>9
    <3>2. Billing!Taken(j) # 0
      OBVIOUS
    <3>3. QED
      BY <3>1, <3>2
  <2>2. QED
    BY <1>8, <2>1
<1>13. QED
  BY <1>10, <1>11, <1>12, SameSums DEF Billing!Spend, c, bill, subtotal
\* Saving an invoice issues it.
LEMMA SaveIssues ==
  ASSUME Inv, NEW w \in Worker, SaveInvoice(w), Fresh(w)
  PROVE  [Billing!Next]_(Billing!vars)
<1> DEFINE Seen == {Shown(i) : i \in invoices}
           bill == BillOf(w)
           new == NewInvoice(w, bill)
<1>1. /\ wpc[w] = "save"
      /\ UNCHANGED <<meter, month>>
      /\ \/ UNCHANGED <<invoices, grants>>
         \/ Issues(w, bill)
  BY SaveInvoiceEffect
<1>2. CASE UNCHANGED <<invoices, grants>>
  BY <1>1, <1>2 DEF meter, Billing!vars
<1>3. CASE Issues(w, bill)
  <2>1. /\ invoices' = invoices \cup {new}
        /\ ~ \E i \in invoices : i.customer = customer[w] /\ i.period = period[w]
        /\ new.customer = customer[w] /\ new.period = period[w] /\ new.units = units[w]
        /\ new.subtotal = bill.subtotal /\ new.credit = bill.credit /\ new.total = bill.total
    BY <1>3 DEF Issues, HasInvoice, NewInvoice
  <2>2. PICK inv : inv = Shown(new)
    OBVIOUS
  <2>3. /\ inv.customer = customer[w] /\ inv.period = period[w] /\ inv.units = units[w]
        /\ inv.subtotal = bill.subtotal /\ inv.credit = bill.credit /\ inv.total = bill.total
    BY <2>1, <2>2 DEF Shown
  <2>4. /\ Seen' = Seen \cup {inv}
        /\ ~ \E i \in Seen : i.customer = inv.customer /\ i.period = inv.period
    <3>1. \A i : Shown(i).customer = i.customer /\ Shown(i).period = i.period
      BY DEF Shown
    <3>2. Seen' = {Shown(i) : i \in invoices \cup {new}}
      BY <2>1 DEF Shown
    <3> HIDE DEF new
    <3>3. QED
      BY <2>1, <2>2, <2>3, <3>1, <3>2
  <2>5. inv \in Seen' \ Seen
    BY <2>4
  <2>6. Billing!Spend(inv.customer, inv.credit, inv.subtotal)
    BY <1>1, <1>3, <2>3, IssuesSpend
  <2>7. /\ inv.subtotal = SumAmounts(PriceUnits(inv.units, Plan[inv.customer]))
        /\ inv.credit \in 0 .. inv.subtotal
        /\ inv.total = inv.subtotal - inv.credit
    BY <1>1, <1>3, <2>3, BillOfRun DEF Issues
  <2>8. inv.period < month /\ inv.units \in 1 .. UnitsIn(events, inv.customer, inv.period)
    <3>1. /\ period[w] < month
          /\ period[w] \in Int
          /\ units[w] \in Nat /\ 0 < units[w]
          /\ units[w] <= StoredUnits(customer[w], period[w])
      BY <1>1, LastMonthAssumption DEF Inv, RunsTyped, Run
    <3>2. StoredUnits(customer[w], period[w]) \in Nat
      BY <3>1, MonthUnits DEF Inv
    <3>3. QED
      BY <2>3, <3>1, <3>2 DEF StoredUnits
  <2>9. UNCHANGED <<events, month>>
    BY <1>1 DEF meter
  <2> HIDE DEF Seen, bill, new
  <2>10. Seen = {[customer |-> i.customer, period |-> i.period, units |-> i.units,
                  subtotal |-> i.subtotal, credit |-> i.credit, total |-> i.total] :
                    i \in invoices}
    BY DEF Seen, Shown
  <2>11. Seen' = {[customer |-> i.customer, period |-> i.period, units |-> i.units,
                   subtotal |-> i.subtotal, credit |-> i.credit, total |-> i.total] :
                     i \in invoices}'
    BY DEF Seen, Shown
  <2>12. Billing!Issue(inv)
    BY <2>4, <2>6, <2>7, <2>8, <2>9, <2>10, <2>11, SameUnitsIn, SamePrices
    DEF Billing!Issue
  <2>13. QED
    BY <2>5, <2>10, <2>11, <2>12 DEF Billing!Next
<1>4. QED
  BY <1>1, <1>2, <1>3

\* Events are never lost.
LEMMA EventsGrow == [Next]_vars => events \subseteq events'
<1> SUFFICES ASSUME [Next]_vars PROVE events \subseteq events'
  OBVIOUS
<1>1. CASE StoreEvent
  BY <1>1, SameUsage DEF StoreEvent, Meter!Record
<1>2. ASSUME NEW w \in Worker, NEW S \in SUBSET stale, HourJob(w, S)
      PROVE  events \subseteq events'
  <2>1. UNCHANGED meter \/ Meter!Refresh(S)
    BY <1>2 DEF HourJob
  <2>2. QED
    BY <2>1 DEF meter, Meter!Refresh
<1>3. ASSUME UNCHANGED meter
      PROVE  events \subseteq events'
  BY <1>3 DEF meter
<1>4. ASSUME NEW c, NEW a, IssueCredit(c, a)
      PROVE  UNCHANGED meter
  BY <1>4 DEF IssueCredit
<1>5. ASSUME NEW w \in Worker, RunStep(w) \/ AbortRun(w)
      PROVE  UNCHANGED meter
  BY <1>5 DEF RunStep, AbortRun, ReadClock, ListCustomers, SumMonth, ReadCredits,
              SaveInvoice, FinishRun, FailRun
<1>6. Tick \/ UNCHANGED vars => UNCHANGED meter
  BY DEF Tick, vars
<1>7. QED
  BY <1>1, <1>2, <1>3, <1>4, <1>5, <1>6 DEF Next, WithinMonth

(* The initial states map to the initial states of Billing. *)
LEMMA BillingInit == Init => Billing!Init
<1> SUFFICES ASSUME Init PROVE Billing!Init
  OBVIOUS
<1>1. events = {}
  BY DEF Init, Meter!Init
<1>2. QED
  BY <1>1 DEF Init, Billing!Init

(* Every step is a step of Billing or a stutter. *)
LEMMA BillingStep ==
  Inv /\ Inv' /\ CreditInv /\ [Next]_vars => [Billing!Next]_(Billing!vars)
<1> SUFFICES ASSUME Inv, Inv', CreditInv, [Next]_vars
             PROVE  [Billing!Next]_(Billing!vars)
  OBVIOUS
<1>1. CASE UNCHANGED <<month, grants, invoices>>
  <2>1. events \subseteq events' /\ events' \subseteq Event
    BY EventsGrow DEF Inv, UsageInv
  <2>2. Billing!Store
    BY <1>1, <2>1 DEF Billing!Store
  <2>3. QED
    BY <2>2 DEF Billing!Next
<1>2. CASE Tick
  <2>1. Billing!Tick
    BY <1>2 DEF Tick, meter, Billing!Tick
  <2>2. QED
    BY <2>1 DEF Billing!Next
<1>3. ASSUME NEW c \in Customer, NEW a \in GrantAmounts, IssueCredit(c, a)
      PROVE  [Billing!Next]_(Billing!vars)
  <2>1. Billing!Grant
    BY <1>3 DEF IssueCredit, meter, Billing!Grant
  <2>2. QED
    BY <2>1 DEF Billing!Next
<1>4. ASSUME NEW w \in Worker, SaveInvoice(w)
      PROVE  [Billing!Next]_(Billing!vars)
  BY <1>4, SaveIssues DEF CreditInv
<1>5. ASSUME NEW w \in Worker, NEW S \in SUBSET stale, HourJob(w, S)
      PROVE  UNCHANGED <<month, grants, invoices>>
  BY <1>5 DEF HourJob
<1>6. ASSUME NEW w \in Worker,
             \/ ReadClock(w) \/ ListCustomers(w) \/ SumMonth(w) \/ ReadCredits(w)
             \/ FinishRun(w) \/ FailRun(w) \/ AbortRun(w)
      PROVE  UNCHANGED <<month, grants, invoices>>
  BY <1>6 DEF ReadClock, ListCustomers, SumMonth, ReadCredits, FinishRun, FailRun, AbortRun
<1>7. StoreEvent \/ UNCHANGED vars => UNCHANGED <<month, grants, invoices>>
  BY DEF StoreEvent, vars
<1>8. QED
  BY <1>1, <1>2, <1>3, <1>4, <1>5, <1>6, <1>7 DEF Next, WithinMonth, RunStep

\* With its transactions, stale reads, refused inserts and crashes the job does
\* what Billing says, as long as no customer is being invoiced for two months at
\* once: every invoice for a month that is over, for units that were reported,
\* at the price of the plan, with the customer's credit used oldest first.
THEOREM ImplementsBilling == Spec /\ []OneMonthAtATime => BillingSpec
<1>1. QED
  BY BillingInit, BillingStep, Invariant, CreditInit, CreditStep, PTL
  DEF Spec, BillingSpec, Billing!Spec

\* With one worker that is always so.
THEOREM ImplementsBillingAlone ==
  ASSUME \A v, w \in Worker : v = w
  PROVE  Spec => BillingSpec
<1>1. OneMonthAtATime
  BY DEF OneMonthAtATime
<1>2. QED
  BY <1>1, ImplementsBilling, PTL

-----------------------------------------------------------------------------
(* The seed *)

\* The shapes of the variables of the seed, and what it knows at each stage.
SeedTyped ==
    /\ spc \in {"new", "load", "hours", "issue", "done", "dead"}
    /\ prevStart \in 0 .. LastMonth - 1 /\ prevStart < month
    /\ at \in Nat
    /\ spc = "load" => at \in DOMAIN Script
    /\ created \in Seq(Customer)

\* Its run of the invoice job is open exactly while it issues, for its month.
SeedRun ==
    /\ spc # "issue" => wpc[Seed] = "idle"
    /\ spc = "issue" => /\ wpc[Seed] \in {"list", "sum", "credits", "save"}
                        /\ period[Seed] = prevStart
                        /\ stale \subseteq left

\* Every firm was created by a step of the script that is done.
Created == \A n \in DOMAIN created :
              \E m \in DOMAIN Script : /\ m < at
                                       /\ Script[m].op = "create"
                                       /\ Script[m].firm = created[n]

\* There is nothing left to invoice the firm for, but for hours it was told of.
Settled(c) == \/ HasInvoice(c, prevStart)
              \/ UnitsIn(events, c, prevStart) = 0
              \/ SlotsOf(c, prevStart) \cap left # {}

\* The seed is going to see to the firm, or is at it.
Due(c) == \/ c \in queue[Seed]
          \/ wpc[Seed] \in {"credits", "save"} /\ customer[Seed] = c

\* Once the customers are listed every firm is settled or due, and in the end
\* settled.
FirmsInv ==
    /\ spc = "issue" /\ wpc[Seed] # "list" =>
          \A c \in Range(created) : Settled(c) \/ Due(c)
    /\ spc = "done" => \A c \in Range(created) : Settled(c)

SeedInv == /\ Inv /\ SeedTyped /\ SeedRun
           /\ Created /\ FirmsAreSeededOnce
           /\ FirmsInv

-----------------------------------------------------------------------------
(* A seed's step is one of the system's, or it prepares *)

\* The seed loads, runs the hour job or dies: no invoice and no credit changes.
Prepares == /\ UNCHANGED <<month, grants, invoices>>
            /\ events \subseteq events'
            /\ OthersWait(Seed)
            /\ wpc'[Seed] # "save"

\* The step of the script that is next.
LEMMA ScriptStep ==
  ASSUME NEW n \in DOMAIN Script
  PROVE  /\ n \in 1 .. Len(Script) /\ Len(Script) \in Nat
         /\ Script[n].op \in {"create", "flush"}
         /\ Script[n].op = "create" => Script[n].firm \in Customer
         /\ Script[n].op # "create" => /\ Script[n].events \in SUBSET Event
                                       /\ IsFiniteSet(Script[n].events)
<1> DEFINE Steps == [op : {"create"}, firm : Customer] \cup
                    [op : {"flush"}, events : SUBSET Event]
<1>1. Script \in Seq(Steps)
  BY ScriptAssumption
<1>2. Script[n] \in Steps /\ n \in 1 .. Len(Script) /\ Len(Script) \in Nat
  <2> HIDE DEF Steps
  <2>1. QED
    BY <1>1
<1>3. QED
  BY <1>2, ScriptAssumption

\* Loading keeps what is known of the runs.
LEMMA LoadInv ==
  ASSUME Inv, SeedTyped, SeedRun, Load
  PROVE  Inv' /\ Prepares
<1> DEFINE step == Script[at]
<1>1. /\ spc = "load" /\ at \in DOMAIN Script
      /\ UNCHANGED <<month, grants, invoices, runVars>>
      /\ step.op = "create" => UNCHANGED meter
      /\ step.op # "create" => Meter!Record(step.events)
  BY DEF Load, SeedTyped
<1>2. step.op # "create" => step.events \in SUBSET Event /\ IsFiniteSet(step.events)
  BY <1>1, ScriptStep
<1>3. UsageInv' /\ UsageGrows /\ events \subseteq events'
  <2>1. CASE step.op = "create"
    <3>1. UNCHANGED meter
      BY <1>1, <2>1
    <3>2. QED
      BY <3>1, UsageSame DEF Inv, meter
  <2>2. CASE step.op # "create"
    <3>1. PICK E : E = step.events
      OBVIOUS
    <3>2. E \in SUBSET Event /\ IsFiniteSet(E) /\ Meter!Record(E)
      BY <1>1, <1>2, <2>2, <3>1
    <3> HIDE DEF step
    <3>3. UsageInv' /\ UsageGrows
      BY <3>2, UsageRecord DEF Inv
    <3>4. events \subseteq events'
      BY <3>2 DEF Meter!Record
    <3>5. QED
      BY <3>3, <3>4
  <2>3. QED
    BY <2>1, <2>2
<1> HIDE DEF step
<1>4. GrantsInv' /\ GrantsGrow
  BY <1>1 DEF Inv, GrantsInv, GrantsGrow
<1>5. month' \in month .. LastMonth
  BY <1>1, LastMonthAssumption DEF Inv, RunsTyped
<1>6. Inv'
  BY <1>1, <1>3, <1>4, <1>5, WorldStep
<1>7. wpc'[Seed] # "save" /\ OthersWait(Seed)
  BY <1>1 DEF SeedRun, runVars, OthersWait
<1>8. QED
  BY <1>1, <1>3, <1>6, <1>7 DEF Prepares

\* So does an hour job of the seed, and the start of its run.
LEMMA HourPassInv ==
  ASSUME Inv, SeedTyped, SeedRun, HourPass
  PROVE  Inv' /\ Prepares
<1>1. /\ spc = "hours" /\ wpc[Seed] = "idle"
      /\ UNCHANGED <<month, grants, invoices, queue, customer, units, read, seen>>
  BY DEF HourPass, SeedRun
<1>2. PICK S \in SUBSET stale :
         IF S = {} THEN BeginIssue /\ UNCHANGED meter
                   ELSE Meter!Refresh(S) /\ UNCHANGED <<wpc, period>>
  BY DEF HourPass
<1>3. Seed \in Worker
  BY SeedAssumption
<1>4. CASE S = {}
  <2>1. /\ UNCHANGED meter
        /\ wpc' = [wpc EXCEPT ![Seed] = "list"]
        /\ period' = [period EXCEPT ![Seed] = prevStart]
    BY <1>2, <1>4 DEF BeginIssue
  <2>2. RunsTyped' /\ OthersWait(Seed)
    BY <1>1, <2>1 DEF Inv, RunsTyped, OthersWait, SeedTyped
  <2>3. wpc'[Seed] = "list" /\ period'[Seed] = prevStart /\ queue'[Seed] = {}
    BY <1>1, <1>3, <2>1 DEF Inv, RunsTyped, Run
  <2>4. Run(Seed)'
    BY <1>1, <1>3, <2>3 DEF Inv, Run, SeedTyped
  <2>5. Inv'
    BY <1>1, <1>3, <2>1, <2>2, <2>4, ReaderStep
  <2>6. QED
    BY <1>1, <2>1, <2>2, <2>3, <2>5 DEF Prepares, meter
<1>5. CASE S # {}
  <2>1. Meter!Refresh(S) /\ UNCHANGED runVars
    BY <1>1, <1>2, <1>5 DEF runVars
  <2>2. UsageInv' /\ UsageGrows
    BY <2>1, UsageRefresh DEF Inv
  <2>3. GrantsInv' /\ GrantsGrow
    BY <1>1 DEF Inv, GrantsInv, GrantsGrow
  <2>4. month' \in month .. LastMonth
    BY <1>1, LastMonthAssumption DEF Inv, RunsTyped
  <2>5. Inv'
    BY <1>1, <2>1, <2>2, <2>3, <2>4, WorldStep
  <2>6. events' = events
    BY <2>1 DEF Meter!Refresh
  <2>7. wpc'[Seed] # "save" /\ OthersWait(Seed)
    BY <1>1, <2>1 DEF runVars, OthersWait
  <2>8. QED
    BY <1>1, <2>5, <2>6, <2>7 DEF Prepares
<1>6. QED
  BY <1>4, <1>5

\* Wherever it dies, its run is forgotten.
LEMMA DieInv ==
  ASSUME Inv, Die
  PROVE  Inv' /\ Prepares
<1>1. Reset(Seed) /\ UNCHANGED <<meter, month, grants, invoices>> /\ Seed \in Worker
  BY SeedAssumption DEF Die
<1>2. Inv'
  BY <1>1, ResetInv
<1>3. OthersWait(Seed) /\ wpc'[Seed] # "save"
  BY <1>1 DEF Reset, Inv, RunsTyped, OthersWait
<1>4. QED
  BY <1>1, <1>2, <1>3 DEF Prepares, meter

\* The steps of the invoice job among those of the seed.
LEMMA SeedIssueNext == SeedIssue => RunStep(Seed) /\ Seed \in Worker
BY SeedAssumption DEF SeedIssue, RunStep

\* And all the others.
LEMMA OthersNext ==
  ASSUME SeedTyped, Others
  PROVE  Next
<1>1. \A c \in Range(created) : c \in Customer
  BY DEF SeedTyped, Range
<1>2. OtherWorker \subseteq Worker
  BY DEF OtherWorker
<1>3. QED
  BY <1>1, <1>2 DEF Others, Next, WithinMonth

(* The steps of the seed, one by one. *)
LEMMA SeedSteps ==
  ASSUME Inv, SeedTyped, SeedRun, [SeedNext]_allVars
  PROVE  [Next]_vars \/ (Inv' /\ Prepares)
<1>1. CASE StartSeed \/ UNCHANGED allVars
  <2>1. UNCHANGED vars
    BY <1>1 DEF StartSeed, allVars
  <2>2. QED
    BY <2>1
<1>2. CASE Load \/ HourPass \/ Die
  BY <1>2, LoadInv, HourPassInv, DieInv
<1>3. CASE SeedIssue
  BY <1>3, SeedIssueNext DEF Next, WithinMonth
<1>4. CASE Others
  BY <1>4, OthersNext
<1>5. QED
  BY <1>1, <1>2, <1>3, <1>4 DEF SeedNext, SeedStep
-----------------------------------------------------------------------------
(* The seed and its firms *)

\* The work of the others leaves the run of the seed, and the usage, alone.
Aside == /\ UNCHANGED <<events, wpc[Seed], period[Seed], queue[Seed], customer[Seed]>>
         /\ stale' \subseteq stale
         /\ invoices \subseteq invoices'
         /\ month' \in {month, month + 1}

\* A worker's step is local to it.
LEMMA WorkerAside ==
  ASSUME Inv, NEW w \in OtherWorker,
         \/ \E S \in SUBSET stale : HourJob(w, S)
         \/ RunStep(w) \/ AbortRun(w)
  PROVE  Aside
<1>1. w \in Worker /\ Seed \in Worker \ {w}
  BY SeedAssumption DEF OtherWorker
<1>2. UNCHANGED month
  BY DEF HourJob, RunStep, ReadClock, ListCustomers, SumMonth, ReadCredits, SaveInvoice,
         FinishRun, FailRun, AbortRun
<1>3. events' = events /\ stale' \subseteq stale
  <2>1. CASE UNCHANGED meter
    BY <2>1 DEF meter
  <2>2. CASE \E S \in SUBSET stale : HourJob(w, S) /\ Meter!Refresh(S)
    BY <2>2 DEF Meter!Refresh
  <2>3. QED
    BY <2>1, <2>2 DEF HourJob, RunStep, ReadClock, ListCustomers, SumMonth, ReadCredits,
                      SaveInvoice, FinishRun, FailRun, AbortRun
<1>4. OthersWait(w) /\ invoices \subseteq invoices'
  <2>1. CASE ReadCredits(w)
    BY <1>1, <2>1 DEF ReadCredits, Inv, RunsTyped, OthersWait
  <2>2. CASE SaveInvoice(w)
    <3>1. /\ EndOne(w) /\ UNCHANGED <<period, queue, seen>>
          /\ UNCHANGED <<invoices, grants>> \/ Issues(w, BillOf(w))
      BY <1>1, <2>2, SaveInvoiceEffect
    <3>2. invoices \subseteq invoices'
      BY <3>1 DEF Issues
    <3>3. OthersWait(w)
      BY <1>1, <3>1 DEF EndOne, Inv, RunsTyped, OthersWait
    <3>4. QED
      BY <3>2, <3>3
  <2>3. CASE \/ ReadClock(w) \/ ListCustomers(w) \/ SumMonth(w)
             \/ FinishRun(w) \/ FailRun(w) \/ AbortRun(w)
             \/ \E S \in SUBSET stale : HourJob(w, S)
    BY <1>1, <2>3, RunQuiet
  <2>4. QED
    BY <2>1, <2>2, <2>3 DEF RunStep
<1>5. QED
  BY <1>1, <1>2, <1>3, <1>4 DEF Aside, OthersWait

(* A step that is not the seed's leaves what the seed knows alone. *)
LEMMA OthersAside ==
  ASSUME Inv, Others
  PROVE  Aside
<1>1. CASE Tick
  BY <1>1 DEF Tick, Aside, meter, runVars
<1>2. ASSUME NEW c, NEW amount, IssueCredit(c, amount)
      PROVE  Aside
  BY <1>2 DEF IssueCredit, Aside, meter, runVars
<1>3. QED
  BY <1>1, <1>2, WorkerAside DEF Others

\* A firm that is settled stays so, and one that is due stays so, unless the
\* seed itself does something about it.
LEMMA StaysSettled ==
  ASSUME NEW c, invoices \subseteq invoices', UNCHANGED <<events, prevStart, left>>,
         Settled(c)
  PROVE  Settled(c)'
BY DEF Settled, HasInvoice

(* What the seed knows survives the steps of the others. *)
LEMMA AsideInv ==
  ASSUME SeedInv, Aside, UNCHANGED <<seedVars, created>>
  PROVE  (SeedTyped /\ SeedRun /\ Created /\ FirmsAreSeededOnce /\ FirmsInv)'
<1>1. UNCHANGED <<spc, prevStart, at, passes, left, created>>
  BY DEF seedVars
<1>2. SeedTyped'
  <2>1. month' \in {month, month + 1} /\ month \in Int /\ prevStart \in Int
    BY LastMonthAssumption DEF Aside, SeedInv, SeedTyped, Inv, RunsTyped
  <2>2. QED
    BY <1>1, <2>1 DEF SeedInv, SeedTyped
<1>3. SeedRun'
  BY <1>1 DEF SeedInv, SeedRun, Aside
<1>4. Created' /\ FirmsAreSeededOnce'
  BY <1>1 DEF SeedInv, Created, FirmsAreSeededOnce
<1>5. \A c : Settled(c) => Settled(c)'
  BY <1>1, StaysSettled DEF Aside
<1>6. \A c : Due(c) => Due(c)'
  BY DEF Aside, Due
<1>7. FirmsInv'
  BY <1>1, <1>5, <1>6 DEF SeedInv, FirmsInv, Aside
<1>8. QED
  BY <1>2, <1>3, <1>4, <1>7

\* A firm with usage and no invoice in a month without a stale hour is listed.
LEMMA ListsFirm ==
  ASSUME UsageInv, NEW c, NEW m \in Int, ~HasInvoice(c, m),
         UnitsIn(events, c, m) # 0, SlotsOf(c, m) \cap stale = {}
  PROVE  Billable(c, m)
<1> DEFINE S == SlotsOf(c, m)
<1>1. SumOver(windows, S) = UnitsIn(events, c, m)
  BY MonthUnits DEF SumUnits, StoredUnits
<1>2. IsFiniteSet(S) /\ S \subseteq Slot
  BY SlotsFinite
<1>3. \A s \in S : windows[s] \in Nat
  BY <1>2 DEF UsageInv
<1>4. \E s \in S : windows[s] > 0
  <2> SUFFICES ASSUME \A s \in S : ~ (windows[s] > 0)
               PROVE  FALSE
    OBVIOUS
  <2>1. \A s \in S : windows[s] = 0
    BY <1>3
  <2> HIDE DEF S
  <2>2. SumOver(windows, S) = 0
    BY <1>2, <2>1, SumZero
  <2>3. QED
    BY <1>1, <2>2
<1>5. QED
  BY <1>4 DEF Billable
-----------------------------------------------------------------------------
(* The steps of the seed *)

\* What the seed knows of itself and of its firms.
SeedKnows == SeedTyped /\ SeedRun /\ Created /\ FirmsAreSeededOnce /\ FirmsInv

\* It starts only when there is no firm.
LEMMA StartKnows ==
  ASSUME SeedInv, StartSeed
  PROVE  SeedKnows'
<1>1. /\ spc \in {"new", "done", "dead"} /\ created = <<>>
      /\ spc' = "load" /\ at' = 1 /\ left' = {} /\ prevStart' = month - 1
      /\ UNCHANGED <<meter, month, grants, invoices, runVars, created>>
  BY DEF StartSeed, PreviousMonth, vars
<1>2. month' = month /\ month \in 1 .. LastMonth /\ LastMonth \in Nat
  BY <1>1, LastMonthAssumption DEF SeedInv, Inv, RunsTyped
<1>3. 1 \in DOMAIN Script
  <2> DEFINE Steps == [op : {"create"}, firm : Customer] \cup
                      [op : {"flush"}, events : SUBSET Event]
  <2>1. Script \in Seq(Steps) /\ Script # <<>>
    BY ScriptAssumption
  <2> HIDE DEF Steps
  <2>2. QED
    BY <2>1
<1>4. SeedTyped'
  BY <1>1, <1>2, <1>3 DEF SeedInv, SeedTyped
<1>5. wpc' = wpc
  BY <1>1 DEF runVars
<1>6. SeedRun'
  BY <1>1, <1>5 DEF SeedInv, SeedRun
<1>7. DOMAIN created' = {}
  BY <1>1
<1>8. Created' /\ FirmsAreSeededOnce'
  BY <1>7 DEF Created, FirmsAreSeededOnce, IsInjective
<1>9. FirmsInv'
  BY <1>1 DEF FirmsInv
<1>10. QED
  BY <1>4, <1>6, <1>8, <1>9 DEF SeedKnows

\* A firm more: no step of the script before this one created it.
LEMMA LoadKnows ==
  ASSUME SeedInv, Load
  PROVE  SeedKnows'
<1> DEFINE step == Script[at]
<1>1. /\ spc = "load" /\ at \in DOMAIN Script /\ at' = at + 1
      /\ spc' = (IF at = Len(Script) THEN "hours" ELSE "load")
      /\ UNCHANGED <<month, runVars, prevStart>>
      /\ \/ step.op = "create" /\ created' = Append(created, step.firm)
         \/ step.op # "create" /\ created' = created
  BY DEF Load, SeedInv, SeedTyped
<1>2. /\ at \in 1 .. Len(Script) /\ Len(Script) \in Nat /\ DOMAIN Script = 1 .. Len(Script)
      /\ step.op = "create" => step.firm \in Customer
  BY <1>1, ScriptStep, ScriptAssumption
<1>3. created \in Seq(Customer)
  BY DEF SeedInv, SeedTyped
<1>4. at' \in Nat /\ (spc' = "load" => at' \in DOMAIN Script)
  BY <1>1, <1>2
<1>5. ASSUME NEW n \in DOMAIN created
      PROVE  \E m \in DOMAIN Script : /\ m < at /\ m < at'
                                      /\ Script[m].op = "create"
                                      /\ Script[m].firm = created[n]
  <2>1. PICK m \in DOMAIN Script : /\ m < at /\ Script[m].op = "create"
                                   /\ Script[m].firm = created[n]
    BY DEF SeedInv, Created
  <2>2. m \in Nat /\ at \in Nat /\ at' = at + 1
    BY <1>1, <1>2
  <2>3. m < at'
    BY <2>1, <2>2
  <2>4. QED
    BY <2>1, <2>3
<1>6. created' \in Seq(Customer) /\ Created' /\ FirmsAreSeededOnce'
  <2>1. CASE step.op # "create"
    BY <1>1, <1>3, <1>5, <2>1 DEF SeedInv, Created, FirmsAreSeededOnce
  <2>2. CASE step.op = "create"
    <3> DEFINE new == Len(created) + 1
    <3>1. PICK firm \in Customer : firm = step.firm
      BY <1>2, <2>2
    <3>2. created' = Append(created, firm)
      BY <1>1, <2>2, <3>1
    <3>3. /\ created' \in Seq(Customer)
          /\ DOMAIN created' = DOMAIN created \cup {new}
          /\ \A n \in DOMAIN created : created'[n] = created[n]
          /\ created'[new] = firm
      BY <1>3, <3>2
    <3>4. at < at'
      BY <1>1, <1>2
    <3>5. Created'
      <4> SUFFICES ASSUME NEW n \in DOMAIN created'
                   PROVE  \E m \in DOMAIN Script : /\ m < at' /\ Script[m].op = "create"
                                                   /\ Script[m].firm = created'[n]
        BY DEF Created
      <4> HIDE DEF new, step
      <4>1. CASE n \in DOMAIN created
        BY <1>5, <3>3, <4>1
      <4>2. CASE n = new
        BY <1>1, <2>2, <3>1, <3>3, <3>4, <4>2 DEF step
      <4>3. QED
        BY <3>3, <4>1, <4>2
    <3>6. \A n \in DOMAIN created : created[n] # firm
      <4> SUFFICES ASSUME NEW n \in DOMAIN created, created[n] = firm
                   PROVE  FALSE
        OBVIOUS
      <4>1. PICK m \in DOMAIN Script : m < at /\ Script[m].op = "create" /\ Script[m].firm = firm
        BY <1>5
      <4>2. m = at
        BY <1>1, <2>2, <3>1, <4>1, ScriptAssumption
      <4>3. QED
        BY <1>2, <4>1, <4>2
    <3> HIDE DEF new, step
    <3>7. FirmsAreSeededOnce'
      BY <3>3, <3>6 DEF SeedInv, FirmsAreSeededOnce, IsInjective
    <3>8. QED
      BY <3>3, <3>5, <3>7
  <2>3. QED
    BY <2>1, <2>2
<1>7. SeedTyped'
  BY <1>1, <1>4, <1>6 DEF SeedInv, SeedTyped
<1>8. SeedRun'
  BY <1>1 DEF SeedInv, SeedRun, runVars
<1>9. FirmsInv'
  BY <1>1 DEF FirmsInv
<1>10. QED
  BY <1>6, <1>7, <1>8, <1>9 DEF SeedKnows

\* What is stale when the run begins is what was left.
LEMMA HourPassKnows ==
  ASSUME SeedInv, HourPass
  PROVE  SeedKnows'
<1>1. /\ spc = "hours" /\ wpc[Seed] = "idle"
      /\ UNCHANGED <<month, prevStart, at, created>>
  BY DEF HourPass, SeedInv, SeedRun
<1>2. \/ /\ spc' = "issue" /\ left' = stale /\ stale' = stale
         /\ wpc' = [wpc EXCEPT ![Seed] = "list"]
         /\ period' = [period EXCEPT ![Seed] = prevStart]
      \/ spc' \in {"dead", "hours"} /\ UNCHANGED wpc
  BY DEF HourPass, BeginIssue, meter
<1>3. SeedTyped' /\ Created' /\ FirmsAreSeededOnce'
  BY <1>1, <1>2 DEF SeedInv, SeedTyped, Created, FirmsAreSeededOnce
<1>4. Seed \in DOMAIN wpc /\ Seed \in DOMAIN period
  BY SeedAssumption DEF SeedInv, Inv, RunsTyped
<1>5. SeedRun'
  BY <1>1, <1>2, <1>4 DEF SeedRun
<1>6. FirmsInv'
  BY <1>2, <1>4 DEF FirmsInv
<1>7. QED
  BY <1>3, <1>5, <1>6 DEF SeedKnows

(* A seed that dies leaves its customers behind; the next one counts them. *)
LEMMA DieKnows ==
  ASSUME SeedInv, Die
  PROVE  SeedKnows'
<1>1. spc' = "dead" /\ UNCHANGED <<month, prevStart, at, created>>
  BY DEF Die
<1>2. wpc'[Seed] = "idle"
  BY SeedAssumption DEF Die, Reset, SeedInv, Inv, RunsTyped
<1>3. QED
  BY <1>1, <1>2 DEF SeedKnows, SeedInv, SeedTyped, SeedRun, Created, FirmsAreSeededOnce, FirmsInv

\* Each step of its run settles a firm or leaves it due.
LEMMA SeedIssueKnows ==
  ASSUME SeedInv, SeedIssue
  PROVE  SeedKnows'
<1>1. /\ spc = "issue" /\ wpc[Seed] \in {"list", "sum", "credits", "save"}
      /\ period[Seed] = prevStart /\ stale \subseteq left
      /\ UNCHANGED <<prevStart, at, left, created>>
  BY DEF SeedIssue, SeedInv, SeedRun
<1>2. /\ Seed \in Worker /\ RunsTyped /\ UsageInv /\ prevStart \in Int
  BY SeedAssumption, LastMonthAssumption DEF SeedInv, Inv, SeedTyped
<1>3. UNCHANGED <<meter, month>>
  BY DEF SeedIssue, FinishRun, FailRun, ListCustomers, SumMonth, ReadCredits, SaveInvoice
<1>4. events' = events /\ stale' = stale /\ windows' = windows
  BY <1>3 DEF meter
<1>5. ASSUME spc' \in {"issue", "done", "dead"}
      PROVE  SeedTyped' /\ Created' /\ FirmsAreSeededOnce'
  BY <1>1, <1>3, <1>5 DEF SeedInv, SeedTyped, Created, FirmsAreSeededOnce
<1>6. \A c \in Range(created) : c \in Customer
  BY DEF SeedInv, SeedTyped, Range
<1>7. CASE FinishRun(Seed) /\ spc' = "done"
  <2>1. wpc[Seed] = "sum" /\ queue[Seed] = {} /\ wpc'[Seed] = "idle" /\ UNCHANGED invoices
    BY <1>2, <1>7 DEF FinishRun, Reset, RunsTyped
  <2>2. \A c \in Range(created) : Settled(c)
    BY <1>1, <2>1 DEF SeedInv, FirmsInv, Due
  <2>3. \A c \in Range(created) : Settled(c)'
    BY <1>1, <1>4, <2>1, <2>2, StaysSettled
  <2>4. FirmsInv' /\ SeedRun'
    BY <1>1, <1>7, <2>1, <2>3 DEF FirmsInv, SeedRun
  <2>5. QED
    BY <1>5, <1>7, <2>4 DEF SeedKnows
<1>8. CASE FailRun(Seed) /\ spc' = "dead"
  <2>1. wpc'[Seed] = "idle"
    BY <1>2, <1>8 DEF FailRun, Reset, RunsTyped
  <2>2. QED
    BY <1>5, <1>8, <2>1 DEF SeedKnows, FirmsInv, SeedRun
<1>9. ASSUME spc' = spc, wpc'[Seed] \in {"sum", "credits", "save"}, period'[Seed] = prevStart,
             \A c \in Range(created) : Settled(c)' \/ Due(c)'
      PROVE  SeedKnows'
  BY <1>1, <1>4, <1>5, <1>9 DEF SeedKnows, SeedRun, FirmsInv
<1>10. ASSUME UNCHANGED invoices, NEW c, Settled(c)
       PROVE  Settled(c)'
  BY <1>1, <1>4, <1>10, StaysSettled
<1>11. CASE ListCustomers(Seed) /\ UNCHANGED spc
  <2>1. /\ wpc'[Seed] = "sum" /\ period'[Seed] = prevStart /\ UNCHANGED invoices
        /\ queue'[Seed] = {c \in Customer : Billable(c, prevStart)}
    BY <1>1, <1>2, <1>11 DEF ListCustomers, RunsTyped
  <2>2. ASSUME NEW c \in Range(created)
        PROVE  Settled(c)' \/ Due(c)'
    <3>1. CASE Settled(c)
      BY <1>10, <2>1, <3>1
    <3>2. CASE ~Settled(c)
      <4>1. Billable(c, prevStart)
        BY <1>1, <1>2, <3>2, ListsFirm DEF Settled
      <4>2. QED
        BY <1>6, <2>1, <4>1 DEF Due
    <3>3. QED
      BY <3>1, <3>2
  <2>3. QED
    BY <1>9, <1>11, <2>1, <2>2
<1>12. CASE SumMonth(Seed) /\ UNCHANGED spc
  <2>1. /\ wpc[Seed] = "sum" /\ UNCHANGED <<invoices, period>>
    BY <1>12 DEF SumMonth
  <2>2. PICK d, n :
           /\ d \in queue[Seed] /\ n = SumUnits(d, prevStart)
           /\ queue' = [queue EXCEPT ![Seed] = @ \ {d}]
           /\ IF n <= 0
              THEN UNCHANGED <<wpc, customer, units>>
              ELSE /\ customer' = [customer EXCEPT ![Seed] = d]
                   /\ units' = [units EXCEPT ![Seed] = n]
                   /\ wpc' = [wpc EXCEPT ![Seed] = "credits"]
    BY <1>1, <1>12 DEF SumMonth
  <2>3. queue'[Seed] = queue[Seed] \ {d}
    BY <1>2, <2>2 DEF RunsTyped
  <2>4. \/ n <= 0 /\ wpc' = wpc
        \/ wpc'[Seed] = "credits" /\ customer'[Seed] = d
    BY <1>2, <2>2 DEF RunsTyped
  <2>5. n <= 0 => Settled(d)
    <3> SUFFICES ASSUME n <= 0, SlotsOf(d, prevStart) \cap left = {}
                 PROVE  UnitsIn(events, d, prevStart) = 0
      BY DEF Settled
    <3>1. SumUnits(d, prevStart) = StoredUnits(d, prevStart) /\ SumUnits(d, prevStart) \in Nat
      BY <1>1, <1>2, MonthUnits
    <3>2. QED
      BY <2>2, <3>1 DEF StoredUnits
  <2>6. ASSUME NEW c \in Range(created)
        PROVE  Settled(c)' \/ Due(c)'
    <3>1. Settled(c) \/ c \in queue[Seed]
      BY <1>1, <2>1 DEF SeedInv, FirmsInv, Due
    <3>2. CASE Settled(c)
      BY <1>10, <2>1, <3>2
    <3>3. CASE c \in queue[Seed] /\ c # d
      BY <2>3, <3>3 DEF Due
    <3>4. CASE c = d
      <4>1. CASE n <= 0
        BY <1>10, <2>1, <2>5, <3>4, <4>1
      <4>2. CASE wpc'[Seed] = "credits" /\ customer'[Seed] = d
        BY <3>4, <4>2 DEF Due
      <4>3. QED
        BY <2>4, <4>1, <4>2
    <3>5. QED
      BY <3>1, <3>2, <3>3, <3>4
  <2>7. QED
    BY <1>1, <1>9, <1>12, <2>1, <2>4, <2>6
<1>13. CASE ReadCredits(Seed) /\ UNCHANGED spc
  <2>1. /\ wpc[Seed] = "credits" /\ wpc'[Seed] = "save"
        /\ UNCHANGED <<invoices, period, queue, customer>>
    BY <1>2, <1>13 DEF ReadCredits, RunsTyped
  <2>2. ASSUME NEW c \in Range(created)
        PROVE  Settled(c)' \/ Due(c)'
    <3>1. Settled(c) \/ Due(c)
      BY <1>1, <2>1 DEF SeedInv, FirmsInv
    <3>2. QED
      BY <1>10, <2>1, <3>1 DEF Due
  <2>3. QED
    BY <1>1, <1>9, <1>13, <2>1, <2>2
<1>14. CASE SaveInvoice(Seed) /\ UNCHANGED spc
  <2>1. /\ wpc[Seed] = "save" /\ EndOne(Seed) /\ UNCHANGED <<period, queue>>
        /\ \/ HasInvoice(customer[Seed], period[Seed]) /\ UNCHANGED invoices
           \/ invoices' = invoices \cup {NewInvoice(Seed, BillOf(Seed))}
    BY <1>2, <1>14, SaveInvoiceEffect DEF Issues
  <2>2. wpc'[Seed] = "sum"
    BY <1>2, <2>1 DEF EndOne, RunsTyped
  <2>3. /\ invoices \subseteq invoices'
        /\ \E i \in invoices' : i.customer = customer[Seed] /\ i.period = prevStart
    <3>1. CASE HasInvoice(customer[Seed], period[Seed]) /\ UNCHANGED invoices
      BY <1>1, <3>1 DEF HasInvoice
    <3>2. CASE invoices' = invoices \cup {NewInvoice(Seed, BillOf(Seed))}
      <4>1. PICK new : new = NewInvoice(Seed, BillOf(Seed))
        OBVIOUS
      <4>2. new.customer = customer[Seed] /\ new.period = prevStart
        BY <1>1, <4>1 DEF NewInvoice
      <4>3. QED
        BY <3>2, <4>1, <4>2
    <3>3. QED
      BY <2>1, <3>1, <3>2
  <2>4. ASSUME NEW c \in Range(created)
        PROVE  Settled(c)' \/ Due(c)'
    <3>1. Settled(c) \/ Due(c)
      BY <1>1, <2>1 DEF SeedInv, FirmsInv
    <3>2. CASE Settled(c)
      BY <1>1, <1>4, <2>3, <3>2, StaysSettled
    <3>3. CASE c \in queue[Seed]
      BY <2>1, <3>3 DEF Due
    <3>4. CASE c = customer[Seed]
      <4>1. HasInvoice(c, prevStart)'
        BY <1>1, <2>3, <3>4 DEF HasInvoice
      <4>2. QED
        BY <4>1 DEF Settled
    <3>5. QED
      BY <3>1, <3>2, <3>3, <3>4 DEF Due
  <2>5. QED
    BY <1>1, <1>9, <1>14, <2>1, <2>2, <2>4
<1>15. QED
  BY <1>7, <1>8, <1>11, <1>12, <1>13, <1>14 DEF SeedIssue
-----------------------------------------------------------------------------
(* The invariant and what follows from it *)

\* A system that has not seen a seed yet.
LEMMA SeedInitInv == SeedInit => SeedInv
<1> SUFFICES ASSUME SeedInit PROVE SeedInv
  OBVIOUS
<1>1. Inv /\ month = 1 /\ wpc[Seed] = "idle"
  BY InvInit, SeedAssumption DEF SeedInit, Init
<1>2. /\ spc = "new" /\ prevStart = 0 /\ at = 1 /\ created = <<>> /\ DOMAIN <<>> = {}
      /\ 0 \in 0 .. LastMonth - 1
  BY LastMonthAssumption DEF SeedInit
<1>3. SeedTyped
  BY <1>1, <1>2 DEF SeedTyped
<1>4. Created /\ FirmsAreSeededOnce
  BY <1>2 DEF Created, FirmsAreSeededOnce, IsInjective
<1>5. QED
  BY <1>1, <1>2, <1>3, <1>4 DEF SeedInv, SeedRun, FirmsInv

\* A step of anyone.
LEMMA SeedInvStep == SeedInv /\ [SeedNext]_allVars => SeedInv'
<1> SUFFICES ASSUME SeedInv, [SeedNext]_allVars PROVE SeedInv'
  OBVIOUS
<1>1. Inv'
  BY SeedSteps, InvStep DEF SeedInv
<1>2. CASE StartSeed
  BY <1>1, <1>2, StartKnows DEF SeedKnows, SeedInv
<1>3. CASE Load
  BY <1>1, <1>3, LoadKnows DEF SeedKnows, SeedInv
<1>4. CASE HourPass
  BY <1>1, <1>4, HourPassKnows DEF SeedKnows, SeedInv
<1>5. CASE SeedIssue
  BY <1>1, <1>5, SeedIssueKnows DEF SeedKnows, SeedInv
<1>6. CASE Die
  BY <1>1, <1>6, DieKnows DEF SeedKnows, SeedInv
<1>7. CASE Others
  <2>1. Aside /\ UNCHANGED <<seedVars, created>>
    BY <1>7, OthersAside DEF Others, SeedInv
  <2>2. QED
    BY <1>1, <2>1, AsideInv DEF SeedInv
<1>8. CASE UNCHANGED allVars
  <2>1. Aside /\ UNCHANGED <<seedVars, created>>
    BY <1>8 DEF Aside, allVars, vars, meter, runVars
  <2>2. QED
    BY <1>1, <2>1, AsideInv DEF SeedInv
<1>9. QED
  BY <1>2, <1>3, <1>4, <1>5, <1>6, <1>7, <1>8 DEF SeedNext, SeedStep

\* Beside the workers, and started again wherever it ended, the seed keeps what
\* the invoice job relies on, and knows where its firms are.
THEOREM SeedInvariant == SeedSpec => []SeedInv
<1>1. QED
  BY SeedInitInv, SeedInvStep, PTL DEF SeedSpec

\* No firm is created twice, however often the seed dies and is started again.
THEOREM FirmsOnce == SeedSpec => []FirmsAreSeededOnce
<1>1. SeedInv => FirmsAreSeededOnce
  BY DEF SeedInv
<1>2. QED
  BY <1>1, SeedInvariant, PTL

\* When the seed ends well, each of its firms has an invoice for the month it
\* issued, or no usage in it, or an hour that a worker had locked.
THEOREM FirmsInvoiced == SeedSpec => []SeededFirmsAreInvoiced
<1>1. SeedInv => SeededFirmsAreInvoiced
  BY DEF SeedInv, FirmsInv, Settled, SeededFirmsAreInvoiced
<1>2. QED
  BY <1>1, SeedInvariant, PTL

\* The seed and the workers issue the same month at once, and a customer has
\* one invoice for it.
THEOREM OneInvoiceWithSeed == SeedSpec => []OneInvoicePerMonth
<1>1. SeedInv => OneInvoicePerMonth
  BY DEF SeedInv, Inv, InvoicesInv
<1>2. QED
  BY <1>1, SeedInvariant, PTL

\* The seed bills no unit that was not reported for the month either.
THEOREM RealUsageWithSeed == SeedSpec => []OnlyRealUsageIsBilled
<1>1. SeedInv => OnlyRealUsageIsBilled
  BY DEF SeedInv, Inv, InvoicesInv, InvoiceOK, OnlyRealUsageIsBilled
<1>2. QED
  BY <1>1, SeedInvariant, PTL

\* The preparations of the seed are new usage to Billing, and nothing to credits.
LEMMA PreparesBilling ==
  ASSUME Inv', CreditInv, Prepares
  PROVE  CreditInv' /\ [Billing!Next]_(Billing!vars)
<1>1. CreditInv'
  BY SeedAssumption, CreditQuiet DEF Prepares
<1>2. events' \subseteq Event
  BY DEF Inv, UsageInv
<1>3. Billing!Store
  BY <1>2 DEF Prepares, Billing!Store
<1>4. QED
  BY <1>1, <1>3 DEF Billing!Next

\* A seed and workers, as long as no customer is being invoiced for two months
\* at once, lose no credit and spend none twice.
THEOREM CreditsWithSeed == SeedSpec /\ []OneMonthAtATime => []CreditsConserved
<1>1. SeedInit => CreditInv
  BY CreditInit DEF SeedInit
<1>2. SeedInv /\ SeedInv' /\ CreditInv /\ OneMonthAtATime /\ [SeedNext]_allVars => CreditInv'
  BY SeedSteps, CreditStep, PreparesBilling DEF SeedInv
<1>3. CreditInv => CreditsConserved
  BY DEF CreditInv
<1>4. QED
  BY <1>1, <1>2, <1>3, SeedInvariant, PTL DEF SeedSpec

\* And do what Billing says: an invoice of the seed is one of the system's.
THEOREM SeedImplementsBilling == SeedSpec /\ []OneMonthAtATime => BillingSpec
<1>1. SeedInit => CreditInv /\ Billing!Init
  BY CreditInit, BillingInit DEF SeedInit
<1>2. SeedInv /\ SeedInv' /\ CreditInv /\ OneMonthAtATime /\ [SeedNext]_allVars
        => CreditInv' /\ [Billing!Next]_(Billing!vars)
  BY SeedSteps, CreditStep, BillingStep, PreparesBilling DEF SeedInv
<1>3. QED
  BY <1>1, <1>2, SeedInvariant, PTL DEF SeedSpec, BillingSpec, Billing!Spec
==============================================================================
