--------------------------- MODULE Metering_proofs ---------------------------
(***************************************************************************)
(* Proofs about Metering, for any number of sessions, workers, events and  *)
(* batches.  The invariants are layered: types, then locks, then what the  *)
(* locks protect; each layer is inductive given the ones below it.         *)
(***************************************************************************)
EXTENDS Metering, Sums_proofs

-----------------------------------------------------------------------------
(* Sums *)

\* A finite set of events has a sum for every slot.
LEMMA HourUnitsType ==
  ASSUME NEW rows \in SUBSET Event, IsFiniteSet(rows), NEW s
  PROVE  /\ IsFiniteSet(UnitTokens(rows, s))
         /\ HourUnits(rows, s) \in Nat
<1> DEFINE Of == RowsOf(rows, s)
<1>1. IsFiniteSet(Of)
  BY FS_Subset DEF RowsOf
<1>2. \A r \in Of : r.units \in Int
  BY EventAssumption DEF RowsOf
<1> HIDE DEF Of
<1>3. IsFiniteSet(UNION {{r} \X (1 .. r.units) : r \in Of})
  BY <1>1, <1>2, TokensFinite
<1> QED
  BY <1>3, FS_CardinalityType DEF HourUnits, UnitTokens, Of

\* An hour without events adds up to nothing.
LEMMA HourUnitsOfNone ==
  ASSUME NEW s
  PROVE  HourUnits({}, s) = 0
<1>1. UnitTokens({}, s) = {}
  BY DEF UnitTokens, RowsOf
<1> QED BY <1>1, FS_EmptySet DEF HourUnits

\* Rows of other slots do not change the sum of a slot.
LEMMA HourUnitsUntouched ==
  ASSUME NEW rows, NEW more, NEW s, \A r \in more : SlotOf(r) # s
  PROVE  HourUnits(rows \cup more, s) = HourUnits(rows, s)
<1>1. RowsOf(rows \cup more, s) = RowsOf(rows, s)
  BY DEF RowsOf
<1> QED BY <1>1 DEF HourUnits, UnitTokens

\* More rows never make a smaller sum.
LEMMA HourUnitsMonotone ==
  ASSUME NEW rows \in SUBSET Event, NEW more \in SUBSET Event, NEW s,
         IsFiniteSet(rows), IsFiniteSet(more)
  PROVE  HourUnits(rows, s) <= HourUnits(rows \cup more, s)
<1>1. IsFiniteSet(rows \cup more)
  BY FS_Union
<1>2. IsFiniteSet(UnitTokens(rows \cup more, s))
  BY <1>1, HourUnitsType
<1>3. UnitTokens(rows, s) \subseteq UnitTokens(rows \cup more, s)
  BY DEF UnitTokens, RowsOf
<1> QED BY <1>2, <1>3, FS_Subset DEF HourUnits

-----------------------------------------------------------------------------
(* Types *)

(* Ending a request keeps its types. *)
LEMMA EndRequestType ==
  ASSUME TypeOK, NEW p \in Session, EndRequest(p)
  PROVE  /\ pc' \in [Session -> {"idle", "insert", "mark"}]
         /\ batch' \in [Session -> Seq(Event)]
         /\ pos' \in [Session -> Nat \ {0}]
         /\ \A q \in Session : pc'[q] = "mark" => pos'[q] <= Len(batch'[q])
         /\ inserted' \in [Session -> SUBSET Event]
         /\ \A q \in Session : IsFiniteSet(inserted'[q])
         /\ marked' \in [Session -> [Slot -> Nat]]
<1>1. <<>> \in Seq(Event)
  OBVIOUS
<1>2. NoMarks \in [Slot -> Nat]
  BY DEF NoMarks
<1>3. \A q \in Session : IsFiniteSet(inserted'[q])
  BY FS_EmptySet DEF EndRequest, TypeOK
<1>4. \A q \in Session : pc'[q] = "mark" => pos'[q] <= Len(batch'[q])
  BY DEF EndRequest, TypeOK
<1> QED BY <1>1, <1>2, <1>3, <1>4 DEF EndRequest, TypeOK

(* Ending the job keeps its types. *)
LEMMA EndJobType ==
  ASSUME TypeOK, NEW w \in Worker, EndJob(w)
  PROVE  /\ wpc' \in [Worker -> {"idle", "sum", "rewrite"}]
         /\ held' \in [Worker -> SUBSET Slot]
         /\ todo' \in [Worker -> SUBSET Slot]
         /\ seenGen' \in [Worker -> [Slot -> Nat]]
         /\ current' \in [Worker -> Slot \cup {NoSlot}]
         /\ \A v \in Worker : wpc'[v] = "rewrite" => current'[v] \in Slot
         /\ sums' \in [Worker -> [Slot -> Nat]]
         /\ dropped' \in [Worker -> SUBSET Slot]
<1>1. NoMarks \in [Slot -> Nat]
  BY DEF NoMarks
<1> QED BY <1>1 DEF EndJob, TypeOK

\* The event a request is at is one of Event, and its hour is a slot.
LEMMA CurrentType ==
  ASSUME TypeOK, NEW p \in Session, pos[p] <= Len(batch[p])
  PROVE  Current(p) \in Event /\ SlotOf(Current(p)) \in Slot
<1>1. Current(p) \in Event
  BY DEF Current, TypeOK
<1> QED BY <1>1 DEF Slot

\* The write MarkDirty makes, with its type.
LEMMA MarkDirtyEffect ==
  ASSUME TypeOK, NEW p \in Session, MarkDirty(p)
  PROVE  LET s == SlotOf(Current(p))
             g == (IF marked[p][s] > 0 THEN marked[p][s] ELSE dirty_hours[s]) + 1
         IN  /\ s \in Slot
             /\ g \in Nat \ {0}
             /\ marked' = [marked EXCEPT ![p] = [marked[p] EXCEPT ![s] = g]]
             /\ marked' \in [Session -> [Slot -> Nat]]
<1> DEFINE s == SlotOf(Current(p))
           g == (IF marked[p][s] > 0 THEN marked[p][s] ELSE dirty_hours[s]) + 1
<1>1. s \in Slot
  BY CurrentType DEF MarkDirty, TypeOK
<1>2. g \in Nat \ {0}
  BY <1>1 DEF TypeOK
<1>3. marked' = [marked EXCEPT ![p] = [marked[p] EXCEPT ![s] = g]]
  BY DEF MarkDirty
<1>4. marked' \in [Session -> [Slot -> Nat]]
  <2> HIDE DEF s, g
  <2> QED BY <1>1, <1>2, <1>3 DEF TypeOK
<1> QED BY <1>1, <1>2, <1>3, <1>4

\* The same write row by row: one row is marked, the others stay.
LEMMA MarkDirtyRows ==
  ASSUME TypeOK, NEW p \in Session, MarkDirty(p)
  PROVE  LET s == SlotOf(Current(p))
         IN  /\ s \in Slot
             /\ marked'[p][s] > 0
             /\ \A q \in Session, t \in Slot :
                   <<q, t>> # <<p, s>> => marked'[q][t] = marked[q][t]
<1> DEFINE s == SlotOf(Current(p))
           g == (IF marked[p][s] > 0 THEN marked[p][s] ELSE dirty_hours[s]) + 1
<1>1. /\ s \in Slot
      /\ g \in Nat \ {0}
      /\ marked' = [marked EXCEPT ![p] = [marked[p] EXCEPT ![s] = g]]
  BY MarkDirtyEffect
<1>2. marked \in [Session -> [Slot -> Nat]]
  BY DEF TypeOK
<1> HIDE DEF s, g
<1>3. marked'[p] = [marked[p] EXCEPT ![s] = g]
  BY <1>1, <1>2
<1>4. marked'[p][s] = g
  BY <1>1, <1>2, <1>3
<1>5. ASSUME NEW q \in Session, NEW t \in Slot, <<q, t>> # <<p, s>>
      PROVE  marked'[q][t] = marked[q][t]
  <2>1. CASE q = p
    BY <1>2, <1>3, <1>5, <2>1
  <2>2. CASE q # p
    BY <1>1, <1>2, <2>2
  <2> QED BY <2>1, <2>2
<1> QED BY <1>1, <1>4, <1>5 DEF s

(* The types hold initially. *)
LEMMA TypeInit == Init => TypeOK
<1> SUFFICES ASSUME Init PROVE TypeOK
  OBVIOUS
<1>1. NoMarks \in [Slot -> Nat]
  BY DEF NoMarks
<1>2. IsFiniteSet(usage_events) /\ \A p \in Session : IsFiniteSet(inserted[p])
  BY FS_EmptySet DEF Init
<1>3. \A p \in Session : pc[p] = "mark" => pos[p] <= Len(batch[p])
  BY DEF Init
<1> QED BY <1>1, <1>2, <1>3 DEF Init, TypeOK

(* One case per action of Next. *)
LEMMA TypeStep == TypeOK /\ [Next]_vars => TypeOK'
<1> SUFFICES ASSUME TypeOK, [Next]_vars PROVE TypeOK'
  OBVIOUS
<1> USE DEF tables, sessionVars, workerVars
<1>1. ASSUME NEW p \in Session, NEW b \in Offered, Begin(p, b)
      PROVE  TypeOK'
  <2>1. b \in Seq(Event)
    BY OfferedAssumption
  <2>2. \A q \in Session : pc'[q] = "mark" => pos'[q] <= Len(batch'[q])
    BY <1>1 DEF Begin, TypeOK
  <2> QED BY <1>1, <2>1, <2>2 DEF Begin, TypeOK
<1>2. ASSUME NEW p \in Session, SkipDuplicate(p)
      PROVE  TypeOK'
  <2>1. \A q \in Session : pc'[q] = "mark" => pos'[q] <= Len(batch'[q])
    BY <1>2 DEF SkipDuplicate, TypeOK
  <2> QED BY <1>2, <2>1 DEF SkipDuplicate, TypeOK
<1>3. ASSUME NEW p \in Session, InsertEvent(p)
      PROVE  TypeOK'
  <2>1. Current(p) \in Event
    BY <1>3, CurrentType DEF InsertEvent
  <2>2. \A q \in Session : IsFiniteSet(inserted'[q])
    BY <1>3, FS_AddElement DEF InsertEvent, TypeOK
  <2>3. \A q \in Session : pc'[q] = "mark" => pos'[q] <= Len(batch'[q])
    BY <1>3 DEF InsertEvent, TypeOK
  <2> QED BY <1>3, <2>1, <2>2, <2>3 DEF InsertEvent, TypeOK
<1>4. ASSUME NEW p \in Session, MarkDirty(p)
      PROVE  TypeOK'
  <2>1. marked' \in [Session -> [Slot -> Nat]]
    BY <1>4, MarkDirtyEffect
  <2>2. \A q \in Session : pc'[q] = "mark" => pos'[q] <= Len(batch'[q])
    BY <1>4 DEF MarkDirty, TypeOK
  <2>3. pos' \in [Session -> Nat \ {0}]
    BY <1>4 DEF MarkDirty, TypeOK
  <2> QED BY <1>4, <2>1, <2>2, <2>3 DEF MarkDirty, TypeOK
<1>5. ASSUME NEW p \in Session, NEW answered \in BOOLEAN, CommitBatch(p, answered)
      PROVE  TypeOK'
  <2>1. EndRequest(p)
    BY <1>5 DEF CommitBatch
  <2>2. usage_events' \subseteq Event /\ IsFiniteSet(usage_events')
    BY <1>5, FS_Union DEF CommitBatch, TypeOK
  <2>3. dirty_hours' \in [Slot -> Nat]
    BY <1>5 DEF CommitBatch, TypeOK
  <2>4. acked' \subseteq Event
    BY <1>5 DEF CommitBatch, TypeOK
  <2> QED BY <1>5, <2>1, <2>2, <2>3, <2>4, EndRequestType DEF CommitBatch, TypeOK
<1>6. ASSUME NEW p \in Session, RollbackBatch(p)
      PROVE  TypeOK'
  BY <1>6, EndRequestType DEF RollbackBatch, TypeOK
<1>7. ASSUME NEW w \in Worker, SelectDirty(w)
      PROVE  TypeOK'
  <2>1. PICK S \in SUBSET FreeSlots :
          /\ held' = [held EXCEPT ![w] = S]
          /\ todo' = [todo EXCEPT ![w] = S]
          /\ seenGen' = [seenGen EXCEPT ![w] =
                            [s \in Slot |-> IF s \in S THEN dirty_hours[s] ELSE 0]]
    BY <1>7 DEF SelectDirty
  <2>2. S \in SUBSET Slot
    BY DEF FreeSlots
  <2>3. [s \in Slot |-> IF s \in S THEN dirty_hours[s] ELSE 0] \in [Slot -> Nat]
    BY DEF TypeOK
  <2> QED BY <1>7, <2>1, <2>2, <2>3 DEF SelectDirty, TypeOK
<1>8. ASSUME NEW w \in Worker, SumHour(w)
      PROVE  TypeOK'
  <2>1. PICK s \in todo[w] :
          /\ current' = [current EXCEPT ![w] = s]
          /\ todo' = [todo EXCEPT ![w] = @ \ {s}]
          /\ sums' = [sums EXCEPT ![w][s] = HourUnits(usage_events, s)]
    BY <1>8 DEF SumHour
  <2>2. s \in Slot /\ HourUnits(usage_events, s) \in Nat
    BY HourUnitsType DEF TypeOK
  <2>3. sums' \in [Worker -> [Slot -> Nat]]
    BY <2>1, <2>2 DEF TypeOK
  <2> QED BY <1>8, <2>1, <2>2, <2>3 DEF SumHour, TypeOK
<1>9. ASSUME NEW w \in Worker, RewriteHour(w)
      PROVE  TypeOK'
  <2>1. dropped' \in [Worker -> SUBSET Slot]
    BY <1>9 DEF RewriteHour, TypeOK
  <2>2. \A v \in Worker : wpc'[v] = "rewrite" => current'[v] \in Slot
    BY <1>9 DEF RewriteHour, TypeOK
  <2> QED BY <1>9, <2>1, <2>2 DEF RewriteHour, TypeOK
<1>10. ASSUME NEW w \in Worker, CommitHours(w)
       PROVE  TypeOK'
  <2>1. EndJob(w)
    BY <1>10 DEF CommitHours
  <2>2. usage_windows' \in [Slot -> Nat] /\ dirty_hours' \in [Slot -> Nat]
    BY <1>10 DEF CommitHours, TypeOK
  <2> QED BY <1>10, <2>1, <2>2, EndJobType DEF CommitHours, TypeOK
<1>11. ASSUME NEW w \in Worker, RollbackHours(w)
       PROVE  TypeOK'
  BY <1>11, EndJobType DEF RollbackHours, TypeOK
<1>12. CASE UNCHANGED vars
  BY <1>12 DEF vars, TypeOK
<1> QED
  BY <1>1, <1>2, <1>3, <1>4, <1>5, <1>6, <1>7, <1>8, <1>9, <1>10, <1>11, <1>12
  DEF Next, SessionStep, WorkerStep, BreakDeadlock

\* Every reachable state is well typed.
THEOREM TypeCorrect == Spec => []TypeOK
<1>1. Init => TypeOK
  BY TypeInit
<1>2. TypeOK /\ [Next]_vars => TypeOK'
  BY TypeStep
<1> QED BY <1>1, <1>2, PTL DEF Spec

-----------------------------------------------------------------------------
(* Locks *)

(* No step hands a row lock to a second holder. *)
LEMMA LocksStep == TypeOK /\ RowLocksExclusive /\ [Next]_vars => RowLocksExclusive'
<1> SUFFICES ASSUME TypeOK, RowLocksExclusive, [Next]_vars
             PROVE  RowLocksExclusive'
  OBVIOUS
<1> USE DEF tables, sessionVars, workerVars
<1>1. ASSUME UNCHANGED <<marked, held>> PROVE RowLocksExclusive'
  BY <1>1 DEF RowLocksExclusive
<1>2. ASSUME NEW p \in Session, NEW b \in Offered, Begin(p, b)
      PROVE  RowLocksExclusive'
  BY <1>1, <1>2 DEF Begin
<1>3. ASSUME NEW p \in Session, SkipDuplicate(p)
      PROVE  RowLocksExclusive'
  BY <1>1, <1>3 DEF SkipDuplicate
<1>4. ASSUME NEW p \in Session, InsertEvent(p)
      PROVE  RowLocksExclusive'
  BY <1>1, <1>4 DEF InsertEvent
<1>5. ASSUME NEW p \in Session, MarkDirty(p)
      PROVE  RowLocksExclusive'
  <2> DEFINE s == SlotOf(Current(p))
  <2>1. /\ s \in Slot
        /\ \A q \in Session, t \in Slot :
              <<q, t>> # <<p, s>> => marked'[q][t] = marked[q][t]
    BY <1>5, MarkDirtyRows
  <2>2. \A q \in Session : q # p => marked[q][s] = 0
    BY <1>5, <2>1 DEF MarkDirty, MarkersOf, TypeOK
  <2>3. \A w \in Worker : s \notin held[w]
    BY <1>5 DEF MarkDirty, HoldersOf
  <2>4. held' = held /\ held \in [Worker -> SUBSET Slot]
    BY <1>5 DEF MarkDirty, TypeOK
  <2> HIDE DEF s
  <2> QED BY <2>1, <2>2, <2>3, <2>4 DEF RowLocksExclusive
<1>6. ASSUME NEW p \in Session, EndRequest(p), held' = held
      PROVE  RowLocksExclusive'
  <2>1. \A t \in Slot : marked'[p][t] = 0
    BY <1>6 DEF EndRequest, NoMarks, TypeOK
  <2>2. \A q \in Session : q # p => marked'[q] = marked[q]
    BY <1>6 DEF EndRequest, TypeOK
  <2>3. held \in [Worker -> SUBSET Slot]
    BY DEF TypeOK
  <2> QED BY <1>6, <2>1, <2>2, <2>3 DEF RowLocksExclusive
<1>7. ASSUME NEW p \in Session, NEW answered \in BOOLEAN, CommitBatch(p, answered)
      PROVE  RowLocksExclusive'
  BY <1>6, <1>7 DEF CommitBatch
<1>8. ASSUME NEW p \in Session, RollbackBatch(p)
      PROVE  RowLocksExclusive'
  BY <1>6, <1>8 DEF RollbackBatch
<1>9. ASSUME NEW w \in Worker, SelectDirty(w)
      PROVE  RowLocksExclusive'
  <2>1. PICK S \in SUBSET FreeSlots : held' = [held EXCEPT ![w] = S]
    BY <1>9 DEF SelectDirty
  <2>2. \A s \in S : /\ \A p \in Session : marked[p][s] = 0
                     /\ \A v \in Worker : s \notin held[v]
    BY <2>1 DEF FreeSlots, Free, MarkersOf, HoldersOf, TypeOK
  <2>3. held'[w] = S /\ \A v \in Worker : v # w => held'[v] = held[v]
    BY <2>1 DEF TypeOK
  <2>4. marked' = marked
    BY <1>9 DEF SelectDirty
  <2> QED BY <2>2, <2>3, <2>4 DEF RowLocksExclusive
<1>10. ASSUME NEW w \in Worker, SumHour(w)
       PROVE  RowLocksExclusive'
  BY <1>1, <1>10 DEF SumHour
<1>11. ASSUME NEW w \in Worker, RewriteHour(w)
       PROVE  RowLocksExclusive'
  BY <1>1, <1>11 DEF RewriteHour
<1>12. ASSUME NEW w \in Worker, EndJob(w), marked' = marked
       PROVE  RowLocksExclusive'
  <2>1. held'[w] = {} /\ \A v \in Worker : v # w => held'[v] = held[v]
    BY <1>12 DEF EndJob, TypeOK
  <2> QED BY <1>12, <2>1 DEF RowLocksExclusive
<1>13. ASSUME NEW w \in Worker, CommitHours(w)
       PROVE  RowLocksExclusive'
  BY <1>12, <1>13 DEF CommitHours
<1>14. ASSUME NEW w \in Worker, RollbackHours(w)
       PROVE  RowLocksExclusive'
  BY <1>12, <1>14 DEF RollbackHours
<1>15. CASE UNCHANGED vars
  BY <1>1, <1>15 DEF vars
<1> QED
  BY <1>2, <1>3, <1>4, <1>5, <1>7, <1>8, <1>9, <1>10, <1>11, <1>13, <1>14, <1>15
  DEF Next, SessionStep, WorkerStep, BreakDeadlock

\* No dirty row is ever written or locked by two open transactions.
THEOREM LocksExclusive == Spec => []RowLocksExclusive
<1>1. Init => RowLocksExclusive
  BY DEF Init, RowLocksExclusive, NoMarks
<1> QED BY <1>1, TypeCorrect, LocksStep, PTL DEF Spec

-----------------------------------------------------------------------------
(* What a request has marked *)

(* An event's window is marked dirty by the transaction that inserts it. *)
LEMMA MarksStep == TypeOK /\ MarksCoverInserts /\ [Next]_vars => MarksCoverInserts'
<1> SUFFICES ASSUME TypeOK, MarksCoverInserts, [Next]_vars
             PROVE  MarksCoverInserts'
  OBVIOUS
<1> USE DEF tables, sessionVars, workerVars
<1>1. ASSUME UNCHANGED <<inserted, marked, pc, batch, pos>>
      PROVE  MarksCoverInserts'
  BY <1>1 DEF MarksCoverInserts, Current
<1>2. ASSUME NEW p \in Session, UNCHANGED <<inserted, marked>>,
             pc[p] # "mark", pc'[p] # "mark",
             \A q \in Session : q # p => /\ pc'[q] = pc[q]
                                         /\ pos'[q] = pos[q]
                                         /\ batch'[q] = batch[q]
      PROVE  MarksCoverInserts'
  BY <1>2 DEF MarksCoverInserts, Current
<1>3. ASSUME NEW p \in Session, NEW b \in Offered, Begin(p, b)
      PROVE  MarksCoverInserts'
  BY <1>2, <1>3 DEF Begin, TypeOK
<1>4. ASSUME NEW p \in Session, SkipDuplicate(p)
      PROVE  MarksCoverInserts'
  BY <1>2, <1>4 DEF SkipDuplicate, TypeOK
<1>5. ASSUME NEW p \in Session, InsertEvent(p)
      PROVE  MarksCoverInserts'
  <2>1. /\ inserted'[p] = inserted[p] \cup {Current(p)}
        /\ pc'[p] = "mark" /\ pc[p] = "insert"
        /\ marked' = marked
        /\ Current(p)' = Current(p)
    BY <1>5 DEF InsertEvent, Current, TypeOK
  <2>2. \A q \in Session : q # p => /\ inserted'[q] = inserted[q]
                                    /\ pc'[q] = pc[q]
                                    /\ Current(q)' = Current(q)
    BY <1>5 DEF InsertEvent, Current, TypeOK
  <2> QED BY <2>1, <2>2 DEF MarksCoverInserts
<1>6. ASSUME NEW p \in Session, MarkDirty(p)
      PROVE  MarksCoverInserts'
  <2> DEFINE s == SlotOf(Current(p))
  <2>1. /\ s \in Slot
        /\ marked'[p][s] > 0
        /\ \A q \in Session, t \in Slot :
              <<q, t>> # <<p, s>> => marked'[q][t] = marked[q][t]
    BY <1>6, MarkDirtyRows
  <2>2. inserted' = inserted /\ pc[p] = "mark" /\ pc'[p] = "insert"
    BY <1>6 DEF MarkDirty, TypeOK
  <2>3. \A q \in Session : q # p => pc'[q] = pc[q] /\ Current(q)' = Current(q)
    BY <1>6 DEF MarkDirty, Current, TypeOK
  <2>4. \A q \in Session : \A r \in inserted[q] : SlotOf(r) \in Slot
    BY DEF TypeOK, Slot
  <2>5. Current(p) \in inserted[p]
    BY <2>2 DEF MarksCoverInserts
  <2>6. \A q \in Session : \A r \in inserted'[q] :
           \/ marked'[q][SlotOf(r)] > 0
           \/ pc'[q] = "mark" /\ r = Current(q)'
    <3> SUFFICES ASSUME NEW q \in Session, NEW r \in inserted[q],
                        ~ (marked'[q][SlotOf(r)] > 0)
                 PROVE  pc'[q] = "mark" /\ r = Current(q)'
      BY <2>2
    <3>1. <<q, SlotOf(r)>> # <<p, s>>
      BY <2>1
    <3>2. marked'[q][SlotOf(r)] = marked[q][SlotOf(r)]
      BY <2>1, <2>4, <3>1
    <3>3. pc[q] = "mark" /\ r = Current(q)
      BY <3>2 DEF MarksCoverInserts
    <3>4. q # p
      BY <3>1, <3>3
    <3> QED BY <2>3, <3>3, <3>4
  <2>7. \A q \in Session, t \in Slot :
           marked'[q][t] > 0 => \E r \in inserted'[q] : SlotOf(r) = t
    <3> SUFFICES ASSUME NEW q \in Session, NEW t \in Slot, marked'[q][t] > 0
                 PROVE  \E r \in inserted[q] : SlotOf(r) = t
      BY <2>2
    <3>1. CASE <<q, t>> = <<p, s>>
      BY <2>5, <3>1
    <3>2. CASE <<q, t>> # <<p, s>>
      BY <2>1, <3>2 DEF MarksCoverInserts
    <3> QED BY <3>1, <3>2
  <2>8. \A q \in Session : pc'[q] = "mark" => Current(q)' \in inserted'[q]
    BY <2>2, <2>3 DEF MarksCoverInserts
  <2> HIDE DEF s
  <2> QED BY <2>6, <2>7, <2>8 DEF MarksCoverInserts
<1>7. ASSUME NEW p \in Session, EndRequest(p)
      PROVE  MarksCoverInserts'
  <2>1. /\ inserted'[p] = {} /\ pc'[p] = "idle"
        /\ \A t \in Slot : marked'[p][t] = 0
    BY <1>7 DEF EndRequest, NoMarks, TypeOK
  <2>2. \A q \in Session : q # p => /\ inserted'[q] = inserted[q]
                                    /\ marked'[q] = marked[q]
                                    /\ pc'[q] = pc[q]
                                    /\ Current(q)' = Current(q)
    BY <1>7 DEF EndRequest, Current, TypeOK
  <2> QED BY <2>1, <2>2 DEF MarksCoverInserts
<1>8. ASSUME NEW p \in Session, NEW answered \in BOOLEAN, CommitBatch(p, answered)
      PROVE  MarksCoverInserts'
  BY <1>7, <1>8 DEF CommitBatch
<1>9. ASSUME NEW p \in Session, RollbackBatch(p)
      PROVE  MarksCoverInserts'
  BY <1>7, <1>9 DEF RollbackBatch
<1>10. ASSUME NEW w \in Worker, WorkerStep(w)
       PROVE  MarksCoverInserts'
  BY <1>1, <1>10
  DEF WorkerStep, SelectDirty, SumHour, RewriteHour, CommitHours, RollbackHours
<1>11. CASE UNCHANGED vars
  BY <1>1, <1>11 DEF vars
<1> QED
  BY <1>3, <1>4, <1>5, <1>6, <1>8, <1>9, <1>10, <1>11
  DEF Next, SessionStep, BreakDeadlock

\* An open request has marked exactly the hours it inserted rows into.
THEOREM MarksCorrect == Spec => []MarksCoverInserts
<1>1. Init => MarksCoverInserts
  BY DEF Init, MarksCoverInserts, NoMarks
<1> QED BY <1>1, TypeCorrect, MarksStep, PTL DEF Spec

-----------------------------------------------------------------------------
(* What a job publishes *)

\* What must hold together of hours that are dirty, held, summed or clean.
HoursInv == /\ JobProgress
            /\ DeleteNeverMisses
            /\ PendingSumsAreExact
            /\ CleanHoursAreExact

\* The commit of a batch adds rows only to hours it marked: an hour it did not
\* mark keeps its sum and its dirty row, and a marked hour ends up dirty.
LEMMA CommitBatchEffect ==
  ASSUME TypeOK, MarksCoverInserts, NEW p \in Session, NEW answered \in BOOLEAN,
         CommitBatch(p, answered), NEW s \in Slot
  PROVE  \/ /\ marked[p][s] = 0
            /\ dirty_hours'[s] = dirty_hours[s]
            /\ HourUnits(usage_events', s) = HourUnits(usage_events, s)
         \/ marked[p][s] > 0 /\ dirty_hours'[s] > 0
<1>1. dirty_hours'[s] = IF marked[p][s] > 0 THEN marked[p][s] ELSE dirty_hours[s]
  BY DEF CommitBatch
<1>2. marked[p][s] \in Nat
  BY DEF TypeOK
<1>3. CASE marked[p][s] > 0
  BY <1>1, <1>3
<1>4. CASE marked[p][s] = 0
  <2>1. \A r \in inserted[p] : SlotOf(r) # s
    BY <1>4 DEF CommitBatch, MarksCoverInserts
  <2>2. usage_events' = usage_events \cup inserted[p]
    BY DEF CommitBatch
  <2> QED BY <1>1, <1>4, <2>1, <2>2, HourUnitsUntouched
<1> QED BY <1>2, <1>3, <1>4

\* The commit of a job publishes and clears exactly the rows it held.
LEMMA CommitHoursEffect ==
  ASSUME TypeOK, HoursInv, NEW w \in Worker, CommitHours(w), NEW s \in Slot
  PROVE  /\ s \in held[w] => /\ dirty_hours'[s] = 0
                             /\ usage_windows'[s] = HourUnits(usage_events, s)
         /\ s \notin held[w] => /\ dirty_hours'[s] = dirty_hours[s]
                                /\ usage_windows'[s] = usage_windows[s]
<1>1. todo[w] = {} /\ dropped[w] = held[w]
  BY DEF CommitHours, HoursInv, JobProgress
<1> QED BY <1>1 DEF CommitHours, HoursInv, PendingSumsAreExact

(* One case per action of Next. *)
LEMMA HoursStep ==
  TypeOK /\ RowLocksExclusive /\ MarksCoverInserts /\ HoursInv /\ [Next]_vars
     => HoursInv'
<1> SUFFICES ASSUME TypeOK, RowLocksExclusive, MarksCoverInserts, HoursInv,
                    [Next]_vars
             PROVE  HoursInv'
  OBVIOUS
<1> USE DEF tables, sessionVars, workerVars
<1>1. ASSUME UNCHANGED <<tables, workerVars>> PROVE HoursInv'
  BY <1>1 DEF HoursInv, JobProgress, DeleteNeverMisses, PendingSumsAreExact,
              CleanHoursAreExact
<1>2. ASSUME NEW p \in Session, NEW b \in Offered, Begin(p, b)
      PROVE  HoursInv'
  BY <1>1, <1>2 DEF Begin
<1>3. ASSUME NEW p \in Session, SkipDuplicate(p)
      PROVE  HoursInv'
  BY <1>1, <1>3 DEF SkipDuplicate
<1>4. ASSUME NEW p \in Session, InsertEvent(p)
      PROVE  HoursInv'
  BY <1>1, <1>4 DEF InsertEvent
<1>5. ASSUME NEW p \in Session, MarkDirty(p)
      PROVE  HoursInv'
  BY <1>1, <1>5 DEF MarkDirty
<1>6. ASSUME NEW p \in Session, NEW answered \in BOOLEAN, CommitBatch(p, answered)
      PROVE  HoursInv'
  <2>1. \A w \in Worker : \A s \in held[w] :
           /\ s \in Slot
           /\ dirty_hours'[s] = dirty_hours[s]
           /\ HourUnits(usage_events', s) = HourUnits(usage_events, s)
    BY <1>6, CommitBatchEffect DEF RowLocksExclusive, TypeOK
  <2>2. \A s \in Slot : dirty_hours'[s] = 0 =>
           /\ dirty_hours[s] = 0
           /\ HourUnits(usage_events', s) = HourUnits(usage_events, s)
    BY <1>6, CommitBatchEffect
  <2>3. UNCHANGED <<usage_windows, workerVars>>
    BY <1>6 DEF CommitBatch
  <2>4. JobProgress' /\ DeleteNeverMisses'
    BY <2>1, <2>3 DEF HoursInv, JobProgress, DeleteNeverMisses
  <2>5. PendingSumsAreExact'
    BY <2>1, <2>3 DEF HoursInv, PendingSumsAreExact
  <2>6. CleanHoursAreExact'
    BY <2>2, <2>3 DEF HoursInv, CleanHoursAreExact
  <2> QED BY <2>4, <2>5, <2>6 DEF HoursInv
<1>7. ASSUME NEW p \in Session, RollbackBatch(p)
      PROVE  HoursInv'
  BY <1>1, <1>7 DEF RollbackBatch
<1>8. ASSUME NEW w \in Worker, SelectDirty(w)
      PROVE  HoursInv'
  <2>1. PICK S \in SUBSET FreeSlots :
          /\ held' = [held EXCEPT ![w] = S]
          /\ todo' = [todo EXCEPT ![w] = S]
          /\ seenGen' = [seenGen EXCEPT ![w] =
                            [s \in Slot |-> IF s \in S THEN dirty_hours[s] ELSE 0]]
    BY <1>8 DEF SelectDirty
  <2>2. /\ wpc[w] = "idle" /\ wpc' = [wpc EXCEPT ![w] = "sum"]
        /\ UNCHANGED <<tables, current, sums, dropped>>
    BY <1>8 DEF SelectDirty
  <2>3. /\ held'[w] = S /\ todo'[w] = S /\ dropped'[w] = {} /\ wpc'[w] = "sum"
        /\ \A s \in S : /\ s \in Slot /\ dirty_hours[s] > 0
                        /\ seenGen'[w][s] = dirty_hours[s]
    BY <2>1, <2>2 DEF FreeSlots, Free, HoursInv, JobProgress, TypeOK
  <2>4. \A v \in Worker : v # w =>
           /\ held'[v] = held[v] /\ todo'[v] = todo[v] /\ wpc'[v] = wpc[v]
           /\ seenGen'[v] = seenGen[v]
    BY <2>1, <2>2 DEF TypeOK
  <2>5. JobProgress'
    BY <2>2, <2>3, <2>4 DEF HoursInv, JobProgress
  <2>6. DeleteNeverMisses'
    BY <2>2, <2>3, <2>4 DEF HoursInv, DeleteNeverMisses
  <2>7. PendingSumsAreExact'
    BY <2>2, <2>3, <2>4 DEF HoursInv, PendingSumsAreExact
  <2>8. CleanHoursAreExact'
    BY <2>2 DEF HoursInv, CleanHoursAreExact
  <2> QED BY <2>5, <2>6, <2>7, <2>8 DEF HoursInv
<1>9. ASSUME NEW w \in Worker, SumHour(w)
      PROVE  HoursInv'
  <2>1. PICK s \in todo[w] :
          /\ current' = [current EXCEPT ![w] = s]
          /\ todo' = [todo EXCEPT ![w] = @ \ {s}]
          /\ sums' = [sums EXCEPT ![w][s] = HourUnits(usage_events, s)]
    BY <1>9 DEF SumHour
  <2>2. /\ wpc[w] = "sum" /\ wpc' = [wpc EXCEPT ![w] = "rewrite"]
        /\ UNCHANGED <<tables, held, seenGen, dropped>>
    BY <1>9 DEF SumHour
  <2>3. /\ s \in held[w] /\ s \in Slot
        /\ current'[w] = s /\ todo'[w] = todo[w] \ {s} /\ wpc'[w] = "rewrite"
        /\ sums'[w][s] = HourUnits(usage_events, s)
        /\ \A t \in Slot : t # s => sums'[w][t] = sums[w][t]
    BY <2>1, <2>2 DEF HoursInv, JobProgress, TypeOK
  <2>4. \A v \in Worker : v # w =>
           /\ current'[v] = current[v] /\ todo'[v] = todo[v] /\ wpc'[v] = wpc[v]
           /\ sums'[v] = sums[v]
    BY <2>1, <2>2 DEF TypeOK
  <2>5. JobProgress'
    BY <2>1, <2>2, <2>3, <2>4 DEF HoursInv, JobProgress
  <2>6. DeleteNeverMisses'
    BY <2>2 DEF HoursInv, DeleteNeverMisses
  <2>7. PendingSumsAreExact'
    <3> SUFFICES ASSUME NEW v \in Worker, NEW t \in held[v], t \notin todo'[v]
                 PROVE  sums'[v][t] = HourUnits(usage_events, t)
      BY <2>2 DEF PendingSumsAreExact
    <3>1. CASE v = w /\ t = s
      BY <2>3, <3>1
    <3>2. CASE v = w /\ t # s
      <4>1. t \in Slot /\ t \notin todo[w]
        BY <2>3, <3>2 DEF TypeOK
      <4> QED BY <2>3, <3>2, <4>1 DEF HoursInv, PendingSumsAreExact
    <3>3. CASE v # w
      BY <2>4, <3>3 DEF HoursInv, PendingSumsAreExact
    <3> QED BY <3>1, <3>2, <3>3
  <2>8. CleanHoursAreExact'
    BY <2>2 DEF HoursInv, CleanHoursAreExact
  <2> QED BY <2>5, <2>6, <2>7, <2>8 DEF HoursInv
<1>10. ASSUME NEW w \in Worker, RewriteHour(w)
       PROVE  HoursInv'
  <2>1. /\ wpc[w] = "rewrite" /\ wpc' = [wpc EXCEPT ![w] = "sum"]
        /\ UNCHANGED <<tables, held, todo, seenGen, current, sums>>
    BY <1>10 DEF RewriteHour
  <2>2. current[w] \in held[w] \ todo[w]
    BY <2>1 DEF HoursInv, JobProgress
  <2>3. dirty_hours[current[w]] = seenGen[w][current[w]]
    BY <2>2 DEF HoursInv, DeleteNeverMisses
  <2>4. dropped' = [dropped EXCEPT ![w] = @ \cup {current[w]}]
    BY <1>10, <2>3 DEF RewriteHour
  <2>5. /\ dropped'[w] = dropped[w] \cup {current[w]} /\ wpc'[w] = "sum"
        /\ \A v \in Worker : v # w => dropped'[v] = dropped[v] /\ wpc'[v] = wpc[v]
    BY <2>1, <2>4 DEF TypeOK
  <2>6. JobProgress'
    BY <2>1, <2>2, <2>5 DEF HoursInv, JobProgress
  <2>7. DeleteNeverMisses' /\ PendingSumsAreExact' /\ CleanHoursAreExact'
    BY <2>1 DEF HoursInv, DeleteNeverMisses, PendingSumsAreExact, CleanHoursAreExact
  <2> QED BY <2>6, <2>7 DEF HoursInv
<1>11. ASSUME NEW w \in Worker, EndJob(w)
       PROVE  /\ wpc'[w] = "idle" /\ held'[w] = {} /\ todo'[w] = {} /\ dropped'[w] = {}
              /\ \A v \in Worker : v # w =>
                   /\ wpc'[v] = wpc[v] /\ held'[v] = held[v] /\ todo'[v] = todo[v]
                   /\ seenGen'[v] = seenGen[v] /\ current'[v] = current[v]
                   /\ sums'[v] = sums[v] /\ dropped'[v] = dropped[v]
  BY <1>11 DEF EndJob, TypeOK
<1>12. ASSUME NEW w \in Worker, CommitHours(w)
       PROVE  HoursInv'
  <2>1. EndJob(w) /\ usage_events' = usage_events
    BY <1>12 DEF CommitHours
  <2>2. \A v \in Worker : v # w =>
           \A s \in held[v] : s \in Slot /\ dirty_hours'[s] = dirty_hours[s]
    BY <1>12, CommitHoursEffect DEF RowLocksExclusive, TypeOK
  <2>3. JobProgress'
    BY <1>11, <2>1, <2>2 DEF HoursInv, JobProgress
  <2>4. DeleteNeverMisses'
    BY <1>11, <2>1, <2>2 DEF HoursInv, DeleteNeverMisses
  <2>5. PendingSumsAreExact'
    BY <1>11, <2>1 DEF HoursInv, PendingSumsAreExact
  <2>6. CleanHoursAreExact'
    <3> SUFFICES ASSUME NEW s \in Slot, dirty_hours'[s] = 0
                 PROVE  usage_windows'[s] = HourUnits(usage_events, s)
      BY <2>1 DEF CleanHoursAreExact
    <3>1. CASE s \in held[w]
      BY <1>12, <3>1, CommitHoursEffect
    <3>2. CASE s \notin held[w]
      BY <1>12, <3>2, CommitHoursEffect DEF HoursInv, CleanHoursAreExact
    <3> QED BY <3>1, <3>2
  <2> QED BY <2>3, <2>4, <2>5, <2>6 DEF HoursInv
<1>13. ASSUME NEW w \in Worker, RollbackHours(w)
       PROVE  HoursInv'
  <2>1. EndJob(w) /\ UNCHANGED tables
    BY <1>13 DEF RollbackHours
  <2>2. JobProgress'
    BY <1>11, <2>1 DEF HoursInv, JobProgress
  <2>3. DeleteNeverMisses' /\ PendingSumsAreExact' /\ CleanHoursAreExact'
    BY <1>11, <2>1
    DEF HoursInv, DeleteNeverMisses, PendingSumsAreExact, CleanHoursAreExact
  <2> QED BY <2>2, <2>3 DEF HoursInv
<1>14. CASE UNCHANGED vars
  BY <1>1, <1>14 DEF vars
<1> QED
  BY <1>2, <1>3, <1>4, <1>5, <1>6, <1>7, <1>8, <1>9, <1>10, <1>12, <1>13, <1>14
  DEF Next, SessionStep, WorkerStep, BreakDeadlock

(* The hours layer holds always. *)
LEMMA HoursCorrect == Spec => []HoursInv
<1>1. Init => HoursInv
  BY HourUnitsOfNone
  DEF Init, HoursInv, JobProgress, DeleteNeverMisses, PendingSumsAreExact,
      CleanHoursAreExact, NoMarks
<1> QED BY <1>1, TypeCorrect, LocksExclusive, MarksCorrect, HoursStep, PTL DEF Spec

\* An hour that is not marked dirty always shows the sum of its events.
THEOREM CleanHoursExact == Spec => []CleanHoursAreExact
<1>1. HoursInv => CleanHoursAreExact
  BY DEF HoursInv
<1> QED BY <1>1, HoursCorrect, PTL

\* The gen a worker read is always the gen of the row it deletes.
THEOREM DeletesHit == Spec => []DeleteNeverMisses
<1>1. HoursInv => DeleteNeverMisses
  BY DEF HoursInv
<1> QED BY <1>1, HoursCorrect, PTL

\* A sum a worker has read stays right until it is published.
THEOREM PendingSumsExact == Spec => []PendingSumsAreExact
<1>1. HoursInv => PendingSumsAreExact
  BY DEF HoursInv
<1> QED BY <1>1, HoursCorrect, PTL

-----------------------------------------------------------------------------
(* Windows over time *)

\* Windows stay below the sums, and grow, in every step.
LEMMA WindowsStep ==
  /\ TypeOK /\ MarksCoverInserts /\ HoursInv /\ WindowsNeverOvershoot
  /\ [Next]_vars
  => /\ WindowsNeverOvershoot'
     /\ \A s \in Slot : usage_windows'[s] >= usage_windows[s]
<1> SUFFICES ASSUME TypeOK, MarksCoverInserts, HoursInv, WindowsNeverOvershoot,
                    [Next]_vars, NEW s \in Slot
             PROVE  /\ usage_windows'[s] <= HourUnits(usage_events', s)
                    /\ usage_windows'[s] >= usage_windows[s]
  BY DEF WindowsNeverOvershoot
<1> USE DEF tables, sessionVars, workerVars
<1>1. /\ usage_windows[s] \in Nat
      /\ HourUnits(usage_events, s) \in Nat
      /\ usage_windows[s] <= HourUnits(usage_events, s)
  BY HourUnitsType DEF WindowsNeverOvershoot, TypeOK
<1>2. CASE UNCHANGED tables
  BY <1>1, <1>2
<1>3. ASSUME NEW p \in Session, NEW answered \in BOOLEAN, CommitBatch(p, answered)
      PROVE  /\ usage_windows'[s] <= HourUnits(usage_events', s)
             /\ usage_windows'[s] >= usage_windows[s]
  <2>1. usage_windows' = usage_windows /\ usage_events' = usage_events \cup inserted[p]
    BY <1>3 DEF CommitBatch
  <2>2. HourUnits(usage_events, s) <= HourUnits(usage_events', s)
    BY <2>1, HourUnitsMonotone DEF TypeOK
  <2>3. HourUnits(usage_events', s) \in Nat
    BY <2>1, FS_Union, HourUnitsType DEF TypeOK
  <2> QED BY <1>1, <2>1, <2>2, <2>3
<1>4. ASSUME NEW w \in Worker, CommitHours(w)
      PROVE  /\ usage_windows'[s] <= HourUnits(usage_events', s)
             /\ usage_windows'[s] >= usage_windows[s]
  <2>1. usage_events' = usage_events
    BY <1>4 DEF CommitHours
  <2>2. usage_windows'[s] \in {HourUnits(usage_events, s), usage_windows[s]}
    BY <1>4, CommitHoursEffect
  <2> QED BY <1>1, <2>1, <2>2
<1> QED
  BY <1>2, <1>3, <1>4
  DEF Next, SessionStep, WorkerStep, BreakDeadlock, Begin, SkipDuplicate,
      InsertEvent, MarkDirty, RollbackBatch, SelectDirty, SumHour, RewriteHour,
      RollbackHours, vars

(* No window, nothing overshoots. *)
LEMMA WindowsInit == Init => WindowsNeverOvershoot
BY HourUnitsOfNone DEF Init, WindowsNeverOvershoot

\* A window never shows a unit that no stored event carries.
THEOREM WindowsBounded == Spec => []WindowsNeverOvershoot
<1> QED BY WindowsInit, WindowsStep, TypeCorrect, MarksCorrect, HoursCorrect, PTL
        DEF Spec

\* No step makes a published window smaller.
THEOREM WindowsGrow == Spec => WindowsNeverShrink
<1>1. /\ TypeOK /\ MarksCoverInserts /\ HoursInv /\ WindowsNeverOvershoot
      /\ [Next]_vars
      => [\A s \in Slot : usage_windows'[s] >= usage_windows[s]]_vars
  BY WindowsStep
<1> QED BY <1>1, WindowsBounded, TypeCorrect, MarksCorrect, HoursCorrect, PTL
        DEF Spec, WindowsNeverShrink

-----------------------------------------------------------------------------
(* Request ids *)

(* One case per action of Next. *)
LEMMA RowsStep == TypeOK /\ OneRowPerRequest /\ [Next]_vars => OneRowPerRequest'
<1> SUFFICES ASSUME TypeOK, OneRowPerRequest, [Next]_vars
             PROVE  OneRowPerRequest'
  OBVIOUS
<1> USE DEF tables, sessionVars, workerVars
<1>1. CASE UNCHANGED <<usage_events, inserted>>
  BY <1>1 DEF OneRowPerRequest
<1>2. ASSUME NEW p \in Session, InsertEvent(p)
      PROVE  OneRowPerRequest'
  <2>1. /\ inserted'[p] = inserted[p] \cup {Current(p)}
        /\ \A q \in Session : q # p => inserted'[q] = inserted[q]
        /\ usage_events' = usage_events
    BY <1>2 DEF InsertEvent, TypeOK
  <2>2. /\ Current(p).rid \notin Rids(usage_events)
        /\ Current(p).rid \notin Rids(inserted[p])
        /\ \A q \in Session : Current(p).rid \notin Rids(inserted[q])
    BY <1>2 DEF InsertEvent, AlreadyStored, InsertersOf, Rids
  <2>3. Rids(inserted'[p]) = Rids(inserted[p]) \cup {Current(p).rid}
    BY <2>1 DEF Rids
  <2>4. UniqueRids(inserted'[p])
    BY <2>1, <2>2 DEF OneRowPerRequest, UniqueRids, Rids
  <2> QED BY <2>1, <2>2, <2>3, <2>4 DEF OneRowPerRequest
<1>3. ASSUME NEW p \in Session, EndRequest(p)
      PROVE  /\ Rids(inserted'[p]) = {} /\ UniqueRids(inserted'[p])
             /\ \A q \in Session : q # p => inserted'[q] = inserted[q]
  BY <1>3 DEF EndRequest, Rids, UniqueRids, TypeOK
<1>4. ASSUME NEW p \in Session, NEW answered \in BOOLEAN, CommitBatch(p, answered)
      PROVE  OneRowPerRequest'
  <2>1. EndRequest(p) /\ usage_events' = usage_events \cup inserted[p]
    BY <1>4 DEF CommitBatch
  <2>2. Rids(usage_events') = Rids(usage_events) \cup Rids(inserted[p])
    BY <2>1 DEF Rids
  <2>3. UniqueRids(usage_events')
    BY <2>1 DEF OneRowPerRequest, UniqueRids, Rids
  <2> QED BY <1>3, <2>1, <2>2, <2>3 DEF OneRowPerRequest
<1>5. ASSUME NEW p \in Session, RollbackBatch(p)
      PROVE  OneRowPerRequest'
  <2>1. EndRequest(p) /\ usage_events' = usage_events
    BY <1>5 DEF RollbackBatch
  <2> QED BY <1>3, <2>1 DEF OneRowPerRequest
<1> QED
  BY <1>1, <1>2, <1>4, <1>5
  DEF Next, SessionStep, WorkerStep, BreakDeadlock, Begin, SkipDuplicate,
      MarkDirty, SelectDirty, SumHour, RewriteHour, CommitHours, RollbackHours, vars

\* Retries and concurrent duplicates never store an id twice.
THEOREM RowsUnique == Spec => []OneRowPerRequest
<1>1. Init => OneRowPerRequest
  BY DEF Init, OneRowPerRequest, UniqueRids, Rids
<1> QED BY <1>1, TypeCorrect, RowsStep, PTL DEF Spec

-----------------------------------------------------------------------------
(* What a 200 means *)

AckInv == PassedIsStored /\ AckedRequestIsStored

Stored(p) == Rids(usage_events \cup inserted[p])
Passed(p) == pc[p] # "idle" =>
                \A i \in 1 .. Len(batch[p]) :
                   i < pos[p] => batch[p][i].rid \in Stored(p)

\* A session that touches only its own transaction keeps AckInv if it keeps
\* its own part of it.
LEMMA AckLocal ==
  ASSUME TypeOK, AckInv, NEW p \in Session,
         acked' = acked, usage_events' = usage_events,
         \A q \in Session : q # p =>
            /\ pc'[q] = pc[q] /\ batch'[q] = batch[q]
            /\ pos'[q] = pos[q] /\ inserted'[q] = inserted[q],
         Passed(p)'
  PROVE  AckInv'
<1>1. \A q \in Session : q # p => Passed(q)'
  BY DEF AckInv, PassedIsStored, Passed, Stored
<1>2. PassedIsStored'
  BY <1>1 DEF PassedIsStored, Passed, Stored
<1> QED BY <1>2 DEF AckInv, AckedRequestIsStored

(* One case per action of Next. *)
LEMMA AckStep == TypeOK /\ MarksCoverInserts /\ AckInv /\ [Next]_vars => AckInv'
<1> SUFFICES ASSUME TypeOK, MarksCoverInserts, AckInv, [Next]_vars
             PROVE  AckInv'
  OBVIOUS
<1> USE DEF tables, sessionVars, workerVars
<1>1. \A p \in Session : Passed(p)
  BY DEF AckInv, PassedIsStored, Passed, Stored
<1>2. ASSUME NEW p \in Session, pc[p] # "idle", batch'[p] = batch[p],
             pos'[p] = pos[p] + 1, Stored(p) \subseteq Stored(p)',
             batch[p][pos[p]].rid \in Stored(p)'
      PROVE  Passed(p)'
  <2>1. pos[p] \in Nat /\ Len(batch[p]) \in Nat
    BY DEF TypeOK
  <2>2. \A i \in 1 .. Len(batch[p]) : i < pos[p] + 1 => i < pos[p] \/ i = pos[p]
    BY <2>1
  <2> QED BY <1>1, <1>2, <2>2 DEF Passed
<1>3. ASSUME NEW p \in Session, NEW b \in Offered, Begin(p, b)
      PROVE  AckInv'
  <2>1. pos'[p] = 1
    BY <1>3 DEF Begin, TypeOK
  <2>2. Passed(p)'
    BY <2>1 DEF Passed
  <2>3. \A q \in Session : q # p =>
            /\ pc'[q] = pc[q] /\ batch'[q] = batch[q]
            /\ pos'[q] = pos[q] /\ inserted'[q] = inserted[q]
    BY <1>3 DEF Begin, TypeOK
  <2>4. acked' = acked /\ usage_events' = usage_events
    BY <1>3 DEF Begin
  <2> QED BY <2>2, <2>3, <2>4, AckLocal
<1>4. ASSUME NEW p \in Session, SkipDuplicate(p)
      PROVE  AckInv'
  <2>1. /\ pc[p] = "insert" /\ batch'[p] = batch[p]
        /\ pos'[p] = pos[p] + 1 /\ Stored(p)' = Stored(p)
        /\ batch[p][pos[p]].rid \in Stored(p)
    BY <1>4 DEF SkipDuplicate, AlreadyStored, Current, Stored, TypeOK
  <2>2. Passed(p)'
    BY <1>2, <2>1
  <2>3. \A q \in Session : q # p =>
            /\ pc'[q] = pc[q] /\ batch'[q] = batch[q]
            /\ pos'[q] = pos[q] /\ inserted'[q] = inserted[q]
    BY <1>4 DEF SkipDuplicate, TypeOK
  <2>4. acked' = acked /\ usage_events' = usage_events
    BY <1>4 DEF SkipDuplicate
  <2> QED BY <2>2, <2>3, <2>4, AckLocal
<1>5. ASSUME NEW p \in Session, InsertEvent(p)
      PROVE  AckInv'
  <2>1. /\ pc[p] = "insert" /\ batch'[p] = batch[p] /\ pos'[p] = pos[p]
        /\ Stored(p) \subseteq Stored(p)'
    BY <1>5 DEF InsertEvent, Stored, Rids, TypeOK
  <2>2. Passed(p)'
    BY <1>1, <2>1 DEF Passed
  <2>3. \A q \in Session : q # p =>
            /\ pc'[q] = pc[q] /\ batch'[q] = batch[q]
            /\ pos'[q] = pos[q] /\ inserted'[q] = inserted[q]
    BY <1>5 DEF InsertEvent, TypeOK
  <2>4. acked' = acked /\ usage_events' = usage_events
    BY <1>5 DEF InsertEvent
  <2> QED BY <2>2, <2>3, <2>4, AckLocal
<1>6. ASSUME NEW p \in Session, MarkDirty(p)
      PROVE  AckInv'
  <2>1. Current(p) \in inserted[p]
    BY <1>6 DEF MarkDirty, MarksCoverInserts
  <2>2. /\ pc[p] = "mark" /\ batch'[p] = batch[p]
        /\ pos'[p] = pos[p] + 1 /\ Stored(p)' = Stored(p)
        /\ batch[p][pos[p]].rid \in Stored(p)
    BY <1>6, <2>1 DEF MarkDirty, Current, Stored, Rids, TypeOK
  <2>3. Passed(p)'
    BY <1>2, <2>2
  <2>4. \A q \in Session : q # p =>
            /\ pc'[q] = pc[q] /\ batch'[q] = batch[q]
            /\ pos'[q] = pos[q] /\ inserted'[q] = inserted[q]
    BY <1>6 DEF MarkDirty, TypeOK
  <2>5. acked' = acked /\ usage_events' = usage_events
    BY <1>6 DEF MarkDirty
  <2> QED BY <2>3, <2>4, <2>5, AckLocal
<1>7. ASSUME NEW p \in Session, EndRequest(p)
      PROVE  /\ Passed(p)'
             /\ \A q \in Session : q # p =>
                  /\ pc'[q] = pc[q] /\ batch'[q] = batch[q]
                  /\ pos'[q] = pos[q] /\ inserted'[q] = inserted[q]
  BY <1>7 DEF EndRequest, Passed, TypeOK
<1>8. ASSUME NEW p \in Session, NEW answered \in BOOLEAN, CommitBatch(p, answered)
      PROVE  AckInv'
  <2>1. EndRequest(p) /\ usage_events' = usage_events \cup inserted[p]
    BY <1>8 DEF CommitBatch
  <2>2. \A q \in Session : Passed(q)'
    BY <1>1, <1>7, <2>1 DEF Passed, Stored, Rids
  <2>3. \A i \in 1 .. Len(batch[p]) : batch[p][i].rid \in Rids(usage_events')
    <3>1. pc[p] = "insert" /\ pos[p] > Len(batch[p])
      BY <1>8 DEF CommitBatch
    <3>2. pos[p] \in Nat /\ Len(batch[p]) \in Nat
      BY DEF TypeOK
    <3>3. \A i \in 1 .. Len(batch[p]) : i < pos[p]
      BY <3>1, <3>2
    <3>4. Stored(p) = Rids(usage_events')
      BY <2>1 DEF Stored
    <3>5. Passed(p)
      BY <1>1
    <3> QED BY <3>1, <3>3, <3>4, <3>5 DEF Passed
  <2>4. acked' \subseteq acked \cup {batch[p][i] : i \in 1 .. Len(batch[p])}
    BY <1>8 DEF CommitBatch
  <2>5. AckedRequestIsStored'
    <3>1. \A e \in acked : e.rid \in Rids(usage_events')
      BY <2>1 DEF AckInv, AckedRequestIsStored, Rids
    <3>2. \A e \in acked' : e.rid \in Rids(usage_events')
      BY <2>3, <2>4, <3>1
    <3> QED BY <3>2 DEF AckedRequestIsStored, Rids
  <2>6. PassedIsStored'
    BY <2>2 DEF PassedIsStored, Passed, Stored
  <2> QED BY <2>5, <2>6 DEF AckInv
<1>9. ASSUME NEW p \in Session, RollbackBatch(p)
      PROVE  AckInv'
  <2>1. EndRequest(p) /\ acked' = acked /\ usage_events' = usage_events
    BY <1>9 DEF RollbackBatch
  <2> QED BY <1>7, <2>1, AckLocal
<1>10. CASE UNCHANGED <<usage_events, sessionVars, acked>>
  BY <1>10 DEF AckInv, PassedIsStored, AckedRequestIsStored
<1> QED
  BY <1>3, <1>4, <1>5, <1>6, <1>8, <1>9, <1>10
  DEF Next, SessionStep, WorkerStep, BreakDeadlock, SelectDirty, SumHour,
      RewriteHour, CommitHours, RollbackHours, vars

\* Every request id of a batch answered 200 is in the table.
THEOREM AckedIsStored == Spec => []AckedRequestIsStored
<1>1. Init => AckInv
  BY DEF Init, AckInv, PassedIsStored, AckedRequestIsStored, Rids
<1>2. AckInv => AckedRequestIsStored
  BY DEF AckInv
<1> QED BY <1>1, <1>2, TypeCorrect, MarksCorrect, AckStep, PTL DEF Spec

-----------------------------------------------------------------------------
(* Metering implements Meter *)

\* The instance has copies of the operators of Usage: they are the same.
LEMMA AbstractUsage ==
  /\ Abstract!Slot = Slot
  /\ \A e : Abstract!SlotOf(e) = SlotOf(e)
  /\ \A rows : Abstract!Rids(rows) = Rids(rows)
  /\ \A rows : Abstract!UniqueRids(rows) = UniqueRids(rows)
  /\ \A rows, s : Abstract!HourUnits(rows, s) = HourUnits(rows, s)
<1>1. \A e : Abstract!SlotOf(e) = SlotOf(e)
  BY DEF SlotOf, Abstract!SlotOf
<1>2. Abstract!Slot = Slot
  BY <1>1 DEF Slot, Abstract!Slot
<1>3. \A rows : Abstract!Rids(rows) = Rids(rows)
  BY DEF Rids, Abstract!Rids
<1>4. \A rows : Abstract!UniqueRids(rows) = UniqueRids(rows)
  BY DEF UniqueRids, Abstract!UniqueRids
<1>5. \A rows, s : Abstract!HourUnits(rows, s) = HourUnits(rows, s)
  <2>1. \A rows, s : Abstract!RowsOf(rows, s) = RowsOf(rows, s)
    BY <1>1 DEF RowsOf, Abstract!RowsOf
  <2>2. \A rows, s : Abstract!UnitTokens(rows, s) = UnitTokens(rows, s)
    BY <2>1 DEF UnitTokens, Abstract!UnitTokens
  <2>3. ASSUME NEW rows, NEW s
        PROVE  Abstract!HourUnits(rows, s) = HourUnits(rows, s)
    <3>1. Abstract!UnitTokens(rows, s) = UnitTokens(rows, s)
      BY <2>2
    <3>2. Abstract!Cardinality(UnitTokens(rows, s)) = Cardinality(UnitTokens(rows, s))
      BY DEF Cardinality, Abstract!Cardinality, IsFiniteSet, Abstract!IsFiniteSet
    <3> QED BY <3>1, <3>2 DEF HourUnits, Abstract!HourUnits
  <2> QED BY <2>3
<1> QED BY <1>1, <1>2, <1>3, <1>4, <1>5

(* The initial states map to those of Meter. *)
LEMMA AbstractInit == Init => Abstract!Init
<1> SUFFICES ASSUME Init PROVE Abstract!Init
  OBVIOUS
<1>1. {s \in Slot : dirty_hours[s] > 0} = {}
  BY DEF Init
<1> QED BY <1>1, AbstractUsage DEF Init, Abstract!Init

\* The commit of a batch that stored rows records them; the commit of a batch
\* of duplicates changes nothing.
LEMMA CommitBatchRecords ==
  ASSUME TypeOK, MarksCoverInserts, OneRowPerRequest,
         NEW p \in Session, NEW answered \in BOOLEAN, CommitBatch(p, answered)
  PROVE  [Abstract!Next]_(Abstract!meterVars)
<1> DEFINE Stale == {s \in Slot : dirty_hours[s] > 0}
           I == inserted[p]
<1>1. /\ pc[p] = "insert"
      /\ usage_events' = usage_events \cup I
      /\ usage_windows' = usage_windows
      /\ dirty_hours' = [s \in Slot |-> IF marked[p][s] > 0 THEN marked[p][s]
                                                            ELSE dirty_hours[s]]
  BY DEF CommitBatch
<1>2. \A s \in Slot : marked[p][s] > 0 <=> \E r \in I : SlotOf(r) = s
  BY <1>1 DEF MarksCoverInserts
<1>3. I \in SUBSET Event
  BY DEF TypeOK
<1>4. \A r \in I : SlotOf(r) \in Slot
  BY <1>3 DEF Slot
<1>5. Stale' = Stale \cup {SlotOf(e) : e \in I}
  BY <1>1, <1>2, <1>4
<1>6. UniqueRids(I) /\ Rids(I) \cap Rids(usage_events) = {}
  BY DEF OneRowPerRequest
<1>7. CASE I = {}
  BY <1>1, <1>5, <1>7 DEF Abstract!meterVars
<1>8. CASE I # {}
  <2>1. PICK E : E = I
    OBVIOUS
  <2>2. Abstract!Record(E)
    BY <1>1, <1>5, <1>6, <2>1, AbstractUsage DEF Abstract!Record
  <2>3. E \in SUBSET Event /\ E # {}
    BY <1>3, <1>8, <2>1
  <2> QED BY <2>2, <2>3 DEF Abstract!Next
<1> QED BY <1>7, <1>8

\* The commit of a job refreshes exactly the hours it held.
LEMMA CommitHoursRefreshes ==
  ASSUME TypeOK, HoursInv, NEW w \in Worker, CommitHours(w)
  PROVE  [Abstract!Next]_(Abstract!meterVars)
<1> DEFINE Stale == {s \in Slot : dirty_hours[s] > 0}
           H == held[w]
<1>1. H \in SUBSET Stale
  BY DEF HoursInv, JobProgress, TypeOK
<1>2. usage_events' = usage_events
  BY DEF CommitHours
<1>3. Stale' = Stale \ H
  BY CommitHoursEffect
<1>4. usage_windows' = [s \in Slot |-> IF s \in H THEN HourUnits(usage_events, s)
                                                  ELSE usage_windows[s]]
  BY CommitHoursEffect DEF CommitHours
<1>5. CASE H = {}
  <2>1. usage_windows' = usage_windows
    BY <1>4, <1>5 DEF TypeOK
  <2> QED BY <1>2, <1>3, <1>5, <2>1 DEF Abstract!meterVars
<1>6. CASE H # {}
  <2>1. PICK S : S = H
    OBVIOUS
  <2>2. Abstract!Refresh(S)
    BY <1>2, <1>3, <1>4, <1>6, <2>1, AbstractUsage DEF Abstract!Refresh
  <2>3. S \in SUBSET Stale
    BY <1>1, <2>1
  <2> QED BY <2>2, <2>3 DEF Abstract!Next
<1> QED BY <1>5, <1>6

(* Every step is a step of Meter or a stutter. *)
LEMMA AbstractStep ==
  TypeOK /\ MarksCoverInserts /\ HoursInv /\ OneRowPerRequest /\ [Next]_vars
     => [Abstract!Next]_(Abstract!meterVars)
<1> SUFFICES ASSUME TypeOK, MarksCoverInserts, HoursInv, OneRowPerRequest,
                    [Next]_vars
             PROVE  [Abstract!Next]_(Abstract!meterVars)
  OBVIOUS
<1>1. CASE UNCHANGED tables
  BY <1>1 DEF tables, Abstract!meterVars
<1>2. CASE \E p \in Session : \E answered \in BOOLEAN : CommitBatch(p, answered)
  BY <1>2, CommitBatchRecords
<1>3. CASE \E w \in Worker : CommitHours(w)
  BY <1>3, CommitHoursRefreshes
<1> QED
  BY <1>1, <1>2, <1>3
  DEF Next, SessionStep, WorkerStep, BreakDeadlock, Begin, SkipDuplicate,
      InsertEvent, MarkDirty, RollbackBatch, SelectDirty, SumHour, RewriteHour,
      RollbackHours, vars, tables

\* The pipeline of transactions, locks, retries and crashes implements Meter.
THEOREM ImplementsMeter == Spec => MeterSpec
<1> QED BY AbstractInit, AbstractStep, TypeCorrect, MarksCorrect, HoursCorrect,
           RowsUnique, PTL DEF Spec, MeterSpec, Abstract!Spec
============================================================================
