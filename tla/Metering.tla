------------------------------ MODULE Metering ------------------------------
(***************************************************************************)
(* The metering pipeline at the grain of SQL statements.                   *)
(*                                                                         *)
(* Sessions run InsertBatch (internal/postgres/events.go): one transaction *)
(* that, per event, inserts the row and marks its hour dirty.  Workers run *)
(* ProcessDirtyHours (internal/postgres/hours.go): one transaction that    *)
(* locks the oldest dirty hours, recomputes their windows and deletes the  *)
(* dirty rows.  Both run at Postgres' default isolation, Read Committed:   *)
(* a statement sees what was committed before it began and what its own    *)
(* transaction wrote, and a write of a row another open transaction wrote  *)
(* or locked waits until that transaction ends.                            *)
(*                                                                         *)
(* Uncommitted writes are kept per transaction and folded into the tables  *)
(* by the commit.  Row locks are not variables of their own: a row is      *)
(* locked exactly while an open transaction has written or selected it.    *)
(***************************************************************************)
EXTENDS Usage, Sequences

CONSTANTS Session,         \* API requests that can be in progress at once
          Worker,          \* worker processes
          Offered,         \* the request bodies clients send (may be resent)
          MaxEventBatch,   \* domain.MaxEventBatch
          JobLimit,        \* domain.DefaultHourJobLimit
          MaxUnits         \* the largest sum an int64 holds

ASSUME OfferedAssumption == Offered \subseteq Seq(Event)
ASSUME LimitAssumption == MaxEventBatch \in Nat /\ JobLimit \in Nat \ {0}
ASSUME WidthAssumption == MaxUnits \in Nat /\ \A e \in Event : e.units <= MaxUnits

VARIABLES
    \* committed tables
    usage_events,    \* set of rows, primary key request_id
    dirty_hours,     \* slot -> gen of its row, 0 when there is no row
    usage_windows,   \* slot -> units of its row, 0 when there is no row
    \* one InsertBatch transaction per session
    pc,              \* "idle", "insert" or "mark": the statement that is next
    batch,           \* the request being stored
    pos,             \* index of the event being stored
    inserted,        \* rows inserted and not committed
    marked,          \* slot -> gen upserted and not committed, 0 when untouched
    \* one ProcessDirtyHours transaction per worker
    wpc,             \* "idle", "sum" or "rewrite"
    held,            \* dirty rows locked by SELECT ... FOR UPDATE
    todo,            \* the held rows the loop has not reached
    seenGen,         \* gen read for each held row
    current,         \* the row the loop is at
    sums,            \* slot -> SUM(units) read for it, then upserted
    dropped,         \* dirty rows deleted and not committed
    \* what clients know
    acked            \* events of the requests answered 200

tables == <<usage_events, dirty_hours, usage_windows>>
sessionVars == <<pc, batch, pos, inserted, marked>>
workerVars == <<wpc, held, todo, seenGen, current, sums, dropped>>
vars == <<tables, sessionVars, workerVars, acked>>

NoMarks == [s \in Slot |-> 0]
NoSlot == <<>>

Init == /\ usage_events = {}
        /\ dirty_hours = [s \in Slot |-> 0]
        /\ usage_windows = [s \in Slot |-> 0]
        /\ pc = [p \in Session |-> "idle"]
        /\ batch = [p \in Session |-> <<>>]
        /\ pos = [p \in Session |-> 1]
        /\ inserted = [p \in Session |-> {}]
        /\ marked = [p \in Session |-> NoMarks]
        /\ wpc = [w \in Worker |-> "idle"]
        /\ held = [w \in Worker |-> {}]
        /\ todo = [w \in Worker |-> {}]
        /\ seenGen = [w \in Worker |-> NoMarks]
        /\ current = [w \in Worker |-> NoSlot]
        /\ sums = [w \in Worker |-> NoMarks]
        /\ dropped = [w \in Worker |-> {}]
        /\ acked = {}

-----------------------------------------------------------------------------
(* Row locks *)

\* Mutated form of the two lock lookups below: nobody is waited for.
NobodyFor(x) == {}

\* Sessions whose open transaction inserted this request id: a second insert
\* of the id waits on the unique index until they end.
InsertersOf(rid) == {q \in Session : rid \in Rids(inserted[q])}

\* Sessions whose open transaction upserted this dirty row.
MarkersOf(s) == {q \in Session : marked[q][s] > 0}

\* Workers whose open transaction selected this dirty row FOR UPDATE.
HoldersOf(s) == {w \in Worker : s \in held[w]}

-----------------------------------------------------------------------------
(* InsertBatch *)

\* IngestService.Ingest: what is not rejected before the store is called.
Acceptable(b) == /\ Len(b) \in 1 .. MaxEventBatch
                 /\ \A i \in 1 .. Len(b) : b[i].units > 0

Current(p) == batch[p][pos[p]]

\* A request arrives and its transaction begins.
Begin(p, b) ==
    /\ pc[p] = "idle"
    /\ Acceptable(b)
    /\ pc' = [pc EXCEPT ![p] = "insert"]
    /\ batch' = [batch EXCEPT ![p] = b]
    /\ pos' = [pos EXCEPT ![p] = 1]
    /\ UNCHANGED <<tables, inserted, marked, workerVars, acked>>

\* Mutated form: ids are unique per API key instead of globally.
AlreadyStoredForKey(p, e) ==
    \E r \in usage_events \cup inserted[p] : r.rid = e.rid /\ r.key = e.key

\* The id is committed, or is that of an earlier event of the same batch.
AlreadyStored(p, e) == e.rid \in Rids(usage_events \cup inserted[p])

\* Mutated form: an id another open transaction has inserted counts as stored.
SkipDuplicateInFlight(p) ==
    /\ pc[p] = "insert"
    /\ pos[p] <= Len(batch[p])
    /\ AlreadyStored(p, Current(p)) \/ InsertersOf(Current(p).rid) # {}
    /\ pos' = [pos EXCEPT ![p] = @ + 1]
    /\ UNCHANGED <<tables, pc, batch, inserted, marked, workerVars, acked>>

\* Mutated form: no "continue" after a duplicate.
SkipDuplicateFallThrough(p) ==
    /\ pc[p] = "insert"
    /\ pos[p] <= Len(batch[p])
    /\ AlreadyStored(p, Current(p))
    /\ pos' = [pos EXCEPT ![p] = @ + 1]
    /\ pc' = [pc EXCEPT ![p] = "mark"]
    /\ UNCHANGED <<tables, batch, inserted, marked, workerVars, acked>>

\* INSERT INTO usage_events ... ON CONFLICT (request_id) DO NOTHING, no row
\* affected.
SkipDuplicate(p) ==
    /\ pc[p] = "insert"
    /\ pos[p] <= Len(batch[p])
    /\ AlreadyStored(p, Current(p))
    /\ pos' = [pos EXCEPT ![p] = @ + 1]
    /\ UNCHANGED <<tables, pc, batch, inserted, marked, workerVars, acked>>

\* The same statement with one row affected.  It waits while another open
\* transaction has inserted the id.
InsertEvent(p) ==
    /\ pc[p] = "insert"
    /\ pos[p] <= Len(batch[p])
    /\ ~AlreadyStored(p, Current(p))
    /\ InsertersOf(Current(p).rid) = {}
    /\ inserted' = [inserted EXCEPT ![p] = @ \cup {Current(p)}]
    /\ pc' = [pc EXCEPT ![p] = "mark"]
    /\ UNCHANGED <<tables, batch, pos, marked, workerVars, acked>>

\* Mutated form: ON CONFLICT DO NOTHING leaves an existing dirty row alone and
\* does not wait for its lock.
MarkDirtyDoNothing(p) ==
    LET s == SlotOf(Current(p)) IN
    /\ pc[p] = "mark"
    /\ MarkersOf(s) \subseteq {p}
    /\ marked' = IF dirty_hours[s] + marked[p][s] > 0 THEN marked
                 ELSE [marked EXCEPT ![p][s] = 1]
    /\ pos' = [pos EXCEPT ![p] = @ + 1]
    /\ pc' = [pc EXCEPT ![p] = "insert"]
    /\ UNCHANGED <<tables, batch, inserted, workerVars, acked>>

\* INSERT INTO dirty_hours ... ON CONFLICT DO UPDATE SET gen = gen + 1.  It
\* waits while another open transaction has written or locked the row.
MarkDirty(p) ==
    LET s == SlotOf(Current(p)) IN
    /\ pc[p] = "mark"
    /\ MarkersOf(s) \subseteq {p}
    /\ HoldersOf(s) = {}
    /\ marked' = [marked EXCEPT ![p][s] =
                    (IF @ > 0 THEN @ ELSE dirty_hours[s]) + 1]
    /\ pos' = [pos EXCEPT ![p] = @ + 1]
    /\ pc' = [pc EXCEPT ![p] = "insert"]
    /\ UNCHANGED <<tables, batch, inserted, workerVars, acked>>

\* Mutated form: the transaction is never ended and keeps its row locks.
EndRequestLeaking(p) ==
    /\ pc' = [pc EXCEPT ![p] = "idle"]
    /\ batch' = [batch EXCEPT ![p] = <<>>]
    /\ pos' = [pos EXCEPT ![p] = 1]
    /\ inserted' = [inserted EXCEPT ![p] = {}]
    /\ UNCHANGED marked

\* The transaction is over and its uncommitted writes and locks are gone.
EndRequest(p) ==
    /\ pc' = [pc EXCEPT ![p] = "idle"]
    /\ batch' = [batch EXCEPT ![p] = <<>>]
    /\ pos' = [pos EXCEPT ![p] = 1]
    /\ inserted' = [inserted EXCEPT ![p] = {}]
    /\ marked' = [marked EXCEPT ![p] = NoMarks]

\* COMMIT.  The 200 may be lost on its way (answered = FALSE): the client then
\* does not know, and may send the batch again.
CommitBatch(p, answered) ==
    /\ pc[p] = "insert"
    /\ pos[p] > Len(batch[p])
    /\ usage_events' = usage_events \cup inserted[p]
    /\ dirty_hours' = [s \in Slot |-> IF marked[p][s] > 0 THEN marked[p][s]
                                                          ELSE dirty_hours[s]]
    /\ acked' = IF answered
                THEN acked \cup {batch[p][i] : i \in 1 .. Len(batch[p])}
                ELSE acked
    /\ EndRequest(p)
    /\ UNCHANGED <<usage_windows, workerVars>>

\* An error, a cancelled request or a crash at any statement: the deferred
\* Rollback, or the server noticing the lost connection, undoes everything.
RollbackBatch(p) ==
    /\ pc[p] # "idle"
    /\ EndRequest(p)
    /\ UNCHANGED <<tables, workerVars, acked>>

\* Sessions p is waiting for.  Workers wait for nobody (SKIP LOCKED, and the
\* window row is written under the lock of its dirty row), so every cycle of
\* waiting transactions is one of sessions.
WaitsFor(p) ==
    CASE pc[p] = "insert" /\ pos[p] <= Len(batch[p]) ->
            InsertersOf(Current(p).rid) \ {p}
      [] pc[p] = "mark" -> MarkersOf(SlotOf(Current(p))) \ {p}
      [] OTHER -> {}

Deadlocked(p) ==
    \E C \in SUBSET Session :
        /\ p \in C
        /\ \A q \in C : WaitsFor(q) \cap C # {}
        /\ \A q \in C : \E r \in C : q \in WaitsFor(r)

\* The server's deadlock detector cancels a member of a cycle; the client is
\* answered 400 like for any other error of the store.
BreakDeadlock(p) == Deadlocked(p) /\ RollbackBatch(p)

-----------------------------------------------------------------------------
(* ProcessDirtyHours *)

\* The dirty rows a SELECT ... FOR UPDATE SKIP LOCKED can lock.
Free(s) == dirty_hours[s] > 0 /\ MarkersOf(s) = {} /\ HoldersOf(s) = {}
FreeSlots == {s \in Slot : Free(s)}

\* ORDER BY hour_bucket LIMIT: at most JobLimit rows, none of those left out
\* is older than one taken, and fewer than JobLimit only if there are no more.
OldestOf(S, F) == /\ S \subseteq F
                  /\ S # {}
                  /\ IsFiniteSet(S)
                  /\ Cardinality(S) <= JobLimit
                  /\ S # F => Cardinality(S) = JobLimit
                  /\ \A s \in S, t \in F \ S : s[2] <= t[2]

SelectDirty(w) ==
    /\ wpc[w] = "idle"
    /\ \E S \in SUBSET FreeSlots :
          /\ OldestOf(S, FreeSlots)
          /\ held' = [held EXCEPT ![w] = S]
          /\ todo' = [todo EXCEPT ![w] = S]
          /\ seenGen' = [seenGen EXCEPT ![w] =
                            [s \in Slot |-> IF s \in S THEN dirty_hours[s] ELSE 0]]
    /\ wpc' = [wpc EXCEPT ![w] = "sum"]
    /\ UNCHANGED <<tables, sessionVars, current, sums, dropped, acked>>

\* The loop goes through the rows in the order they were selected.
\* SELECT COALESCE(SUM(units), 0) over the committed events of the hour.  The
\* sum is a numeric that must fit the int64 it is scanned into.
SumHour(w) ==
    /\ wpc[w] = "sum"
    /\ \E s \in todo[w] :
          /\ \A t \in todo[w] : s[2] <= t[2]
          /\ HourUnits(usage_events, s) <= MaxUnits
          /\ current' = [current EXCEPT ![w] = s]
          /\ todo' = [todo EXCEPT ![w] = @ \ {s}]
          /\ sums' = [sums EXCEPT ![w][s] = HourUnits(usage_events, s)]
    /\ wpc' = [wpc EXCEPT ![w] = "rewrite"]
    /\ UNCHANGED <<tables, sessionVars, held, seenGen, dropped, acked>>

\* The upsert of the window with the sum, then DELETE FROM dirty_hours ... AND
\* gen = the gen that was read.  Nobody sees either before the commit, so the
\* two statements are one step.
RewriteHour(w) ==
    /\ wpc[w] = "rewrite"
    /\ dropped' = IF dirty_hours[current[w]] = seenGen[w][current[w]]
                  THEN [dropped EXCEPT ![w] = @ \cup {current[w]}]
                  ELSE dropped
    /\ wpc' = [wpc EXCEPT ![w] = "sum"]
    /\ UNCHANGED <<tables, sessionVars, held, todo, seenGen, current, sums, acked>>

EndJob(w) ==
    /\ wpc' = [wpc EXCEPT ![w] = "idle"]
    /\ held' = [held EXCEPT ![w] = {}]
    /\ todo' = [todo EXCEPT ![w] = {}]
    /\ seenGen' = [seenGen EXCEPT ![w] = NoMarks]
    /\ current' = [current EXCEPT ![w] = NoSlot]
    /\ sums' = [sums EXCEPT ![w] = NoMarks]
    /\ dropped' = [dropped EXCEPT ![w] = {}]

\* Mutated form: units = usage_windows.units + EXCLUDED.units.
CommitHoursAdding(w) ==
    /\ wpc[w] = "sum"
    /\ todo[w] = {}
    /\ usage_windows' = [s \in Slot |-> usage_windows[s] +
                                        (IF s \in held[w] THEN sums[w][s] ELSE 0)]
    /\ dirty_hours' = [s \in Slot |-> IF s \in dropped[w] THEN 0
                                                          ELSE dirty_hours[s]]
    /\ EndJob(w)
    /\ UNCHANGED <<usage_events, sessionVars, acked>>

\* COMMIT: the windows of every row of the loop and the deletions appear.
CommitHours(w) ==
    /\ wpc[w] = "sum"
    /\ todo[w] = {}
    /\ usage_windows' = [s \in Slot |-> IF s \in held[w] THEN sums[w][s]
                                                         ELSE usage_windows[s]]
    /\ dirty_hours' = [s \in Slot |-> IF s \in dropped[w] THEN 0
                                                          ELSE dirty_hours[s]]
    /\ EndJob(w)
    /\ UNCHANGED <<usage_events, sessionVars, acked>>

\* An error or a crash of the worker: its transaction leaves no trace.
RollbackHours(w) ==
    /\ wpc[w] # "idle"
    /\ EndJob(w)
    /\ UNCHANGED <<tables, sessionVars, acked>>

\* The next row is an hour whose sum does not fit.
TooLarge(w) ==
    /\ wpc[w] = "sum"
    /\ \E s \in todo[w] : /\ \A t \in todo[w] : s[2] <= t[2]
                          /\ HourUnits(usage_events, s) > MaxUnits

\* The scan fails, and with it the job, for every hour it holds.
FailSum(w) == TooLarge(w) /\ RollbackHours(w)

-----------------------------------------------------------------------------

SessionStep(p) == \/ \E b \in Offered : Begin(p, b)
                  \/ SkipDuplicate(p)
                  \/ InsertEvent(p)
                  \/ MarkDirty(p)
                  \/ \E answered \in BOOLEAN : CommitBatch(p, answered)
                  \/ RollbackBatch(p)
                  \/ BreakDeadlock(p)

WorkerStep(w) == \/ SelectDirty(w)
                 \/ SumHour(w)
                 \/ RewriteHour(w)
                 \/ CommitHours(w)
                 \/ RollbackHours(w)

Next == \/ \E p \in Session : SessionStep(p)
        \/ \E w \in Worker : WorkerStep(w)

Spec == Init /\ [][Next]_vars

-----------------------------------------------------------------------------
(* Fairness *)

\* The next statement of an open request.  Strong fairness: a statement that
\* waits is queued on the lock and is granted it in turn, so it cannot be
\* passed over for ever by transactions that come and go.
SessionProgress(p) == \/ SkipDuplicate(p)
                      \/ InsertEvent(p)
                      \/ MarkDirty(p)
                      \/ \E answered \in BOOLEAN : CommitBatch(p, answered)

\* The worker polls on a ticker and takes whatever it finds free at that
\* instant: weak fairness is all the ticker justifies.
WorkerProgress(w) == \/ SelectDirty(w)
                     \/ SumHour(w)
                     \/ FailSum(w)
                     \/ RewriteHour(w)
                     \/ CommitHours(w)

\* A transaction that had written something is undone by a failure.
Fault == \/ \E p \in Session :
                inserted[p] # {} /\ ~Deadlocked(p) /\ RollbackBatch(p)
         \/ \E w \in Worker : ~TooLarge(w) /\ RollbackHours(w)

Fairness == /\ \A p \in Session : SF_vars(SessionProgress(p))
            /\ \A p \in Session : WF_vars(BreakDeadlock(p))
            /\ \A w \in Worker : WF_vars(WorkerProgress(w))

\* Failures may be many, but not for ever.
FairSpec == Spec /\ Fairness /\ <>[][~Fault]_vars

-----------------------------------------------------------------------------
(* Properties *)

TypeOK ==
    /\ usage_events \subseteq Event /\ IsFiniteSet(usage_events)
    /\ dirty_hours \in [Slot -> Nat]
    /\ usage_windows \in [Slot -> Nat]
    /\ pc \in [Session -> {"idle", "insert", "mark"}]
    /\ batch \in [Session -> Seq(Event)]
    /\ pos \in [Session -> Nat \ {0}]
    /\ \A p \in Session : pc[p] = "mark" => pos[p] <= Len(batch[p])
    /\ inserted \in [Session -> SUBSET Event]
    /\ \A p \in Session : IsFiniteSet(inserted[p])
    /\ marked \in [Session -> [Slot -> Nat]]
    /\ wpc \in [Worker -> {"idle", "sum", "rewrite"}]
    /\ held \in [Worker -> SUBSET Slot]
    /\ todo \in [Worker -> SUBSET Slot]
    /\ seenGen \in [Worker -> [Slot -> Nat]]
    /\ current \in [Worker -> Slot \cup {NoSlot}]
    /\ \A w \in Worker : wpc[w] = "rewrite" => current[w] \in Slot
    /\ sums \in [Worker -> [Slot -> Nat]]
    /\ dropped \in [Worker -> SUBSET Slot]
    /\ acked \subseteq Event

\* Retries and concurrent duplicates never store two rows for one request id,
\* across committed rows and the rows of every open transaction.
OneRowPerRequest ==
    /\ UniqueRids(usage_events)
    /\ \A p \in Session : /\ UniqueRids(inserted[p])
                          /\ Rids(inserted[p]) \cap Rids(usage_events) = {}
    /\ \A p, q \in Session :
          p # q => Rids(inserted[p]) \cap Rids(inserted[q]) = {}

\* An hour nobody has marked dirty shows exactly the sum of its events: no
\* interleaving of ingest, recomputation and rollback loses an event silently.
CleanHoursAreExact ==
    \A s \in Slot :
        dirty_hours[s] = 0 => usage_windows[s] = HourUnits(usage_events, s)

\* Every request id of a batch that was answered 200 is in the table,
\* duplicates included: counting a row as a duplicate of one that a
\* concurrent transaction later rolls back would break it.
AckedRequestIsStored == Rids(acked) \subseteq Rids(usage_events)

\* The gen a worker read is still the gen of the row when it deletes it: the
\* row lock already keeps ingest out, and "gen = $4" never fails.
DeleteNeverMisses ==
    \A w \in Worker : \A s \in held[w] : dirty_hours[s] = seenGen[w][s]

\* At most one open transaction is at work on an hour, so a sum that was read
\* is still right when it is published.
PendingSumsAreExact ==
    \A w \in Worker : \A s \in held[w] \ todo[w] :
        sums[w][s] = HourUnits(usage_events, s)

\* A window never shows a unit that no stored event carries: nothing that is
\* rolled back is ever billed.
WindowsNeverOvershoot ==
    \A s \in Slot : usage_windows[s] <= HourUnits(usage_events, s)

\* A published window never shrinks: events are only added, and a
\* recomputation that began earlier never overwrites a later one.
WindowsNeverShrink ==
    [][\A s \in Slot : usage_windows'[s] >= usage_windows[s]]_vars

\* What the locks give: no dirty row is written or locked by two open
\* transactions at once.
RowLocksExclusive ==
    /\ \A p, q \in Session, s \in Slot :
          p # q => marked[p][s] = 0 \/ marked[q][s] = 0
    /\ \A w, v \in Worker : w # v => held[w] \cap held[v] = {}
    /\ \A p \in Session, w \in Worker : \A s \in held[w] : marked[p][s] = 0

\* An open request has marked exactly the hours of the rows it inserted, the
\* one being marked apart.
MarksCoverInserts ==
    \A p \in Session :
        /\ \A r \in inserted[p] :
              \/ marked[p][SlotOf(r)] > 0
              \/ pc[p] = "mark" /\ r = Current(p)
        /\ \A s \in Slot :
              marked[p][s] > 0 => \E r \in inserted[p] : SlotOf(r) = s
        /\ pc[p] = "mark" => Current(p) \in inserted[p]

\* What a job holds, has summed and has deleted, at each of its statements.
JobProgress ==
    \A w \in Worker :
        /\ wpc[w] = "idle" => held[w] = {}
        /\ todo[w] \subseteq held[w]
        /\ dropped[w] \subseteq held[w] \ todo[w]
        /\ wpc[w] = "sum" => held[w] \ todo[w] = dropped[w]
        /\ wpc[w] = "rewrite" =>
              /\ current[w] \in held[w] \ todo[w]
              /\ held[w] \ todo[w] = dropped[w] \cup {current[w]}
        /\ \A s \in held[w] : dirty_hours[s] > 0

\* Every event a request has passed is stored, or is about to be by itself.
PassedIsStored ==
    \A p \in Session :
        pc[p] # "idle" =>
            \A i \in 1 .. Len(batch[p]) :
               i < pos[p] => batch[p][i].rid \in Rids(usage_events \cup inserted[p])

\* Metering implements Meter: a committed batch is Record, a committed job is
\* Refresh, every other step changes nothing a reader can see.
Abstract == INSTANCE Meter WITH events <- usage_events,
                                stale <- {s \in Slot : dirty_hours[s] > 0},
                                windows <- usage_windows
MeterSpec == Abstract!Spec

\* Every request that is begun comes to an end, deadlocks included.
RequestsEnd == \A p \in Session : (pc[p] # "idle") ~> (pc[p] = "idle")

\* A window that lags behind its events catches up with them, unless there is
\* an hour too large to be summed: a job that takes it fails for every hour it
\* took, and the oldest are taken first, again and again.  Only jobs of a single
\* hour would keep the older ones safe.
WindowsCatchUp ==
    \A s \in Slot :
        (usage_windows[s] # HourUnits(usage_events, s))
            ~> \/ usage_windows[s] = HourUnits(usage_events, s)
               \/ \E t \in Slot : /\ HourUnits(usage_events, t) > MaxUnits
                                  /\ t[2] <= s[2] \/ JobLimit > 1

\* DESIGN.md, "How it is put together": "HTTP 200 means the event is in Postgres."
AckedEventIsStored == acked \subseteq usage_events
============================================================================
