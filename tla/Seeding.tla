-------------------------------- MODULE Seeding --------------------------------
(***************************************************************************)
(* The seed (cmd/seed/main.go) on a system whose workers are running, as   *)
(* the README has it: it creates firms, stores their usage in chunks, runs *)
(* the hour job until it finds nothing, and issues the month before.  Each *)
(* of these is a transaction of its own or several; log.Fatal or a crash   *)
(* may come between any two, and the seed may be started again.            *)
(***************************************************************************)
EXTENDS Invoicing

CONSTANTS Seed,            \* the process that runs the seed, one of Worker
          Script,          \* what it loads, in order: a firm, then its chunks
          SeedHourBatch,
          SeedHourPasses

ASSUME SeedAssumption == Seed \in Worker
ASSUME PassesAssumption == SeedHourBatch \in Nat \ {0} /\ SeedHourPasses \in Nat \ {0}
\* The firms are a list in the source, a chunk is a slice in memory, and each
\* INSERT of a firm makes a customer of its own.
ASSUME ScriptAssumption ==
    /\ Script # <<>>
    /\ Script \in Seq([op : {"create"}, firm : Customer] \cup
                      [op : {"flush"}, events : SUBSET Event])
    /\ \A n \in DOMAIN Script :
          Script[n].op = "flush" => IsFiniteSet(Script[n].events)
    /\ \A n, m \in DOMAIN Script :
          /\ Script[n].op = "create" /\ Script[m].op = "create"
          /\ Script[n].firm = Script[m].firm
          => n = m

VARIABLES
    spc,       \* "new", "load", "hours", "issue", "done" or "dead"
    prevStart, \* the month it issues
    at,        \* the step of Script that is next
    passes,    \* hour jobs run so far
    created,   \* the firms in customers, in the order of their creation
    left       \* what was still stale when the hour jobs ended

seedVars == <<spc, prevStart, at, passes, left>>
allVars == <<vars, seedVars, created>>

OtherWorker == Worker \ {Seed}

SeedInit == /\ Init
            /\ spc = "new" /\ prevStart = 0 /\ at = 1 /\ passes = 0
            /\ created = <<>> /\ left = {}

-----------------------------------------------------------------------------

\* Mutated form: seeded is not asked.
SeedAgain ==
    /\ spc \in {"new", "done", "dead"}
    /\ spc' = "load" /\ at' = 1 /\ passes' = 0 /\ left' = {}
    /\ prevStart' = PreviousMonth
    /\ UNCHANGED <<vars, created>>

\* main, up to the loop: once there is a seeded customer it ends at once.  The
\* clock is read here and not again.
StartSeed ==
    /\ spc \in {"new", "done", "dead"}
    /\ created = <<>>
    /\ spc' = "load" /\ at' = 1 /\ passes' = 0 /\ left' = {}
    /\ prevStart' = PreviousMonth
    /\ UNCHANGED <<vars, created>>

\* createFirm, or one chunk of flush; after the last one the hour jobs.
Load ==
    /\ spc = "load"
    /\ LET step == Script[at] IN
       IF step.op = "create"
       THEN created' = Append(created, step.firm) /\ UNCHANGED meter
       ELSE Meter!Record(step.events) /\ UNCHANGED created
    /\ at' = at + 1
    /\ spc' = IF at = Len(Script) THEN "hours" ELSE "load"
    /\ UNCHANGED <<month, grants, invoices, runVars, prevStart, passes, left>>

\* The dirty rows one hour job takes: the oldest of those no other worker's job
\* has locked.  A worker in its hour job is idle here until that commits.
Taken(S) ==
    \E held \in SUBSET stale :
        LET free == stale \ held IN
        /\ held # {} => \E w \in OtherWorker : wpc[w] = "idle"
        /\ S \subseteq free
        /\ Cardinality(S) = Smaller(SeedHourBatch, Cardinality(free))
        /\ \A s \in S, t \in free \ S : s[2] <= t[2]

\* IssuePeriod(prevStart, prevEnd)
BeginIssue == /\ wpc' = [wpc EXCEPT ![Seed] = "list"]
              /\ period' = [period EXCEPT ![Seed] = prevStart]

\* Mutated form: one hour job only.
HourPassOnce ==
    /\ spc = "hours"
    /\ \E S \in SUBSET stale :
          /\ Taken(S)
          /\ IF S = {} THEN UNCHANGED meter ELSE Meter!Refresh(S)
          /\ left' = {}
    /\ passes' = passes + 1
    /\ spc' = "issue" /\ BeginIssue
    /\ UNCHANGED <<month, grants, invoices, queue, customer, units, read, seen,
                   prevStart, at, created>>

\* One round of the loop of hour jobs: it ends when nothing was processed, and
\* the seed dies if the last round still had something to do.
HourPass ==
    /\ spc = "hours"
    /\ \E S \in SUBSET stale :
          /\ Taken(S)
          /\ \A s \in S : HourUnits(events, s) <= MaxInt
          /\ IF S = {}
             THEN /\ spc' = "issue" /\ BeginIssue
                  /\ left' = stale
                  /\ UNCHANGED meter
             ELSE /\ Meter!Refresh(S)
                  /\ spc' = IF passes + 1 = SeedHourPasses THEN "dead" ELSE "hours"
                  /\ UNCHANGED <<wpc, period, left>>
    /\ passes' = passes + 1
    /\ UNCHANGED <<month, grants, invoices, queue, customer, units, read, seen,
                   prevStart, at, created>>

\* IssuePeriod, as a worker runs it.
SeedIssue ==
    /\ spc = "issue"
    /\ \/ FinishRun(Seed) /\ spc' = "done"
       \/ FailRun(Seed) /\ spc' = "dead"
       \/ /\ \/ ListCustomers(Seed)
             \/ SumMonth(Seed)
             \/ ReadCredits(Seed)
             \/ SaveInvoice(Seed)
          /\ UNCHANGED spc
    /\ UNCHANGED <<prevStart, at, passes, created, left>>

\* log.Fatal after an error, or a crash.
Die ==
    /\ spc \in {"load", "hours", "issue"}
    /\ spc' = "dead"
    /\ Reset(Seed)
    /\ UNCHANGED <<meter, month, grants, invoices, prevStart, at, passes, created, left>>

SeedStep == StartSeed \/ Load \/ HourPass \/ SeedIssue \/ Die

\* The rest of the system.  Nobody reports usage for the firms but the seed.
Others ==
    /\ \/ Tick
       \/ \E c \in Range(created), amount \in GrantAmounts : IssueCredit(c, amount)
       \/ \E w \in OtherWorker : \/ \E S \in SUBSET stale : HourJob(w, S)
                                 \/ RunStep(w)
                                 \/ AbortRun(w)
    /\ UNCHANGED <<seedVars, created>>

SeedNext == SeedStep \/ Others

SeedSpec == SeedInit /\ [][SeedNext]_allVars

-----------------------------------------------------------------------------

\* Started again after it ended or died anywhere, the seed never creates a firm
\* that is already there.
FirmsAreSeededOnce == IsInjective(created)

\* A seed that ended well has an invoice, its own or a worker's, for each of its
\* firms with usage in the month it issued, but for those with an hour that a
\* worker had locked in the last hour job.
SeededFirmsAreInvoiced ==
    spc = "done" =>
        \A c \in Range(created) :
            \/ HasInvoice(c, prevStart)
            \/ UnitsIn(events, c, prevStart) = 0
            \/ SlotsOf(c, prevStart) \cap left # {}
==============================================================================
