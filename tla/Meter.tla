------------------------------- MODULE Meter -------------------------------
(***************************************************************************)
(* What metering promises, with no transactions, locks or workers: events  *)
(* are recorded once per request id, an hour with a new event is stale     *)
(* from the same instant, and refreshing an hour makes its window equal to *)
(* the sum of its events at that instant.                                  *)
(***************************************************************************)
EXTENDS Usage

VARIABLES events,    \* the events recorded so far
          stale,     \* the slots whose window may lag behind the events
          windows    \* the units published for each slot

meterVars == <<events, stale, windows>>

Init == /\ events = {}
        /\ stale = {}
        /\ windows = [s \in Slot |-> 0]

\* A batch is recorded: only new request ids, at most one row for each.
Record(E) == /\ UniqueRids(E)
             /\ Rids(E) \cap Rids(events) = {}
             /\ events' = events \cup E
             /\ stale' = stale \cup {SlotOf(e) : e \in E}
             /\ UNCHANGED windows

\* A set of stale slots is brought up to date.
Refresh(S) == /\ S # {}
              /\ stale' = stale \ S
              /\ windows' = [s \in Slot |-> IF s \in S THEN HourUnits(events, s)
                                                       ELSE windows[s]]
              /\ UNCHANGED events

Next == \/ \E E \in SUBSET Event : E # {} /\ Record(E)
        \/ \E S \in SUBSET stale : Refresh(S)

Spec == Init /\ [][Next]_meterVars
============================================================================
