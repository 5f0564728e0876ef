------------------------------- MODULE Usage -------------------------------
(***************************************************************************)
(* What a usage event is and what an hour of usage adds up to: the         *)
(* vocabulary the abstract Meter and the detailed Metering share.          *)
(*                                                                         *)
(* An event is a record with the fields rid (request_id), key (the API     *)
(* key, which belongs to one customer), hour (event_ts truncated to the    *)
(* hour) and units.  The endpoint is carried by the code and read by no    *)
(* decision, so it is left out.                                            *)
(***************************************************************************)
EXTENDS Integers, FiniteSets

CONSTANT Event   \* the events clients may report

ASSUME EventAssumption == \A e \in Event : e.hour \in Int /\ e.units \in Int

\* The primary key of dirty_hours and usage_windows.
SlotOf(e) == <<e.key, e.hour>>
Slot == {SlotOf(e) : e \in Event}

Rids(rows) == {r.rid : r \in rows}

\* Every unit of every row of the slot, as one token <<row, i>>: counting the
\* tokens is SUM(units) without a recursive definition.
RowsOf(rows, s) == {r \in rows : SlotOf(r) = s}
UnitTokens(rows, s) == UNION {{r} \X (1 .. r.units) : r \in RowsOf(rows, s)}

\* SELECT COALESCE(SUM(units), 0) ... of one API key and one hour.
HourUnits(rows, s) == Cardinality(UnitTokens(rows, s))

UniqueRids(rows) == \A r1, r2 \in rows : r1.rid = r2.rid => r1 = r2
============================================================================
