-------------------------------- MODULE Months --------------------------------
(***************************************************************************)
(* Vocabulary of invoicing: whose usage it is and which month it is in.    *)
(***************************************************************************)
EXTENDS Usage, Sums

CONSTANTS Customer,
          CustomerOf,      \* API key -> the customer it belongs to
          HoursPerMonth    \* every month has as many hours in the model

\* api_keys is a table.
ASSUME KeysAssumption == IsFiniteSet({e.key : e \in Event})
ASSUME MonthAssumption == HoursPerMonth \in Nat \ {0}
ASSUME UnitsAssumption == \A e \in Event : e.units > 0
ASSUME OwnerAssumption == \A e \in Event : CustomerOf[e.key] \in Customer

MonthOf(hour) == hour \div HoursPerMonth

\* The hours of a customer in a month.
SlotsOf(c, m) == {s \in Slot : CustomerOf[s[1]] = c /\ MonthOf(s[2]) = m}

\* The units of the stored events of a customer in a month: what an invoice
\* is meant to charge.
UnitsIn(events, c, m) ==
    SumOver([s \in Slot |-> HourUnits(events, s)], SlotsOf(c, m))
==============================================================================
