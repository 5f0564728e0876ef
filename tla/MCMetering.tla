----------------------------- MODULE MCMetering -----------------------------
(***************************************************************************)
(* Small instances of Metering for TLC.                                    *)
(***************************************************************************)
EXTENDS Metering, TLC

CONSTANTS k1, k2

Ev(rid, key, hour, n) == [rid |-> rid, key |-> key, hour |-> hour, units |-> n]

\* One key, two hours, four request ids.  Two batches touch the hours in
\* opposite orders (their transactions can deadlock on dirty_hours) and share no
\* request id; the third resends an event of each, and one of them twice.
a1 == Ev(1, k1, 1, 1)
a2 == Ev(2, k1, 2, 1)
b1 == Ev(3, k1, 2, 2)
b2 == Ev(4, k1, 1, 1)

RaceEvent == {a1, a2, b1, b2}
RaceOffered == {<<a1, a2>>, <<b1, b2>>, <<b1, a1, b1>>}

\* The same request id used by two keys (of two customers).
c1 == Ev(1, k2, 1, 3)
TenantEvent == {a1, a2, c1}
TenantOffered == {<<a1, a2>>, <<c1>>, <<a1, a1>>}
============================================================================
