----------------------------- MODULE MCInvoicing -----------------------------
(***************************************************************************)
(* Small instances of Invoicing for TLC.  A month has ten hours: hours 10  *)
(* to 19 are month 1.                                                      *)
(***************************************************************************)
EXTENDS Invoicing, TLC

CONSTANTS k1, k2, c1, c2

Ev(rid, key, hour, n) == [rid |-> rid, key |-> key, hour |-> hour, units |-> n]

\* Two hours of month 1, and the first hour of month 2, for one customer.
SoloEvent == {Ev(1, k1, 10, 2), Ev(2, k1, 19, 1), Ev(3, k1, 20, 2)}

\* The same, and a neighbour with usage that cannot be billed.
RichEvent == SoloEvent \cup {Ev(4, k2, 10, 7)}

MCCustomerOf == k1 :> c1 @@ k2 :> c2

\* The first unit is free, the next costs 3, the rest 1 each.
MCPlan == [c \in {c1, c2} |->
             <<[from |-> 0, to |-> 1, price |-> 0],
               [from |-> 1, to |-> 2, price |-> 3],
               [from |-> 2, to |-> NoLimit, price |-> 1]>>]
==============================================================================
