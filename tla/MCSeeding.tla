------------------------------ MODULE MCSeeding -------------------------------
(***************************************************************************)
(* A small instance of Seeding: two firms, three chunks, next to a worker. *)
(* A month has ten hours: hours 10 to 19 are month 1.                      *)
(***************************************************************************)
EXTENDS Seeding, TLC

CONSTANTS k1, k2, c1, c2

Ev(rid, key, hour, n) == [rid |-> rid, key |-> key, hour |-> hour, units |-> n]

Chunk1 == {Ev(1, k1, 10, 2)}
Chunk2 == {Ev(2, k1, 19, 1), Ev(3, k1, 20, 1)}
Chunk3 == {Ev(4, k2, 10, 1)}

MCEvent == Chunk1 \cup Chunk2 \cup Chunk3

MCScript == <<[op |-> "create", firm |-> c1], [op |-> "flush", events |-> Chunk1],
              [op |-> "flush", events |-> Chunk2],
              [op |-> "create", firm |-> c2], [op |-> "flush", events |-> Chunk3]>>

MCCustomerOf == k1 :> c1 @@ k2 :> c2

\* The first unit is free, the next costs 3, the rest 1 each.
MCPlan == [c \in {c1, c2} |->
             <<[from |-> 0, to |-> 1, price |-> 0],
               [from |-> 1, to |-> 2, price |-> 3],
               [from |-> 2, to |-> NoLimit, price |-> 1]>>]
==============================================================================
