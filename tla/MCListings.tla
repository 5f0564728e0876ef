------------------------------ MODULE MCListings ------------------------------
(***************************************************************************)
(* Small instances of Listings for TLC: three hours (instants, names), two *)
(* keys (ids).                                                             *)
(***************************************************************************)
EXTENDS Listings

MCRow == (1 .. 3) \X (1 .. 2)

MCDefaultPage == [l \in List |-> 2]
MCMaxPage == [l \in List |-> 3]

\* Pages of one row, a default and an oversized limit; for the usage a filter by
\* key, a shorter range, and a range that is refused; else also an offset that is
\* not.
MCQuery == [list : {"usage"}, from : {1}, to : {3, 4}, key : {0, 1}, limit : {0, 1, 9}]
              \cup {[list |-> "usage", from |-> 2, to |-> 2, key |-> 0, limit |-> 1]}
              \cup [list : {"invoices"}, offset : {0, 0 - 1, 2}, limit : {1, 9}]
              \cup [list : {"customers"}, offset : {0}, limit : {0, 1}]
==============================================================================
