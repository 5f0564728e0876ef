------------------------------ MODULE MCTenancy ------------------------------
(***************************************************************************)
(* Small instances of Tenancy for TLC: two customers with a key and a row  *)
(* each.                                                                   *)
(***************************************************************************)
EXTENDS Tenancy, TLC

CONSTANTS c1, c2, k1, k2, r1, r2

MCOwnerOf == k1 :> c1 @@ k2 :> c2
MCRowOwner == r1 :> c1 @@ r2 :> c2

Ask(route, token, want) == [route |-> route, token |-> token, want |-> want]

\* Lists of both customers, one's guess of the other's row, an operator's list,
\* either token where the other belongs, and the health check.
MCRequest == {Ask("customer", k1, All), Ask("customer", k2, All),
              Ask("customer", k1, r2), Ask("ops", OpsToken, All),
              Ask("ops", k2, All), Ask("customer", OpsToken, All),
              Ask("health", OpsToken, All)}
==============================================================================
