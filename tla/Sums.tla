-------------------------------- MODULE Sums --------------------------------
(***************************************************************************)
(* SELECT COALESCE(SUM(...), 0) over a finite set of rows.                 *)
(***************************************************************************)
EXTENDS Integers, FiniteSets, FiniteSetsExt

\* The sum of f[x] for x in S.
SumOver(f, S) == MapThenSumSet(LAMBDA x : f[x], S)
==============================================================================
