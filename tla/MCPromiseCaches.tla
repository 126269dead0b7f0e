--------------------------- MODULE MCPromiseCaches ---------------------------
(***************************************************************************)
(* The hourly cache of the par values with the one it is filled from, and  *)
(* the table of ranks.                                                     *)
(***************************************************************************)
EXTENDS PromiseCaches, TLC

CacheNames == {"parRows", "unrecordedParChange", "rankTables"}
CacheTtl == [k \in CacheNames |-> 2]
CacheFeeds == [k \in CacheNames |-> IF k = "parRows" THEN "unrecordedParChange" ELSE None]
CacheFailure ==
  [k \in CacheNames |->
     CASE k = "parRows" -> {"empty"} [] k = "unrecordedParChange" -> {"empty", "keep"} [] OTHER -> {"forget"}]

CONSTANTS c1, c2, c3, r1, r2
Promises == {c1, c2, c3}
Callers == {r1, r2}
Symmetry == Permutations(Promises) \union Permutations(Callers)
=============================================================================
