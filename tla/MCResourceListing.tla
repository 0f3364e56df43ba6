------------------------- MODULE MCResourceListing -------------------------
(***************************************************************************)
(* ResourceListing with two kinds: three Deployments that compete for two  *)
(* slots, and a Job.                                                       *)
(***************************************************************************)
EXTENDS ResourceListing

CONSTANTS d1, d2, d3, j1, nginx, redis, bad

MCWorkload == {d1, d2, d3, j1}
MCKindOf == [i \in MCWorkload |-> IF i = j1 THEN 2 ELSE 1]
MCImage == {nginx, redis, bad}
MCValid == {nginx, redis}

\* Good names only; one bad name; two bad names in one kind, which race for the
\* channel, one of them after a good one; a bad name in the second kind.
Holding(x, y, z, u) ==
  [i \in MCWorkload |-> CASE i = d1 -> x [] i = d2 -> y [] i = d3 -> z [] i = j1 -> u]

MCContents == {
  Holding(<<nginx>>, <<nginx, redis>>, <<redis>>, <<nginx>>),
  Holding(<<nginx>>, <<bad>>, <<>>, <<nginx>>),
  Holding(<<bad>>, <<nginx, bad>>, <<redis>>, <<redis>>),
  Holding(<<nginx>>, <<redis>>, <<nginx>>, <<bad>>)}
=============================================================================
