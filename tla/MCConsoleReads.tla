--------------------------- MODULE MCConsoleReads ---------------------------
(* An instance of ConsoleReads for TLC: two tenants, and rows whose          *)
(* created_at are equal (d1 and d2, of one fan-out) or not.                  *)
EXTENDS RestoreDrill

CONSTANTS d1, d2, d3, x, e1, e2, f

MCKeyOf ==
  [r \in Rows |-> CASE r = d1 -> <<1, 1>> [] r = d2 -> <<1, 2>> [] r = d3 -> <<2, 0>>
                    [] r = e1 -> <<0, 2>> [] r = e2 -> <<0, 3>>
                    [] r = x -> <<1, 4>> [] r = f -> <<0, 5>>]
MCTenantOf == [r \in Rows |-> IF r \in {x, f} THEN "other" ELSE "own"]
MCEndpointOf == [d \in Deliveries |-> IF d = x THEN f ELSE IF d = d2 THEN e2 ELSE e1]

\* The percentile is the nearest rank, or the one above it (whenever 95% of the
\* sample is a whole number of latencies), for every size of the sample.
ASSUME PercentileCovers ==
  \A n \in 1..200 :
    /\ PercentileRank(n) <= n
    /\ 100 * PercentileRank(n) >= 95 * n
    /\ 100 * (PercentileRank(n) - 2) < 95 * n
=============================================================================
